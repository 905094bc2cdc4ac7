CONSTANTS
  t1 = t1
  t2 = t2
  Tasks <- MCSolo
  Hops <- MCHops
  Attempts = 3
  MaxCircuits = 3
  MaxData = 1
  CancelledIsException = TRUE
SPECIFICATION FairSpec
CHECK_DEADLOCK FALSE
PROPERTY EveryBuildEnds
