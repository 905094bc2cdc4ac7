CONSTANTS
  b1 = b1
  x1 = x1
  Nobody = Nobody
  Reqs <- MCReqs
  Wants <- MCWants
  MaxStray = 1
  CancelledIsException = FALSE
SPECIFICATION FairSpec
CHECK_DEADLOCK FALSE
INVARIANTS WaiterQueued EndedLeavesQueue FifoMatch CrashHasCause
PROPERTY EveryCallEnds
