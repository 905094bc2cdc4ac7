CONSTANTS
  r1 = r1
  r2 = r2
  r3 = r3
  r4 = r4
  None = None
  Readers <- MCReaders
SPECIFICATION FairSpec
CHECK_DEADLOCK FALSE
INVARIANT OneLoader
PROPERTIES CreatedOnce EveryReadEnds
