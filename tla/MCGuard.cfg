CONSTANTS
  t1 = t1
  t2 = t2
  Tasks <- MCBoth
  Hops <- MCHops
  Attempts = 1
  MaxCircuits = 2
  MaxData = 1
  CancelledIsException = FALSE
SPECIFICATION Spec
CHECK_DEADLOCK FALSE
INVARIANTS MappedIsOwned ReturnedIsBuilt DeadGuardHasNoCircuit OneDestroy
