CONSTANTS
  t1 = t1
  t2 = t2
  a1 = a1
  a2 = a2
  a3 = a3
  x = x
  Tasks = {t1, t2}
  Idents = {a1, a2, a3}
  Published <- MCPublished
  Attempts = 2
  MaxNow = 1
  Cuts = {0, 2, 3, 7, 10}
  MaxCrashes = 1
SPECIFICATION FairSpec
INVARIANTS HeldIsMajority FailsForCause BrokenByTorn
PROPERTIES FreshIsKept RenewalEnds
CHECK_DEADLOCK FALSE
