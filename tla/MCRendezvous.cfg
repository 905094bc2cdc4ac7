CONSTANTS
  t1 = t1
  t2 = t2
  c1 = c1
  c2 = c2
  h1 = h1
  h2 = h2
  r1 = r1
  r2 = r2
  Nobody = Nobody
  Tasks = {t1, t2}
  Circuits = {c1}
  Onions = {h1, h2}
  Relays = {r1, r2}
  Circ <- MCOneCircuit
  Onion <- MCOnion
  Intros <- MCIntros
  NDirs = 4
  Positions <- MCPositions
  MaxSent = 3
SPECIFICATION FairSpec
CHECK_DEADLOCK FALSE
INVARIANTS OneAgreedNode ReachedIsAsked
PROPERTY EndsUnlessSilent
