CONSTANTS
  t1 = t1
  t2 = t2
  c1 = c1
  c2 = c2
  h1 = h1
  h2 = h2
  r1 = r1
  r2 = r2
  Nobody = Nobody
  Tasks = {t1, t2}
  Circuits = {c1, c2}
  Onions = {h1, h2}
  Relays = {r1, r2}
  Circ <- MCTwoCircuits
  Onion <- MCOnion
  Intros <- MCIntros
  NDirs = 4
  Positions <- MCPosition
  MaxSent = 3
SPECIFICATION Spec
CHECK_DEADLOCK FALSE
INVARIANT IntroducesOwn
