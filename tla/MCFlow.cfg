CONSTANTS
  s1 = s1
  s2 = s2
  Streams <- MCStreams
  Nodes = 2
  CircuitStart = 4
  CircuitIncr = 2
  StreamStart = 3
  StreamIncr = 1
SPECIFICATION Spec
CHECK_DEADLOCK FALSE
INVARIANTS CreditConserved NeverStarved CreditBounded
SYMMETRY MCSymmetry
