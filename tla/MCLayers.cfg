CONSTANTS
  Hops = 3
  Lengths <- MCLengths
  Replies <- MCReplies
  MaxSkins = 4
  MaxSent = 2
  MaxBack = 2
SPECIFICATION Spec
CHECK_DEADLOCK FALSE
INVARIANTS InStep AllRecognized KeysAgree ClientCellsFit
