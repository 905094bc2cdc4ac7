CONSTANTS
  Offers <- MCOffers
  Attempts = 2
  MaxConns = 2
  MaxCells = 1
  CancelledIsException = FALSE
SPECIFICATION FairSpec
CHECK_DEADLOCK FALSE
INVARIANTS FramingAgrees HeldIsNegotiated OpenHasOwner LeftIsClosed
PROPERTY CallEnds
