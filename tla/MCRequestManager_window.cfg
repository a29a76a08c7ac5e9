\* Two pieces of three and one blocks, a window of two, two pieces in
\* flight; a deadline of two ticks, so that it can be renewed before it is due.
CONSTANTS
  Pieces = {0, 1}
  NumBlocks <- ShortLast
  MaxRequests = 2
  MaxPiecesInFlight = 2
  RequestTimeout = 2
  MaxFailures = 1
CHECK_DEADLOCK FALSE
SPECIFICATION FairSpec
INVARIANTS
  BlocksAccounted
  ChokedHoldsNothing
  DeadlineMeansWaiting
  DigestCoversPiece
PROPERTIES
  EveryRequestEnds
