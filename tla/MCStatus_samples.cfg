\* Three pieces, any number of them resumed; the copy may fail.
CONSTANTS
  TotalPieces = 3
  CopiesFail = TRUE
SPECIFICATION FairFeedSpec
CHECK_DEADLOCK FALSE
INVARIANTS
  StateIsTrue
PROPERTIES
  StateNeverGoesBack
  ExtractionIsReported
