\* A peer that may fall silent, stop delivering, stop reading and hang up.
CONSTANTS
  ChannelSize = 1
  WireSize = 1
  Burst = 2
  InfoHash <- Hash
  Scripts <- MCScripts
  StopsReading = TRUE
SPECIFICATION FairSpec
CHECK_DEADLOCK FALSE
INVARIANTS
  TypeOK
  NothingMisread
  NothingHidden
PROPERTIES
  HangupEndsConnection
  EarlyStagesEnd
  HoldsAreGivenBack
  SilenceEndsRequests
