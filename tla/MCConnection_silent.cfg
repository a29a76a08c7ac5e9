\* A peer that falls silent.
CONSTANTS
  ChannelSize = 1
  WireSize = 1
  Burst = 1
  InfoHash <- Hash
  Scripts <- MCScripts
  StopsReading = FALSE
SPECIFICATION FairSpec
CHECK_DEADLOCK FALSE
PROPERTIES
  SilentPeerIsDropped
