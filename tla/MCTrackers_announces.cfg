\* Whole, undated and damaged files; two failing trackers beside one that answers.
CONSTANTS
  Bytes = {"0", "1", "2", "3", "4", "5", "6", "7", "8", "9", "i", "l", "d", "e", ":", "-",
           "a", "c", "u", "v", "w", "n", "m", "f", "p", "x", "y"}
  Trackers = {"u", "v", "w"}
  Healthy = {"u"}
  MinInterval = 3
  RetryDelay = 1
  Latency = 2
  Overdue = 12
  NoTracker = "none"
  Files <- MCFiles
  UrlOf <- URL
SPECIFICATION LoadSpec
CHECK_DEADLOCK FALSE
INVARIANTS
  HashCoversInfo
  TrackersInOrder
  EventsAreToldOnce
PROPERTIES
  HealthyIsAnnounced
  CompletionIsAnnounced
