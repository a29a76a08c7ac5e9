\* Two torrents that share a store, killed at any step and cut off from power
\* with any regions flushed; a record may fail.
CONSTANTS
  t1 = t1
  t2 = t2
  Pieces = {0, 1}
  Torrents = {t1, t2}
  NoTorrent = NoTorrent
  NoData = NoData
  AllowPowerLoss = TRUE
  RecordMayFail = TRUE
SPECIFICATION Spec
INVARIANTS
  HeldIsBacked
  RecordedSticks
PROPERTIES
  NothingRecordedIsLost
