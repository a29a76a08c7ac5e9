\* A store left clean is opened by another torrent of the same name and size.
CONSTANTS
  t1 = t1
  t2 = t2
  Pieces = {0, 1}
  Torrents = {t1, t2}
  NoTorrent = NoTorrent
  NoData = NoData
  AllowPowerLoss = FALSE
  RecordMayFail = FALSE
SPECIFICATION Spec
INVARIANTS
  OpenIsNotClean
