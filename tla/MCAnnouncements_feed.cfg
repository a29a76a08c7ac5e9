\* Three pieces through an event channel of two: connections fall behind.
CONSTANTS
  p1 = p1
  Peers = {p1}
  TotalPieces = 3
  PieceLength = 4
  TotalLength = 11
  MaxPieceSharers = 2
  NoPiece = NoPiece
  EventChannelSize = 2
  MailboxSize = 2
SPECIFICATION FairSpec
INVARIANTS
  TypeOK
  EveryPieceIsAnnounced
  InterestIsCurrent
PROPERTIES
  PiecesGetAnnounced
