\* Tasks may be dropped at any await; two connections, one piece, one
\* mailbox slot.
CONSTANTS
  p1 = p1
  p2 = p2
  p3 = p3
  Peers = {p1, p2}
  TotalPieces = 1
  PieceLength = 4
  TotalLength = 3
  MaxPieceSharers = 2
  MailboxSize = 1
  MaxPiecesInFlight = 2
  AllowDrops = TRUE
  NoPiece = NoPiece
  NoReply = NoReply
SPECIFICATION FairSpec
INVARIANTS
  StrandedOnlyIfLost
PROPERTIES
  ClaimsAreResolved
