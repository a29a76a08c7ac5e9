\* A dropped task may leave its claim behind.
CONSTANTS
  p1 = p1
  p2 = p2
  p3 = p3
  Peers = {p1}
  TotalPieces = 1
  PieceLength = 4
  TotalLength = 3
  MaxPieceSharers = 2
  MailboxSize = 1
  MaxPiecesInFlight = 2
  AllowDrops = TRUE
  NoPiece = NoPiece
  NoReply = NoReply
SPECIFICATION Spec
INVARIANTS
  NoStrandedClaim
