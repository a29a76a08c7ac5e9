\* Two connections, two pieces, a mailbox of two; no task is dropped.
CONSTANTS
  p1 = p1
  p2 = p2
  p3 = p3
  Peers = {p1, p2}
  TotalPieces = 2
  PieceLength = 4
  TotalLength = 7
  MaxPieceSharers = 2
  MailboxSize = 2
  MaxPiecesInFlight = 2
  AllowDrops = FALSE
  NoPiece = NoPiece
  NoReply = NoReply
SPECIFICATION Spec
SYMMETRY Symmetry
PROPERTIES
  ImplementsLeases
INVARIANTS
  CachedViewsAgree
  InFlightIsExact
  NoStrandedClaim
  OwnersAreRegistered
  OwnedOnce
  ServableIsStored
