---------------------------- MODULE PieceManager ----------------------------
(***************************************************************************)
(* The piece manager (src/src/piece_manager/mod.rs): one task that owns    *)
(* the standing of every piece and handles one message at a time.  Each    *)
(* operator below is the effect of one handler on the task's state; the    *)
(* modules that EXTEND this one say who sends the messages, through which  *)
(* queue, and what happens to the answers.                                 *)
(*                                                                         *)
(* Abstracted: hashes, log lines and the counters nothing decides on       *)
(* (wasted and failed bytes).  The order of a piece's requesters is        *)
(* dropped: the code only appends when absent, removes, counts and tests   *)
(* membership.  A bitfield is the set of the indices whose bit is set.     *)
(***************************************************************************)
EXTENDS Integers, Sequences, FiniteSets

CONSTANTS
  Peers,             (* identities a connection claims pieces under          *)
  TotalPieces,       (* number of hashes in the torrent                      *)
  PieceLength,       (* bytes in every piece but the last                    *)
  TotalLength,       (* bytes in the payload                                 *)
  MaxPieceSharers,   (* MAX_PIECE_SHARERS                                    *)
  NoPiece            (* the None of an Option of a piece index               *)

Pieces == 0 .. TotalPieces - 1

(* Store::initialize refuses any other geometry before the first message.  *)
ASSUME GeometryAssumption ==
  /\ TotalPieces \in Nat \ {0}
  /\ PieceLength \in Nat \ {0}
  /\ TotalLength \in Nat
  /\ (TotalPieces - 1) * PieceLength < TotalLength
  /\ TotalLength <= TotalPieces * PieceLength

ASSUME SharersAssumption == MaxPieceSharers \in Nat \ {0}

ASSUME NoPieceAssumption == NoPiece \notin Int

VARIABLES
  phase,             (* where the task is: starting, serving or finalizing   *)
  complete,          (* pieces whose `complete` flag is set                  *)
  requesters,        (* piece -> the peers assembling it                     *)
  bitfield,          (* cached view of `complete`                            *)
  completed_pieces,  (* cached count                                         *)
  verified_bytes,    (* cached bytes                                         *)
  extracted,         (* finalize has written the payload out                 *)
  stats,             (* the atomics of DownloadStats this task writes        *)
  progress,          (* the value last published on the watch channel        *)
  piece_events       (* every PieceComplete broadcast so far, in order       *)

managerVars == <<phase, complete, requesters, bitfield, completed_pieces,
                 verified_bytes, extracted, stats, progress, piece_events>>

-----------------------------------------------------------------------------
(* Sizes.                                                                  *)

(* Every piece is PieceLength long except the last.                        *)
piece_size(p) ==
  IF PieceLength <= TotalLength - p * PieceLength
  THEN PieceLength ELSE TotalLength - p * PieceLength

(* Mutant: every resumed piece counted as a full one.                      *)
BytesIn_ignores_last(S) == PieceLength * Cardinality(S)

(* The sum reseed_cached_views accumulates over the complete pieces: all   *)
(* of them full but the last.                                              *)
BytesIn(S) ==
  PieceLength * Cardinality(S)
    - (IF TotalPieces - 1 \in S
       THEN PieceLength - piece_size(TotalPieces - 1) ELSE 0)

-----------------------------------------------------------------------------
(* Questions the task answers without changing anything.                   *)

(* An index past the end is reported as held.                              *)
has_piece(p) == p \notin Pieces \/ p \in complete

is_interesting(bits) == \E p \in Pieces : p \notin complete /\ p \in bits

(* Mutant: pieces are shared whenever the peer has nothing unclaimed.      *)
is_endgame_always == TRUE

is_endgame == ~ \E p \in Pieces : p \notin complete /\ requesters[p] = {}

Least(S) == CHOOSE p \in S : \A q \in S : p <= q

Unclaimed(bits) ==
  {p \in Pieces : p \notin complete /\ requesters[p] = {} /\ p \in bits}

Shareable(bits, peer) ==
  {p \in Pieces : /\ p \notin complete
                  /\ p \in bits
                  /\ peer \notin requesters[p]
                  /\ Cardinality(requesters[p]) < MaxPieceSharers}

LeastCrowded(S) ==
  {p \in S : \A q \in S : Cardinality(requesters[p]) <= Cardinality(requesters[q])}

(* First the lowest unclaimed piece; only when nothing anywhere is         *)
(* unclaimed, the lowest of the least crowded pieces.                      *)
Choice(bits, peer) ==
  IF Unclaimed(bits) # {} THEN Least(Unclaimed(bits))
  ELSE IF is_endgame /\ Shareable(bits, peer) # {}
       THEN Least(LeastCrowded(Shareable(bits, peer)))
       ELSE NoPiece

-----------------------------------------------------------------------------
(* DownloadStats.                                                          *)

InitStats == [completed_pieces |-> 0, verified_bytes |-> 0,
              resumed_pieces   |-> 0, resumed_bytes  |-> 0,
              in_flight_pieces |-> 0]

piece_claimed(s) == [s EXCEPT !.in_flight_pieces = @ + 1]

(* Saturates at zero.                                                      *)
piece_released(s) ==
  [s EXCEPT !.in_flight_pieces = IF @ = 0 THEN 0 ELSE @ - 1]

stats_piece_verified(s, bytes) ==
  [s EXCEPT !.completed_pieces = @ + 1, !.verified_bytes = @ + bytes]

-----------------------------------------------------------------------------
(* Start-up.                                                               *)

InitManager ==
  /\ phase = "starting"
  /\ complete = {}
  /\ requesters = [p \in Pieces |-> {}]
  /\ bitfield = {}
  /\ completed_pieces = 0
  /\ verified_bytes = 0
  /\ extracted = FALSE
  /\ stats = InitStats
  /\ progress = [completed_pieces |-> 0, verified_bytes |-> 0,
                 bitfield |-> {}, extracted |-> FALSE]
  /\ piece_events = <<>>

(* The store answered initialize with the bits in `stored` (a store laid   *)
(* out fresh answers None, which adopts nothing): the flags, the cached    *)
(* views and the resumed counters are seeded and the first progress is     *)
(* published, before the first message is read.                            *)
adopt_stored(stored) ==
  /\ phase = "starting"
  /\ phase' = "serving"
  /\ complete' = stored
  /\ bitfield' = stored
  /\ completed_pieces' = Cardinality(stored)
  /\ verified_bytes' = BytesIn(stored)
  /\ stats' = [stats EXCEPT !.resumed_pieces = Cardinality(stored),
                            !.resumed_bytes  = BytesIn(stored)]
  /\ progress' = [completed_pieces |-> Cardinality(stored),
                  verified_bytes   |-> BytesIn(stored),
                  bitfield         |-> stored,
                  extracted        |-> extracted]
  /\ UNCHANGED <<requesters, extracted, piece_events>>

-----------------------------------------------------------------------------
(* Handlers.                                                               *)

(* Mutant: in_flight_pieces counts claims, not pieces.                     *)
FirstOn_any(p) == TRUE

(* The piece gains its first holder, or loses its last.                    *)
FirstOn(p) == requesters[p] = {}

LastOff(p, peer) == requesters[p] # {} /\ requesters[p] \ {peer} = {}

(* Chooses a piece for `peer` and registers it, in one turn.               *)
claim_piece(bits, peer) ==
  LET p == Choice(bits, peer) IN
  /\ IF p = NoPiece
     THEN UNCHANGED <<requesters, stats>>
     ELSE /\ requesters' = [requesters EXCEPT ![p] = @ \cup {peer}]
          /\ stats' = IF FirstOn(p) THEN piece_claimed(stats) ELSE stats
  /\ UNCHANGED <<phase, complete, bitfield, completed_pieces, verified_bytes,
                 extracted, progress, piece_events>>

(* Mutant: giving a piece back frees it of everybody.                      *)
Unregister_everyone(p, peer) ==
  /\ requesters' = [requesters EXCEPT ![p] = {}]
  /\ stats' = IF FirstOn(p) THEN stats ELSE piece_released(stats)
  /\ UNCHANGED <<phase, complete, bitfield, completed_pieces, verified_bytes,
                 extracted, progress, piece_events>>

(* Takes `peer` off piece p; the last one to go frees the piece.  Shared   *)
(* by Release and PieceFailed, whose difference is in counters left out.   *)
Unregister(p, peer) ==
  /\ requesters' = [requesters EXCEPT ![p] = @ \ {peer}]
  /\ stats' = IF LastOff(p, peer) THEN piece_released(stats) ELSE stats
  /\ UNCHANGED <<phase, complete, bitfield, completed_pieces, verified_bytes,
                 extracted, progress, piece_events>>

(* Mutants: a message that is counted and forgets the registration.        *)
release_counted(p, peer) == UNCHANGED managerVars

piece_failed_counted(p, peer) == UNCHANGED managerVars

release(p, peer) == Unregister(p, peer)

piece_failed(p, peer) == Unregister(p, peer)

SecondReport(p) == p \in complete

(* A connection verified and wrote p.  The second report of a piece only   *)
(* unregisters its sender.  The report that completes the torrent leaves   *)
(* the task waiting for the store to write the payload out.                *)
piece_verified(p, peer) ==
  IF SecondReport(p)
  THEN /\ requesters' = [requesters EXCEPT ![p] = @ \ {peer}]
       /\ UNCHANGED <<phase, complete, bitfield, completed_pieces,
                      verified_bytes, extracted, stats, progress, piece_events>>
  ELSE /\ requesters' = [requesters EXCEPT ![p] = {}]
       /\ complete' = complete \cup {p}
       /\ bitfield' = bitfield \cup {p}
       /\ completed_pieces' = completed_pieces + 1
       /\ verified_bytes' = verified_bytes + piece_size(p)
       /\ stats' = stats_piece_verified(
                     IF requesters[p] # {} THEN piece_released(stats) ELSE stats,
                     piece_size(p))
       /\ progress' = [completed_pieces |-> completed_pieces',
                       verified_bytes   |-> verified_bytes',
                       bitfield         |-> bitfield',
                       extracted        |-> extracted]
       /\ piece_events' = Append(piece_events, p)
       /\ phase' = IF completed_pieces' = TotalPieces  (* is_completed *)
                   THEN "finalizing" ELSE "serving"
       /\ UNCHANGED extracted

(* The await on Store::finalize inside piece_verified returns.  A failed   *)
(* copy is only logged; progress is published either way.                  *)
FinalizeReturns(ok) ==
  /\ phase = "finalizing"
  /\ phase' = "serving"
  /\ extracted' = (ok \/ extracted)
  /\ progress' = [progress EXCEPT !.extracted = extracted']
  /\ UNCHANGED <<complete, requesters, bitfield, completed_pieces,
                 verified_bytes, stats, piece_events>>

-----------------------------------------------------------------------------
(* What the task's own state must satisfy, whoever sends it messages.      *)

ManagerTypeOK ==
  /\ phase \in {"starting", "serving", "finalizing"}
  /\ complete \in SUBSET Pieces
  /\ requesters \in [Pieces -> SUBSET Peers]
  /\ bitfield \in SUBSET Pieces
  /\ completed_pieces \in Nat
  /\ verified_bytes \in Int
  /\ extracted \in BOOLEAN
  /\ stats \in [completed_pieces : Nat, verified_bytes : Int,
                resumed_pieces : Nat, resumed_bytes : Int,
                in_flight_pieces : Nat]
  /\ progress \in [completed_pieces : Nat, verified_bytes : Int,
                   bitfield : SUBSET Pieces, extracted : BOOLEAN]
  /\ piece_events \in Seq(Pieces)

(* The views kept in step with the pieces instead of being rebuilt, and    *)
(* the two counters other tasks add up, all describe the same set of       *)
(* complete pieces; piece_verified and adopt_stored each touch them all.   *)
CachedViewsAgree ==
  /\ bitfield = complete
  /\ completed_pieces = Cardinality(complete)
  /\ verified_bytes = BytesIn(complete)
  /\ stats.completed_pieces + stats.resumed_pieces = Cardinality(complete)
  /\ stats.verified_bytes + stats.resumed_bytes = BytesIn(complete)

(* What is published is what is held, once the first value is out.         *)
ProgressIsCurrent ==
  phase # "starting" =>
    progress = [completed_pieces |-> completed_pieces,
                verified_bytes   |-> verified_bytes,
                bitfield         |-> bitfield,
                extracted        |-> extracted]

InWork == {p \in Pieces : requesters[p] # {}}

(* in_flight_pieces counts the pieces somebody is assembling: claims,      *)
(* releases, failures, first and second reports all keep it exact, and     *)
(* the saturating decrement never hides a miscount.                        *)
InFlightIsExact == stats.in_flight_pieces = Cardinality(InWork)

(* Nobody is registered on a complete piece, so no piece in hand is ever   *)
(* counted as work outstanding.                                            *)
CompleteIsUnregistered == \A p \in complete : requesters[p] = {}

(* No more peers are registered on a piece than endgame allows.            *)
SharingIsCapped == \A p \in Pieces : Cardinality(requesters[p]) <= MaxPieceSharers

(* What makes the above inductive: the state the task starts from, that    *)
(* requesters are finitely many, and when it finalizes.                    *)
StartsEmpty ==
  phase = "starting" =>
    /\ stats = InitStats
    /\ requesters = [p \in Pieces |-> {}]
    /\ ~extracted

RequestersAreFinite == \A p \in Pieces : IsFiniteSet(requesters[p])

FinalizesWhenWhole == phase = "finalizing" \/ extracted => complete = Pieces

ManagerInv ==
  /\ ManagerTypeOK
  /\ StartsEmpty
  /\ RequestersAreFinite
  /\ CachedViewsAgree
  /\ ProgressIsCurrent
  /\ InFlightIsExact
  /\ CompleteIsUnregistered
  /\ SharingIsCapped
  /\ FinalizesWhenWhole
=============================================================================
