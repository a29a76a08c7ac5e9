--------------------------- MODULE RequestManager ---------------------------
(***************************************************************************)
(* The request loop of one peer connection                                 *)
(* (src/src/peer_connection/request_manager.rs) at block granularity: the  *)
(* request window, the pieces being assembled, choking and interest, and   *)
(* the request and idle timers.                                            *)
(*                                                                         *)
(* The task takes one arm of its select! at a time.  An arm that awaits is *)
(* several steps: `pc` holds what is left of it, so no other arm runs in   *)
(* between, but the rest of the client and the clock do.  The remote peer  *)
(* may send any message at any time: blocks in any order, late, twice, or  *)
(* never; and it need not read, so that a send may wait for ever.          *)
(*                                                                         *)
(* The piece manager appears through its answers.  `complete` is the set   *)
(* of complete pieces; a claim is answered with any incomplete piece of    *)
(* the bitfield this connection does not hold, or with none, because       *)
(* others hold what is left (Swarm models who gets what).                  *)
(***************************************************************************)
EXTENDS Integers, Sequences, FiniteSets

CONSTANTS
  Pieces,              (* piece indices                                      *)
  NumBlocks,           (* piece -> how many blocks it has                    *)
  MaxRequests,         (* MAX_REQUESTS                                       *)
  MaxPiecesInFlight,   (* MAX_PIECES_IN_FLIGHT                               *)
  RequestTimeout,      (* REQUEST_TIMEOUT, in ticks                          *)
  MaxFailures          (* bound: pieces that come out wrong                  *)

ASSUME BlocksAssumption == NumBlocks \in [Pieces -> Nat \ {0}]
ASSUME WindowAssumption ==
  MaxRequests \in Nat \ {0} /\ MaxPiecesInFlight \in Nat \ {0} /\ MaxFailures \in Nat
ASSUME TimeoutAssumption == RequestTimeout \in Nat \ {0}

VARIABLES
  pc,                  (* "loop" in select!, or the await an arm is at       *)
  arm,                 (* the select! arm being run                          *)
  am_choking, am_interested, peer_choking, peer_interested,
  peer_bitfield,
  in_flight,           (* Vec<PieceInFlight>, in Vec order                   *)
  active_blocks,       (* <<piece, block>> asked for and not yet given       *)
  finishing,           (* piece buffers taken out by complete_piece          *)
  deadline,            (* ticks left to request_deadline, or NoDeadline      *)
  complete,            (* pieces the manager holds                           *)
  events,              (* PieceComplete events not yet taken                 *)
  failures             (* pieces that failed so far                          *)

flags == <<am_choking, am_interested, peer_choking, peer_interested>>
work  == <<in_flight, active_blocks, finishing>>
world == <<complete, events, failures>>
vars  == <<pc, arm, flags, peer_bitfield, work, deadline, world>>

-----------------------------------------------------------------------------
(* PieceBuffer and PieceInFlight.                                          *)

Blocks(p) == 0 .. NumBlocks[p] - 1

NoDeadline == -1

(* `hasher` is the sequence of blocks fed to the running digest, and       *)
(* `hashing` whether it is still Some.                                     *)
NewPiece(p) ==
  [piece |-> p, pending |-> [i \in 1 .. NumBlocks[p] |-> i - 1],
   have |-> {}, hashing |-> TRUE, hasher |-> <<>>, next_hashed_block |-> 0]

is_whole(b) == b.have = Blocks(b.piece)

(* Mutant: a block out of order is hashed where it lands.                  *)
accept_any_order(b, block) ==
  [b EXCEPT !.have = @ \cup {block},
            !.next_hashed_block = @ + 1,
            !.hasher = Append(@, block)]

(* Takes in a block not held yet.  Out of order, the running digest is     *)
(* given up for good.                                                      *)
accept(b, block) ==
  IF b.next_hashed_block = block
  THEN [b EXCEPT !.have = @ \cup {block},
                 !.next_hashed_block = @ + 1,
                 !.hasher = IF b.hashing THEN Append(@, block) ELSE @]
  ELSE [b EXCEPT !.have = @ \cup {block}, !.hashing = FALSE, !.hasher = <<>>]

(* The blocks the digest covers, in order: the running one when it saw     *)
(* them all, else the assembled bytes.                                     *)
digest(b) ==
  IF b.hashing /\ b.next_hashed_block = NumBlocks[b.piece]
  THEN b.hasher
  ELSE [i \in 1 .. NumBlocks[b.piece] |-> i - 1]

Held == {in_flight[i].piece : i \in DOMAIN in_flight}

slot_of(p) == CHOOSE i \in DOMAIN in_flight : in_flight[i].piece = p

(* Vec::swap_remove: the last element takes the place of the removed one.  *)
swap_remove(s, i) ==
  [j \in 1 .. Len(s) - 1 |-> IF j = i THEN s[Len(s)] ELSE s[j]]

-----------------------------------------------------------------------------
Init ==
  /\ pc = "update_interest"
  /\ arm = "start"
  /\ am_choking = TRUE
  /\ am_interested = FALSE
  /\ peer_choking = TRUE
  /\ peer_interested = FALSE
  /\ peer_bitfield \in SUBSET Pieces
  /\ in_flight = <<>>
  /\ active_blocks = {}
  /\ finishing = <<>>
  /\ deadline = NoDeadline
  /\ complete \in SUBSET Pieces
  /\ events = 0
  /\ failures = 0

-----------------------------------------------------------------------------
(* Mutant: a deadline once armed is never taken back.                      *)
Settle_keeps(active, item) ==
  /\ pc' = "loop"
  /\ arm' = "none"
  /\ deadline' = IF active # {} THEN RequestTimeout ELSE deadline

(* Mutant: any item starts the deadline afresh, not only a block.          *)
Settle_chat(active, item) ==
  /\ pc' = "loop"
  /\ arm' = "none"
  /\ deadline' = IF active # {} THEN RequestTimeout ELSE NoDeadline

(* Ends of an arm.  Only the incoming arm touches the request deadline,    *)
(* after its handler returned: none while nothing is asked for; else a     *)
(* Piece message, wanted or not, starts it afresh, and another item only   *)
(* sets a missing one.                                                     *)
Settle(active, item) ==
  /\ pc' = "loop"
  /\ arm' = "none"
  /\ deadline' = IF active = {} THEN NoDeadline
                 ELSE IF item = "block" \/ deadline = NoDeadline
                      THEN RequestTimeout
                      ELSE deadline

EndArm ==
  IF arm \in {"item", "block"} THEN Settle(active_blocks, arm)
  ELSE pc' = "loop" /\ arm' = "none" /\ UNCHANGED deadline

(* A handler with no await: the incoming arm runs from end to end.         *)
Handled(active, item) == pc = "loop" /\ Settle(active, item)

Begin(label, a) == pc = "loop" /\ pc' = label /\ arm' = a

-----------------------------------------------------------------------------
(* send_message: the peer reads, and the arm goes on from where it waited. *)
Sent ==
  /\ \/ pc = "send" /\ EndArm
     \/ pc = "send_and_fill" /\ pc' = "fill_pipeline" /\ UNCHANGED <<arm, deadline>>
     \/ pc = "send_have" /\ pc' = "update_interest" /\ UNCHANGED <<arm, deadline>>
  /\ UNCHANGED <<flags, peer_bitfield, work, world>>

(* update_interest: asks the manager, tells the peer when it changed, and  *)
(* goes on to fill_pipeline where the arm does.                            *)
UpdateInterest ==
  /\ pc \in {"update_interest", "update_interest_and_fill"}
  /\ am_interested' = (peer_bitfield \ complete # {})
  /\ IF am_interested' # am_interested
     THEN /\ pc' = IF pc = "update_interest" THEN "send" ELSE "send_and_fill"
          /\ UNCHANGED <<arm, deadline>>
     ELSE IF pc = "update_interest" THEN EndArm
          ELSE pc' = "fill_pipeline" /\ UNCHANGED <<arm, deadline>>
  /\ UNCHANGED <<am_choking, peer_choking, peer_interested, peer_bitfield,
                 work, world>>

-----------------------------------------------------------------------------
(* fill_pipeline, one turn of its loop per step.                           *)

(* Mutant: a choked connection goes on asking.                             *)
MayFill_choked == am_interested

MayFill == ~peer_choking /\ am_interested

WindowOpen == MayFill /\ Cardinality(active_blocks) < MaxRequests

Askable == {i \in DOMAIN in_flight : in_flight[i].pending # <<>>}

(* Mutant: a block asked for stays to be asked for.                        *)
PopBlock_keeps(i) == [in_flight EXCEPT ![i].pending = @]

(* The block leaves the pending ones.                                      *)
PopBlock(i) == [in_flight EXCEPT ![i].pending = Tail(@)]

(* Oldest piece first.  The step is the return of the Request's send.      *)
RequestBlock ==
  /\ pc = "fill_pipeline"
  /\ WindowOpen
  /\ \E i \in Askable :
       /\ \A j \in Askable : i <= j
       /\ in_flight' = PopBlock(i)
       /\ active_blocks' =
            active_blocks \cup {<<in_flight[i].piece, Head(in_flight[i].pending)>>}
  /\ UNCHANGED <<pc, arm, flags, peer_bitfield, finishing, deadline, world>>

(* claim_another_piece.                                                    *)
Claim(p) ==
  /\ pc = "fill_pipeline"
  /\ WindowOpen
  /\ Askable = {}
  /\ Len(in_flight) < MaxPiecesInFlight
  /\ p \in peer_bitfield \ (complete \cup Held)
  /\ in_flight' = Append(in_flight, NewPiece(p))
  /\ UNCHANGED <<pc, arm, flags, peer_bitfield, active_blocks, finishing,
                 deadline, world>>

(* The guard refuses, the window is full, four pieces are in flight, or    *)
(* the manager had nothing for us.                                         *)
EndFill ==
  /\ pc = "fill_pipeline"
  /\ WindowOpen => Askable = {}
  /\ EndArm
  /\ UNCHANGED <<flags, peer_bitfield, work, world>>

-----------------------------------------------------------------------------
(* The incoming arm.                                                       *)

(* release_all_pieces.  Its sends to the manager are Swarm's subject.      *)
ReleaseAll == in_flight' = <<>> /\ active_blocks' = {}

ReceiveChoke ==
  /\ peer_choking' = TRUE
  /\ ReleaseAll
  /\ Handled(active_blocks', "item")
  /\ UNCHANGED <<am_choking, am_interested, peer_interested, peer_bitfield,
                 finishing, world>>

ReceiveUnchoke ==
  /\ Begin("fill_pipeline", "item")
  /\ peer_choking' = FALSE
  /\ UNCHANGED <<am_choking, am_interested, peer_interested, peer_bitfield,
                 work, deadline, world>>

(* Whoever asks gets served: told so with an Unchoke the first time.       *)
ReceiveInterested ==
  /\ peer_interested' = TRUE
  /\ am_choking' = FALSE
  /\ IF am_choking THEN Begin("send", "item") /\ UNCHANGED deadline
     ELSE Handled(active_blocks, "item")
  /\ UNCHANGED <<am_interested, peer_choking, peer_bitfield, work, world>>

ReceiveNotInterested ==
  /\ peer_interested' = FALSE
  /\ Handled(active_blocks, "item")
  /\ UNCHANGED <<am_choking, am_interested, peer_choking, peer_bitfield, work,
                 world>>

ReceiveHave(p) ==
  /\ Begin("update_interest_and_fill", "item")
  /\ peer_bitfield' = peer_bitfield \cup {p}
  /\ UNCHANGED <<flags, work, deadline, world>>

(* KeepAlive, Cancel, Port, a Have outside the bitfield, a request we do   *)
(* not serve: nothing here changes, but the item has arrived.              *)
ReceiveOther ==
  /\ Handled(active_blocks, "item")
  /\ UNCHANGED <<flags, peer_bitfield, work, world>>

(* serve_block for a block we hold: it is sent before the arm ends.        *)
ReceiveRequest ==
  /\ ~am_choking
  /\ complete # {}
  /\ Begin("send", "item")
  /\ UNCHANGED <<flags, peer_bitfield, work, deadline, world>>

(* receive_block for a block that is not one we are waiting for.           *)
ReceiveUnwanted(p, block) ==
  /\ p \notin Held \/ <<p, block>> \notin active_blocks
  /\ Handled(active_blocks, "block")
  /\ UNCHANGED <<flags, peer_bitfield, work, world>>

(* receive_block for one that is.  The block that makes its piece whole    *)
(* takes the piece out of in_flight and forgets what is outstanding of it. *)
ReceiveBlock(p, block) ==
  /\ <<p, block>> \in active_blocks
  /\ p \in Held
  /\ LET i == slot_of(p)
         b == accept(in_flight[i], block)
     IN IF is_whole(b)
        THEN /\ Begin("complete_piece", "block")
             /\ in_flight' = swap_remove(in_flight, i)
             /\ finishing' = <<b>>
             /\ active_blocks' = {a \in active_blocks : a[1] # p}
        ELSE /\ Begin("fill_pipeline", "block")
             /\ in_flight' = [in_flight EXCEPT ![i] = b]
             /\ active_blocks' = active_blocks \ {<<p, block>>}
             /\ UNCHANGED finishing
  /\ UNCHANGED <<flags, peer_bitfield, deadline, world>>

(* Digest, write, record and report: the piece is complete, or it failed   *)
(* and goes back.  Either way fill_pipeline follows.                       *)
CompletePiece(ok) ==
  /\ pc = "complete_piece"
  /\ pc' = "fill_pipeline"
  /\ finishing' = <<>>
  /\ LET p == Head(finishing).piece IN
     IF ok
     THEN /\ complete' = complete \cup {p}
          /\ events' = IF p \in complete THEN events ELSE events + 1
          /\ UNCHANGED failures
     ELSE /\ failures < MaxFailures
          /\ failures' = failures + 1
          /\ UNCHANGED <<complete, events>>
  /\ UNCHANGED <<arm, flags, peer_bitfield, in_flight, active_blocks, deadline>>

-----------------------------------------------------------------------------
(* The other arms.                                                         *)

(* Time passes, at any await of the loop.                                  *)
Tick ==
  /\ deadline > 0
  /\ deadline' = deadline - 1
  /\ UNCHANGED <<pc, arm, flags, peer_bitfield, work, world>>

RequestDeadline ==
  /\ pc = "loop"
  /\ deadline = 0
  /\ ReleaseAll
  /\ deadline' = NoDeadline
  /\ UNCHANGED <<pc, arm, flags, peer_bitfield, finishing, world>>

AvailabilityTick ==
  /\ ~peer_choking
  /\ Cardinality(active_blocks) < MaxRequests
  /\ Begin("update_interest_and_fill", "tick")
  /\ UNCHANGED <<flags, peer_bitfield, work, deadline, world>>

(* The keep-alive timer: nothing has been sent for a while.                *)
KeepAlive ==
  /\ Begin("send", "keep_alive")
  /\ UNCHANGED <<flags, peer_bitfield, work, deadline, world>>

(* Announces the piece, then asks whether the peer is still interesting.   *)
HandlePieceEvent ==
  /\ events > 0
  /\ Begin("send_have", "event")
  /\ events' = events - 1
  /\ UNCHANGED <<flags, peer_bitfield, work, deadline, complete, failures>>

(* The idle deadline, the peer hanging up, a second bitfield, or a failed  *)
(* send in the middle of an arm: run returns and start releases.           *)
Close ==
  /\ pc' = "closed"
  /\ arm' = "none"
  /\ ReleaseAll
  /\ finishing' = <<>>
  /\ deadline' = NoDeadline
  /\ UNCHANGED <<flags, peer_bitfield, world>>

IdleDeadline == pc = "loop" /\ Close

(* complete_piece has no error path: what it sends, it sends or only logs. *)
Disconnect == pc \notin {"closed", "complete_piece"} /\ Close

(* Another connection completes a piece.                                   *)
CompletedElsewhere(p) ==
  /\ p \notin complete
  /\ complete' = complete \cup {p}
  /\ events' = events + 1
  /\ UNCHANGED <<pc, arm, flags, peer_bitfield, work, deadline, failures>>

-----------------------------------------------------------------------------
(* A Piece message, wanted or not.                                         *)
BlockArrives ==
  \E p \in Pieces : \E b \in Blocks(p) : ReceiveUnwanted(p, b) \/ ReceiveBlock(p, b)

Arrival ==
  \/ ReceiveChoke
  \/ ReceiveUnchoke
  \/ ReceiveInterested
  \/ ReceiveNotInterested
  \/ \E p \in Pieces : ReceiveHave(p)
  \/ ReceiveRequest
  \/ ReceiveOther
  \/ BlockArrives

(* The rest of an arm once it has begun, up to the next send.              *)
RunArm ==
  \/ UpdateInterest
  \/ \E p \in Pieces : Claim(p)
  \/ EndFill
  \/ \E ok \in BOOLEAN : CompletePiece(ok)

Next ==
  \/ Arrival
  \/ RunArm
  \/ RequestBlock
  \/ Sent
  \/ Tick
  \/ RequestDeadline
  \/ AvailabilityTick
  \/ KeepAlive
  \/ HandlePieceEvent
  \/ IdleDeadline
  \/ Disconnect
  \/ \E p \in Pieces : CompletedElsewhere(p)

Spec == Init /\ [][Next]_vars

(* An arm once begun runs on to its next send; whether a send returns is   *)
(* up to the peer, so RequestBlock and Sent are not fair.  The clock goes  *)
(* on.  select! picks at random among the arms that are ready: a deadline  *)
(* that is due again and again when it looks is taken at last, however     *)
(* busy the loop is; one renewed before it is due is not.  A connection    *)
(* does not stay both open and silent: something arrives, or the idle      *)
(* deadline passes.                                                        *)
FairSpec ==
  /\ Spec
  /\ WF_vars(RunArm)
  /\ WF_vars(Tick)
  /\ SF_vars(RequestDeadline)
  /\ SF_vars(Arrival \/ IdleDeadline)

-----------------------------------------------------------------------------
(* Properties.                                                             *)

PieceRecords ==
  [piece : Pieces, pending : Seq(Nat), have : SUBSET Nat, hashing : BOOLEAN,
   hasher : Seq(Nat), next_hashed_block : Nat]

TypeOK ==
  /\ pc \in {"loop", "update_interest", "update_interest_and_fill",
             "fill_pipeline", "complete_piece", "send", "send_and_fill",
             "send_have", "closed"}
  /\ arm \in {"none", "start", "item", "block", "tick", "keep_alive", "event"}
  /\ am_choking \in BOOLEAN /\ am_interested \in BOOLEAN
  /\ peer_choking \in BOOLEAN /\ peer_interested \in BOOLEAN
  /\ deadline \in NoDeadline .. RequestTimeout
  /\ peer_bitfield \in SUBSET Pieces
  /\ complete \in SUBSET Pieces
  /\ in_flight \in Seq(PieceRecords)
  /\ Len(in_flight) <= MaxPiecesInFlight
  /\ active_blocks \in SUBSET (Pieces \X Nat)
  /\ Cardinality(active_blocks) <= MaxRequests
  /\ finishing \in Seq(PieceRecords)
  /\ events \in Nat
  /\ failures \in 0 .. MaxFailures

Elements(s) == {s[i] : i \in DOMAIN s}

ActiveOf(p) == {b \in Blocks(p) : <<p, b>> \in active_blocks}

(* A block of a piece in hand is either still to be asked for, or asked    *)
(* for, or held: never two of these, or it would be fetched or hashed      *)
(* twice; and never none, or the piece could not become whole and would    *)
(* sit in its slot.  Nothing is outstanding for a piece not in hand, and   *)
(* no piece has two slots.                                                 *)
BlocksAccounted ==
  /\ \A i \in DOMAIN in_flight :
       LET b == in_flight[i]
           p == b.piece
           pending == Elements(b.pending)
       IN /\ pending \cup ActiveOf(p) \cup b.have = Blocks(p)
          /\ Len(b.pending) + Cardinality(ActiveOf(p)) + Cardinality(b.have)
               = NumBlocks[p]
          /\ \A j \in DOMAIN in_flight : in_flight[j].piece = p => j = i
  /\ \A a \in active_blocks : a[1] \in Held

(* A choked connection holds no piece: the peer threw our requests away,   *)
(* and whatever path put us in fill_pipeline must not claim more.          *)
ChokedHoldsNothing == peer_choking => in_flight = <<>> /\ active_blocks = {}

(* The request deadline runs only while blocks are outstanding, so it      *)
(* never throws away the work of a connection that is waiting for nothing. *)
DeadlineMeansWaiting ==
  pc = "loop" /\ deadline # NoDeadline => active_blocks # {}

(* Whatever order the blocks arrived in, what is compared with the         *)
(* torrent's hash is every block, once, in order.                          *)
DigestCoversPiece ==
  \A i \in DOMAIN finishing :
    digest(finishing[i]) = [k \in 1 .. NumBlocks[finishing[i].piece] |-> k - 1]

(* A send of this connection waits for the peer to read.                   *)
Sending ==
  \/ pc \in {"send", "send_and_fill", "send_have"}
  \/ pc = "fill_pipeline" /\ WindowOpen /\ Askable # {}

(* A block asked for does not stay asked for, whatever the peer says and   *)
(* whatever it leaves unsaid: it is delivered, or its piece is finished or *)
(* given up.  Two peers can keep it: one that never reads again, which     *)
(* holds the loop in a send, and one that goes on sending Piece messages,  *)
(* which start the deadline afresh even when nobody asked for them.        *)
EveryRequestEnds ==
  \/ []<><<BlockArrives>>_vars
  \/ <>[]Sending
  \/ \A p \in Pieces : \A b \in Blocks(p) : []<>(<<p, b>> \notin active_blocks)

=============================================================================
