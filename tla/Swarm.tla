------------------------------- MODULE Swarm --------------------------------
(***************************************************************************)
(* The life of a claim: peer connections (request_manager.rs) claiming     *)
(* whole pieces from the piece manager, finishing them or giving them      *)
(* back, over the manager's bounded mailbox.                               *)
(*                                                                         *)
(* One connection task per peer, at piece granularity.  Every await of     *)
(* the task that a claim lives across is a step of its own: the send into  *)
(* a mailbox that may be full, the oneshot answer, the store's write and   *)
(* record_piece, and each Release of a teardown.  Blocks, the request      *)
(* window and timers are RequestManager's subject; here a peer chokes,     *)
(* times out, disconnects or delivers whenever it likes.                   *)
(*                                                                         *)
(* With AllowDrops a connection task may also be dropped or panic at any   *)
(* of those awaits: nothing of its code runs but PieceHold::drop.          *)
(***************************************************************************)
EXTENDS PieceManager

CONSTANTS
  MailboxSize,         (* CHANNEL_SIZE of piece_manager/channel.rs           *)
  MaxPiecesInFlight,   (* MAX_PIECES_IN_FLIGHT                               *)
  AllowDrops,          (* tasks may be dropped at an await                   *)
  NoReply              (* a oneshot nothing was sent on                      *)

ASSUME MailboxAssumption == MailboxSize \in Nat \ {0}
ASSUME InFlightAssumption == MaxPiecesInFlight \in Nat \ {0}
ASSUME DropsAssumption == AllowDrops \in BOOLEAN
ASSUME NoReplyAssumption == NoReply \notin Int /\ NoReply # NoPiece

VARIABLES
  mailbox,             (* messages sent to the manager and not yet handled   *)
  pc,                  (* the await each connection task is at               *)
  held,                (* pieces in in_flight, whose PieceHold is armed      *)
  current,             (* piece taken out of in_flight, its hold disarmed    *)
  reply,               (* the oneshot of the connection's pending claim      *)
  peer_bitfield,       (* what the remote peer says it has                   *)
  stored,              (* pieces whose verified bytes are in the store       *)
  recorded,            (* bits set in the store's own bitfield               *)
  lost                 (* ghost: claims no task and no message stands for    *)

connVars  == <<pc, held, current, reply, peer_bitfield>>
storeVars == <<stored, recorded>>
vars == <<managerVars, mailbox, connVars, storeVars, lost>>

-----------------------------------------------------------------------------
(* Messages that change the manager's state.  `live` is FALSE once the     *)
(* task waiting on the claim's oneshot is gone.                            *)

ClaimPiece(c, bits) ==
  [type |-> "ClaimPiece", peer |-> c, bitfield |-> bits, live |-> TRUE]

GiveBack(type, c, p) == [type |-> type, peer |-> c, piece |-> p]

GiveBackTypes == {"Release", "PieceVerified", "PieceFailed"}

Messages ==
  [type : {"ClaimPiece"}, peer : Peers, bitfield : SUBSET Pieces, live : BOOLEAN]
    \cup [type : GiveBackTypes, peer : Peers, piece : Pieces]

HasRoom == Len(mailbox) < MailboxSize

(* `sender.send(message).await` once there is room for it.                 *)
Send(message) == HasRoom /\ mailbox' = Append(mailbox, message)

Goto(c, label) == pc' = [pc EXCEPT ![c] = label]

-----------------------------------------------------------------------------
Init ==
  /\ InitManager
  /\ mailbox = <<>>
  /\ pc = [c \in Peers |-> "down"]
  /\ held = [c \in Peers |-> {}]
  /\ current = [c \in Peers |-> NoPiece]
  /\ reply = [c \in Peers |-> NoReply]
  /\ peer_bitfield = [c \in Peers |-> {}]
  /\ \E S \in SUBSET Pieces : stored = S /\ recorded = S
  /\ lost = {}

-----------------------------------------------------------------------------
(* The manager's loop.                                                     *)

(* initialize answers with the bits of the store.                          *)
StartManager ==
  /\ adopt_stored(recorded)
  /\ UNCHANGED <<mailbox, connVars, storeVars, lost>>

Received(type) ==
  /\ phase = "serving"
  /\ mailbox # <<>>
  /\ Head(mailbox).type = type
  /\ mailbox' = Tail(mailbox)

(* The answer to a task that is gone is dropped; what it registered stays. *)
HandleClaim ==
  /\ Received("ClaimPiece")
  /\ LET m == Head(mailbox)
         choice == Choice(m.bitfield, m.peer)
     IN /\ claim_piece(m.bitfield, m.peer)
        /\ reply' = IF m.live THEN [reply EXCEPT ![m.peer] = choice] ELSE reply
        /\ lost' = IF m.live \/ choice = NoPiece
                   THEN lost ELSE lost \cup {<<m.peer, choice>>}
  /\ UNCHANGED <<pc, held, current, peer_bitfield, storeVars>>

HandleRelease ==
  /\ Received("Release")
  /\ release(Head(mailbox).piece, Head(mailbox).peer)
  /\ UNCHANGED <<connVars, storeVars, lost>>

HandleFailed ==
  /\ Received("PieceFailed")
  /\ piece_failed(Head(mailbox).piece, Head(mailbox).peer)
  /\ UNCHANGED <<connVars, storeVars, lost>>

HandleVerified ==
  /\ Received("PieceVerified")
  /\ piece_verified(Head(mailbox).piece, Head(mailbox).peer)
  /\ UNCHANGED <<connVars, storeVars, lost>>

FinishFinalize(ok) ==
  /\ FinalizeReturns(ok)
  /\ UNCHANGED <<mailbox, connVars, storeVars, lost>>

Manager ==
  \/ StartManager
  \/ HandleClaim
  \/ HandleRelease
  \/ HandleFailed
  \/ HandleVerified
  \/ \E ok \in BOOLEAN : FinishFinalize(ok)

-----------------------------------------------------------------------------
(* One connection.                                                         *)

(* Connected, handshaken and past the bitfield exchange.                   *)
Connect(c, bits) ==
  /\ pc[c] = "down"
  /\ Goto(c, "loop")
  /\ peer_bitfield' = [peer_bitfield EXCEPT ![c] = bits]
  /\ UNCHANGED <<managerVars, mailbox, held, current, reply, storeVars, lost>>

(* A Have from the peer (mark_peer_has).                                   *)
PeerHas(c, p) ==
  /\ pc[c] = "loop"
  /\ p \notin peer_bitfield[c]
  /\ peer_bitfield' = [peer_bitfield EXCEPT ![c] = @ \cup {p}]
  /\ UNCHANGED <<managerVars, mailbox, pc, held, current, reply, storeVars, lost>>

(* fill_pipeline has no block left to ask for and fewer than               *)
(* MAX_PIECES_IN_FLIGHT pieces, so it asks for another piece.              *)
SendClaim(c) ==
  /\ pc[c] = "loop"
  /\ Cardinality(held[c]) < MaxPiecesInFlight
  /\ Send(ClaimPiece(c, peer_bitfield[c]))
  /\ Goto(c, "claiming")
  /\ UNCHANGED <<managerVars, held, current, reply, peer_bitfield, storeVars, lost>>

ReceiveClaim(c) ==
  /\ pc[c] = "claiming"
  /\ reply[c] # NoReply
  /\ held' = IF reply[c] = NoPiece THEN held
             ELSE [held EXCEPT ![c] = @ \cup {reply[c]}]
  /\ reply' = [reply EXCEPT ![c] = NoReply]
  /\ Goto(c, "loop")
  /\ UNCHANGED <<managerVars, mailbox, current, peer_bitfield, storeVars, lost>>

(* The last block of p arrived: p leaves in_flight and its hold is         *)
(* disarmed before the digest is compared.                                 *)
CompletePiece(c, p, digestMatches) ==
  /\ pc[c] = "loop"
  /\ p \in held[c]
  /\ held' = [held EXCEPT ![c] = @ \ {p}]
  /\ current' = [current EXCEPT ![c] = p]
  /\ Goto(c, IF digestMatches THEN "writing" ELSE "failing")
  /\ UNCHANGED <<managerVars, mailbox, reply, peer_bitfield, storeVars, lost>>

(* Mutant: the result of the write is not looked at.                       *)
WriteReturns_unchecked(c, ok) ==
  /\ pc[c] = "writing"
  /\ stored' = IF ok THEN stored \cup {current[c]} ELSE stored
  /\ Goto(c, "recording")
  /\ UNCHANGED <<managerVars, mailbox, held, current, reply, peer_bitfield,
                 recorded, lost>>

WriteReturns(c, ok) ==
  /\ pc[c] = "writing"
  /\ stored' = IF ok THEN stored \cup {current[c]} ELSE stored
  /\ Goto(c, IF ok THEN "recording" ELSE "failing")
  /\ UNCHANGED <<managerVars, mailbox, held, current, reply, peer_bitfield,
                 recorded, lost>>

(* A piece that could not be claimed on disk is reported all the same.     *)
RecordReturns(c, ok) ==
  /\ pc[c] = "recording"
  /\ recorded' = IF ok THEN recorded \cup {current[c]} ELSE recorded
  /\ Goto(c, "reporting")
  /\ UNCHANGED <<managerVars, mailbox, held, current, reply, peer_bitfield,
                 stored, lost>>

(* The send that ends complete_piece, or one round of release_all_pieces.  *)
Report(c, type, next) ==
  /\ current[c] # NoPiece
  /\ Send(GiveBack(type, c, current[c]))
  /\ current' = [current EXCEPT ![c] = NoPiece]
  /\ Goto(c, next)
  /\ UNCHANGED <<managerVars, held, reply, peer_bitfield, storeVars, lost>>

ReportVerified(c) == pc[c] = "reporting" /\ Report(c, "PieceVerified", "loop")
ReportFailed(c)   == pc[c] = "failing"   /\ Report(c, "PieceFailed", "loop")

(* release_all_pieces begins: the peer choked us or requests timed out and *)
(* the loop goes on, or the loop returned and start tears down.            *)
BeginRelease(c, label) ==
  /\ pc[c] = "loop"
  /\ label = "releasing" => held[c] # {}
  /\ Goto(c, label)
  /\ UNCHANGED <<managerVars, mailbox, held, current, reply, peer_bitfield,
                 storeVars, lost>>

Releasing(c) == pc[c] \in {"releasing", "closing"}

(* Mutant: a hold released by hand stays armed.                            *)
TakeHold_armed(c, p) ==
  /\ Releasing(c)
  /\ current[c] = NoPiece
  /\ p \in held[c]
  /\ current' = [current EXCEPT ![c] = p]
  /\ UNCHANGED <<managerVars, mailbox, pc, held, reply, peer_bitfield, storeVars,
                 lost>>

(* PieceHold::release marks the hold released before its send.             *)
TakeHold(c, p) ==
  /\ Releasing(c)
  /\ current[c] = NoPiece
  /\ p \in held[c]
  /\ held' = [held EXCEPT ![c] = @ \ {p}]
  /\ current' = [current EXCEPT ![c] = p]
  /\ UNCHANGED <<managerVars, mailbox, pc, reply, peer_bitfield, storeVars, lost>>

SendRelease(c) == Releasing(c) /\ Report(c, "Release", pc[c])

EndRelease(c) ==
  /\ Releasing(c)
  /\ current[c] = NoPiece
  /\ held[c] = {}
  /\ Goto(c, IF pc[c] = "releasing" THEN "loop" ELSE "down")
  /\ UNCHANGED <<managerVars, mailbox, held, current, reply, peer_bitfield,
                 storeVars, lost>>

-----------------------------------------------------------------------------
(* A task dropped at an await, or panicking.                               *)

(* What goes with the task: an answer it had not read and a piece whose    *)
(* hold was disarmed.  A pending claim loses its reader.  A write or a     *)
(* record already handed to the blocking pool may still land.              *)
DropTask(c, landed) ==
  /\ AllowDrops
  /\ pc[c] \notin {"down", "dropping"}
  /\ Goto(c, "dropping")
  /\ lost' = lost \cup {<<c, p>> : p \in Pieces \cap {reply[c], current[c]}}
  /\ reply' = [reply EXCEPT ![c] = NoReply]
  /\ current' = [current EXCEPT ![c] = NoPiece]
  /\ mailbox' = [i \in DOMAIN mailbox |->
       IF mailbox[i].type = "ClaimPiece" /\ mailbox[i].peer = c
       THEN [mailbox[i] EXCEPT !.live = FALSE] ELSE mailbox[i]]
  /\ stored' = IF landed /\ pc[c] = "writing"
               THEN stored \cup {current[c]} ELSE stored
  /\ recorded' = IF landed /\ pc[c] = "recording"
                 THEN recorded \cup {current[c]} ELSE recorded
  /\ UNCHANGED <<managerVars, held, peer_bitfield>>

(* PieceHold::drop on one armed hold: a send that must not block.          *)
DropHold(c, p) ==
  /\ pc[c] = "dropping"
  /\ p \in held[c]
  /\ held' = [held EXCEPT ![c] = @ \ {p}]
  /\ IF HasRoom
     THEN mailbox' = Append(mailbox, GiveBack("Release", c, p)) /\ UNCHANGED lost
     ELSE lost' = lost \cup {<<c, p>>} /\ UNCHANGED mailbox
  /\ UNCHANGED <<managerVars, pc, current, reply, peer_bitfield, storeVars>>

(* Mutant: dropping a hold sends nothing.                                  *)
EndDrop_silent(c) ==
  /\ pc[c] = "dropping"
  /\ held' = [held EXCEPT ![c] = {}]
  /\ Goto(c, "down")
  /\ UNCHANGED <<managerVars, mailbox, current, reply, peer_bitfield, storeVars,
                 lost>>

EndDrop(c) ==
  /\ pc[c] = "dropping"
  /\ held[c] = {}
  /\ Goto(c, "down")
  /\ UNCHANGED <<managerVars, mailbox, held, current, reply, peer_bitfield,
                 storeVars, lost>>

-----------------------------------------------------------------------------
Teardown(c) ==
  \/ \E p \in Pieces : TakeHold(c, p)
  \/ SendRelease(c)
  \/ EndRelease(c)

Completion(c) ==
  \/ \E ok \in BOOLEAN : WriteReturns(c, ok) \/ RecordReturns(c, ok)
  \/ ReportVerified(c)
  \/ ReportFailed(c)

Connection(c) ==
  \/ \E bits \in SUBSET Pieces : Connect(c, bits)
  \/ \E p \in Pieces : PeerHas(c, p)
  \/ SendClaim(c)
  \/ ReceiveClaim(c)
  \/ \E p \in Pieces, ok \in BOOLEAN : CompletePiece(c, p, ok)
  \/ Completion(c)
  \/ \E label \in {"releasing", "closing"} : BeginRelease(c, label)
  \/ Teardown(c)
  \/ \E landed \in BOOLEAN : DropTask(c, landed)
  \/ \E p \in Pieces : DropHold(c, p)
  \/ EndDrop(c)

Next == Manager \/ \E c \in Peers : Connection(c)

Spec == Init /\ [][Next]_vars

(* What the runtime guarantees.  The manager's task and any task past an   *)
(* await whose future is ready are polled again; a full mailbox serves     *)
(* those that wait for room in turn.  Nothing is awaited while a task is   *)
(* dropped.  The loop of a connection owes nothing: the peer may keep it   *)
(* from finishing a piece, and from giving it back.                        *)
FairSpec ==
  /\ Spec
  /\ WF_vars(Manager)
  /\ \A c \in Peers :
       /\ WF_vars(ReceiveClaim(c))
       /\ SF_vars(Completion(c))
       /\ SF_vars(Teardown(c))
       /\ WF_vars((\E p \in Pieces : DropHold(c, p)) \/ EndDrop(c))

-----------------------------------------------------------------------------
(* Properties.                                                             *)

Labels == {"down", "loop", "claiming", "writing", "recording", "reporting",
           "failing", "releasing", "closing", "dropping"}

TypeOK ==
  /\ ManagerTypeOK
  /\ mailbox \in Seq(Messages)
  /\ Len(mailbox) <= MailboxSize
  /\ pc \in [Peers -> Labels]
  /\ held \in [Peers -> SUBSET Pieces]
  /\ current \in [Peers -> Pieces \cup {NoPiece}]
  /\ reply \in [Peers -> Pieces \cup {NoPiece, NoReply}]
  /\ peer_bitfield \in [Peers -> SUBSET Pieces]
  /\ stored \in SUBSET Pieces
  /\ recorded \in SUBSET Pieces
  /\ lost \in SUBSET (Peers \X Pieces)

(* Something in the program that will still take c off piece p, or finish  *)
(* the piece: an armed hold, a piece being completed or released, an       *)
(* answer on its way, or a message already in the mailbox.                 *)
GivesBack(m, c, p) == m \in {GiveBack(t, c, p) : t \in GiveBackTypes}

InMail(c, p) == \E i \in DOMAIN mailbox : GivesBack(mailbox[i], c, p)

(* c has the piece in hand, or will with the answer that is on its way.    *)
Working(c, p) == p \in held[c] \/ current[c] = p \/ reply[c] = p

Owns(c, p) == Working(c, p) \/ InMail(c, p)

(* A connection has at most one claim waiting for an answer, and takes the *)
(* answer before it sends another.                                         *)
LiveClaim(m, c) == m.type = "ClaimPiece" /\ m.peer = c /\ m.live

OneAnswerPending ==
  \A c \in Peers :
    /\ reply[c] # NoReply => pc[c] = "claiming"
    /\ \A i \in DOMAIN mailbox : LiveClaim(mailbox[i], c) =>
         /\ pc[c] = "claiming" /\ reply[c] = NoReply
         /\ \A j \in DOMAIN mailbox : LiveClaim(mailbox[j], c) => j = i

(* A piece is out of in_flight exactly while it is completed or released.  *)
CurrentMatchesPc ==
  \A c \in Peers :
    /\ pc[c] \in {"writing", "recording", "reporting", "failing"}
         => current[c] \in Pieces
    /\ pc[c] \in {"down", "loop", "claiming", "dropping"} => current[c] = NoPiece

(* A piece is recorded and reported only with its bytes in the store.      *)
WrittenBeforeReported ==
  /\ \A c \in Peers : pc[c] \in {"recording", "reporting"} => current[c] \in stored
  /\ \A i \in DOMAIN mailbox :
       mailbox[i].type = "PieceVerified" => mailbox[i].piece \in stored

NothingLostWithoutDrops ==
  ~AllowDrops =>
    /\ lost = {}
    /\ \A c \in Peers : pc[c] # "dropping"
    /\ \A i \in DOMAIN mailbox : mailbox[i].type = "ClaimPiece" => mailbox[i].live

(* The hazard request_manager.rs:66-71 describes: a registration nobody    *)
(* stands for locks its piece for good, since only an unheld piece can be  *)
(* claimed.  Every registration the manager keeps has an owner.            *)
NoStrandedClaim ==
  \A p \in Pieces : \A c \in requesters[p] : Owns(c, p)

(* When tasks may be dropped, registrations outlive their owner only       *)
(* through the four windows that add to `lost`: an answer sent to nobody,  *)
(* one not read, a hold disarmed before its message is sent, and a hold    *)
(* dropped against a full mailbox.                                         *)
StrandedOnlyIfLost ==
  \A p \in Pieces : \A c \in requesters[p] : Owns(c, p) \/ <<c, p>> \in lost

(* The other direction: a connection that is working a piece is known to   *)
(* the manager, so the piece is not handed out as unclaimed, unless the    *)
(* piece has been completed by somebody else meanwhile.  It rests on       *)
(* OwnedOnce: a message of an earlier claim never ends a later one.        *)
OwnersAreRegistered ==
  \A c \in Peers, p \in Pieces :
    Owns(c, p) => c \in requesters[p] \/ p \in complete

(* A connection stands for a piece in one way at a time: it is never both  *)
(* in hand and on its way back, and no two messages give it back twice.    *)
StandsOnce(c, p) ==
  /\ p \in held[c] => current[c] # p /\ reply[c] # p
  /\ current[c] = p => reply[c] # p
  /\ Working(c, p) => ~InMail(c, p)
  /\ \A i, j \in DOMAIN mailbox :
       GivesBack(mailbox[i], c, p) /\ GivesBack(mailbox[j], c, p) => i = j

OwnedOnce == \A c \in Peers, p \in Pieces : StandsOnce(c, p)

(* complete_piece writes, then records, then reports, and the manager      *)
(* makes a piece servable on the report: whatever the manager calls        *)
(* complete, and whatever the store's bitfield claims, is in the store.    *)
ServableIsStored == complete \subseteq stored /\ recorded \subseteq stored

(* The inductive invariant: what the theorems of Swarm_proofs rest on.     *)
SwarmInv ==
  /\ TypeOK
  /\ ManagerInv
  /\ OneAnswerPending
  /\ CurrentMatchesPc
  /\ WrittenBeforeReported
  /\ ServableIsStored
  /\ StrandedOnlyIfLost
  /\ NothingLostWithoutDrops
  /\ OwnedOnce
  /\ OwnersAreRegistered

(* What all of this promises together, as a specification of its own:      *)
(* PieceLeases, read off the manager's registrations and what connections  *)
(* have in hand.                                                           *)
Registered == {l \in Peers \X Pieces : l[1] \in requesters[l[2]]}

InHand == {l \in Peers \X Pieces : Working(l[1], l[2])}

Leases == INSTANCE PieceLeases WITH
  open    <- phase # "starting",
  done    <- complete,
  leases  <- Registered,
  working <- InHand

(* Every step of the connections, their mailbox and the manager, dropped   *)
(* tasks included, is a step of the leases or none: pieces are shared only *)
(* in endgame and below the cap, a lease ends only when its piece is out   *)
(* of hand, and a piece is done only on a lease and with its bytes stored. *)
ImplementsLeases == Leases!Spec

(* finalize copies the store out; it never runs before every piece landed. *)
FinalizeCopiesEverything == phase = "finalizing" \/ extracted => stored = Pieces

(* Every claim ends: whoever is registered on a piece is taken off it,     *)
(* unless its connection was dropped in one of the four windows, or its    *)
(* loop keeps the piece in hand for ever.  Nothing but the loop can: not   *)
(* a lost race for the mailbox, an answer not taken, a write, a failed     *)
(* piece or a task dropped in the middle of any of these.                  *)
ClaimsAreResolved ==
  \A c \in Peers, p \in Pieces :
    \/ []<>(c \notin requesters[p] \/ <<c, p>> \in lost)
    \/ <>[](p \in held[c])
=============================================================================
