--------------------------- MODULE Announcements ----------------------------
(***************************************************************************)
(* What every peer is told about the pieces we hold, and whether we want   *)
(* theirs.  A connection opens with a snapshot of the manager's bitfield   *)
(* and a subscription to its PieceComplete events taken in one turn        *)
(* (peer_connection/mod.rs:115-127), and from then on turns each event     *)
(* into a Have and a fresh look at its interest (request_manager.rs:503).  *)
(*                                                                         *)
(* The broadcast channel is the log piece_events read through a cursor     *)
(* per subscription; a receiver more than EventChannelSize behind loses    *)
(* the oldest ones.  Which connection assembled a piece is Swarm's         *)
(* subject: here a report of any piece may arrive at any time, and twice.  *)
(***************************************************************************)
EXTENDS PieceManager

CONSTANTS
  EventChannelSize,    (* EVENT_CHANNEL_SIZE                                 *)
  MailboxSize          (* CHANNEL_SIZE of piece_manager/channel.rs           *)

ASSUME ChannelAssumption ==
  EventChannelSize \in Nat \ {0} /\ MailboxSize \in Nat \ {0}

VARIABLES
  mailbox,             (* messages to the manager                            *)
  pc,                  (* where each connection is                           *)
  cursor,              (* events each subscription has taken                 *)
  skipped,             (* ghost: pieces whose event it lost by lagging       *)
  snapshot,            (* the bitfield that came with the subscription       *)
  told,                (* pieces each peer has been told we have             *)
  peer_bitfield,       (* pieces each peer says it has                       *)
  am_interested,       (* what each peer was last told of our interest       *)
  answer               (* the oneshot of a pending IsInteresting             *)

connVars == <<pc, cursor, skipped, snapshot, told, peer_bitfield, am_interested,
              answer>>
vars == <<managerVars, mailbox, connVars>>

Messages ==
  [type : {"PieceVerified"}, piece : Pieces]
    \cup [type : {"GetBitfield"}, peer : Peers]
    \cup [type : {"IsInteresting"}, peer : Peers, bitfield : SUBSET Pieces]

(* Mutant: the mailbox is not bounded.                                     *)
Send_unbounded(message) == mailbox' = Append(mailbox, message)

Send(message) ==
  /\ Len(mailbox) < MailboxSize
  /\ mailbox' = Append(mailbox, message)

Goto(c, label) == pc' = [pc EXCEPT ![c] = label]

Init ==
  /\ InitManager
  /\ mailbox = <<>>
  /\ pc = [c \in Peers |-> "down"]
  /\ cursor = [c \in Peers |-> 0]
  /\ skipped = [c \in Peers |-> {}]
  /\ snapshot = [c \in Peers |-> {}]
  /\ told = [c \in Peers |-> {}]
  /\ peer_bitfield = [c \in Peers |-> {}]
  /\ am_interested = [c \in Peers |-> FALSE]
  /\ answer = [c \in Peers |-> "none"]

-----------------------------------------------------------------------------
(* The manager.                                                            *)

StartManager ==
  /\ \E stored \in SUBSET Pieces : adopt_stored(stored)
  /\ UNCHANGED <<mailbox, connVars>>

Received(type) ==
  /\ phase = "serving"
  /\ mailbox # <<>>
  /\ Head(mailbox).type = type
  /\ mailbox' = Tail(mailbox)

HandleVerified ==
  /\ Received("PieceVerified")
  /\ \E peer \in Peers : piece_verified(Head(mailbox).piece, peer)
  /\ UNCHANGED connVars

FinishFinalize ==
  /\ \E ok \in BOOLEAN : FinalizeReturns(ok)
  /\ UNCHANGED <<mailbox, connVars>>

(* bitfield_snapshot: the bits and the subscription in one turn.           *)
HandleGetBitfield ==
  /\ Received("GetBitfield")
  /\ LET c == Head(mailbox).peer IN
       /\ snapshot' = [snapshot EXCEPT ![c] = bitfield]
       /\ cursor' = [cursor EXCEPT ![c] = Len(piece_events)]
       /\ Goto(c, "subscribed")
  /\ UNCHANGED <<managerVars, skipped, told, peer_bitfield, am_interested, answer>>

HandleIsInteresting ==
  /\ Received("IsInteresting")
  /\ LET m == Head(mailbox) IN
       answer' = [answer EXCEPT ![m.peer] =
                    IF is_interesting(m.bitfield) THEN "yes" ELSE "no"]
  /\ UNCHANGED <<managerVars, pc, cursor, skipped, snapshot, told, peer_bitfield,
                 am_interested>>

(* Some connection finishes a piece; in endgame another finishes it again. *)
ReportPiece(p) ==
  /\ Send([type |-> "PieceVerified", piece |-> p])
  /\ UNCHANGED <<managerVars, connVars>>

-----------------------------------------------------------------------------
(* One connection.                                                         *)

AskForBitfield(c) ==
  /\ pc[c] = "down"
  /\ Send([type |-> "GetBitfield", peer |-> c])
  /\ Goto(c, "asking")
  /\ UNCHANGED <<managerVars, cursor, skipped, snapshot, told, peer_bitfield,
                 am_interested, answer>>

(* Mutant: the subscription is taken once the bitfield is out.             *)
SendBitfield_then_subscribe(c) ==
  /\ pc[c] = "subscribed"
  /\ told' = [told EXCEPT ![c] = snapshot[c]]
  /\ snapshot' = [snapshot EXCEPT ![c] = {}]
  /\ cursor' = [cursor EXCEPT ![c] = Len(piece_events)]
  /\ Goto(c, "waiting")
  /\ UNCHANGED <<managerVars, mailbox, skipped, peer_bitfield, am_interested,
                 answer>>

SendBitfield(c) ==
  /\ pc[c] = "subscribed"
  /\ told' = [told EXCEPT ![c] = snapshot[c]]
  /\ snapshot' = [snapshot EXCEPT ![c] = {}]
  /\ Goto(c, "waiting")
  /\ UNCHANGED <<managerVars, mailbox, cursor, skipped, peer_bitfield, am_interested,
                 answer>>

(* The peer's first message must be its bitfield; run then starts with     *)
(* update_interest.                                                        *)
ReceiveBitfield(c, bits) ==
  /\ pc[c] = "waiting"
  /\ peer_bitfield' = [peer_bitfield EXCEPT ![c] = bits]
  /\ Goto(c, "update_interest")
  /\ UNCHANGED <<managerVars, mailbox, cursor, skipped, snapshot, told, am_interested,
                 answer>>

AskInterest(c) ==
  /\ pc[c] = "update_interest"
  /\ Send([type |-> "IsInteresting", peer |-> c, bitfield |-> peer_bitfield[c]])
  /\ Goto(c, "asked")
  /\ UNCHANGED <<managerVars, cursor, skipped, snapshot, told, peer_bitfield,
                 am_interested, answer>>

(* Interested or NotInterested goes out when the answer changed.           *)
TellInterest(c) ==
  /\ pc[c] = "asked"
  /\ answer[c] # "none"
  /\ am_interested' = [am_interested EXCEPT ![c] = answer[c] = "yes"]
  /\ answer' = [answer EXCEPT ![c] = "none"]
  /\ Goto(c, "loop")
  /\ UNCHANGED <<managerVars, mailbox, cursor, skipped, snapshot, told, peer_bitfield>>

(* A Have from the peer.                                                   *)
ReceiveHave(c, p) ==
  /\ pc[c] = "loop"
  /\ p \notin peer_bitfield[c]
  /\ peer_bitfield' = [peer_bitfield EXCEPT ![c] = @ \cup {p}]
  /\ Goto(c, "update_interest")
  /\ UNCHANGED <<managerVars, mailbox, cursor, skipped, snapshot, told, am_interested,
                 answer>>

Behind(c) == Len(piece_events) - cursor[c]

(* Mutant: interest is not looked at again after an event.                 *)
HandlePieceEvent_no_interest(c) ==
  /\ pc[c] = "loop"
  /\ Behind(c) \in 1 .. EventChannelSize
  /\ told' = [told EXCEPT ![c] = @ \cup {piece_events[cursor[c] + 1]}]
  /\ cursor' = [cursor EXCEPT ![c] = @ + 1]
  /\ UNCHANGED <<managerVars, mailbox, pc, skipped, snapshot, peer_bitfield,
                 am_interested, answer>>

(* Mutant: the newest event is announced in place of the oldest.           *)
HandlePieceEvent_newest(c) ==
  /\ pc[c] = "loop"
  /\ Behind(c) \in 1 .. EventChannelSize
  /\ told' = [told EXCEPT ![c] = @ \cup {piece_events[Len(piece_events)]}]
  /\ cursor' = [cursor EXCEPT ![c] = Len(piece_events)]
  /\ Goto(c, "update_interest")
  /\ UNCHANGED <<managerVars, mailbox, skipped, snapshot, peer_bitfield,
                 am_interested, answer>>

(* handle_piece_event: a Have for the oldest event not taken yet.          *)
HandlePieceEvent(c) ==
  /\ pc[c] = "loop"
  /\ Behind(c) \in 1 .. EventChannelSize
  /\ told' = [told EXCEPT ![c] = @ \cup {piece_events[cursor[c] + 1]}]
  /\ cursor' = [cursor EXCEPT ![c] = @ + 1]
  /\ Goto(c, "update_interest")
  /\ UNCHANGED <<managerVars, mailbox, skipped, snapshot, peer_bitfield,
                 am_interested, answer>>

(* RecvError::Lagged: the overwritten events are skipped and only logged.  *)
Lagged(c) ==
  /\ pc[c] = "loop"
  /\ Behind(c) > EventChannelSize
  /\ LET oldest == Len(piece_events) - EventChannelSize IN
       /\ cursor' = [cursor EXCEPT ![c] = oldest]
       /\ skipped' = [skipped EXCEPT ![c] =
                        @ \cup {piece_events[i] : i \in cursor[c] + 1 .. oldest}]
  /\ UNCHANGED <<managerVars, mailbox, pc, snapshot, told, peer_bitfield,
                 am_interested, answer>>

Disconnect(c) ==
  /\ pc[c] \in {"subscribed", "waiting", "loop"}
  /\ Goto(c, "down")
  /\ cursor' = [cursor EXCEPT ![c] = 0]
  /\ skipped' = [skipped EXCEPT ![c] = {}]
  /\ snapshot' = [snapshot EXCEPT ![c] = {}]
  /\ told' = [told EXCEPT ![c] = {}]
  /\ peer_bitfield' = [peer_bitfield EXCEPT ![c] = {}]
  /\ am_interested' = [am_interested EXCEPT ![c] = FALSE]
  /\ UNCHANGED <<managerVars, mailbox, answer>>

-----------------------------------------------------------------------------
Manager ==
  \/ StartManager
  \/ HandleVerified
  \/ FinishFinalize
  \/ HandleGetBitfield
  \/ HandleIsInteresting

(* The steps a connection takes of its own accord.                         *)
Progress(c) ==
  \/ SendBitfield(c)
  \/ AskInterest(c)
  \/ TellInterest(c)
  \/ HandlePieceEvent(c)
  \/ Lagged(c)

Connection(c) ==
  \/ AskForBitfield(c)
  \/ \E bits \in SUBSET Pieces : ReceiveBitfield(c, bits)
  \/ \E p \in Pieces : ReceiveHave(c, p)
  \/ Progress(c)
  \/ Disconnect(c)

Next ==
  \/ Manager
  \/ \E p \in Pieces : ReportPiece(p)
  \/ \E c \in Peers : Connection(c)

Spec == Init /\ [][Next]_vars

(* A task whose await is ready is polled again.  The sends of the bitfield *)
(* and of Have return only while the peer reads, so that Progress is fair  *)
(* of a peer that does.  The send of AskInterest waits its turn in the     *)
(* mailbox's queue of senders, hence the strong fairness.                  *)
FairSpec ==
  /\ Spec
  /\ WF_vars(Manager)
  /\ \A c \in Peers : WF_vars(Progress(c)) /\ SF_vars(AskInterest(c))

-----------------------------------------------------------------------------
TypeOK ==
  /\ ManagerTypeOK
  /\ mailbox \in Seq(Messages)
  /\ Len(mailbox) <= MailboxSize
  /\ pc \in [Peers -> {"down", "asking", "subscribed", "waiting",
                       "update_interest", "asked", "loop"}]
  /\ cursor \in [Peers -> Nat]
  /\ skipped \in [Peers -> SUBSET Pieces]
  /\ snapshot \in [Peers -> SUBSET Pieces]
  /\ told \in [Peers -> SUBSET Pieces]
  /\ peer_bitfield \in [Peers -> SUBSET Pieces]
  /\ am_interested \in [Peers -> BOOLEAN]
  /\ answer \in [Peers -> {"none", "yes", "no"}]

PendingEvents(c) ==
  {piece_events[i] : i \in cursor[c] + 1 .. Len(piece_events)}

Subscribed(c) == pc[c] \notin {"down", "asking"}

(* A piece finishing between the bitfield and the subscription would land  *)
(* in neither, and the protocol has no second bitfield to correct it       *)
(* (channel.rs:63-68).  Every complete piece is in the snapshot about to   *)
(* be sent, or was announced, or is an event the connection will take, or  *)
(* one it lost by falling behind; and however far behind it is, nothing is *)
(* announced before it is complete.                                        *)
EveryPieceIsAnnounced ==
  \A c \in Peers : Subscribed(c) =>
    complete = snapshot[c] \cup told[c] \cup PendingEvents(c) \cup skipped[c]

(* Interest is asked of another task and may be stale when the answer      *)
(* arrives.  Once a connection is back in its loop with no event left to   *)
(* take, what it told the peer is the truth, lagging or not.               *)
InterestIsCurrent ==
  \A c \in Peers :
    pc[c] = "loop" /\ Behind(c) = 0 =>
      am_interested[c] = is_interesting(peer_bitfield[c])

(* What makes these inductive.  No subscription has taken an event that    *)
(* was not sent, and none is taken before the manager serves.              *)
CursorsInLog == \A c \in Peers : cursor[c] <= Len(piece_events)

NobodyIsEarly == phase = "starting" => \A c \in Peers : ~Subscribed(c)

(* A connection that has not sent its bitfield has told and lost nothing.  *)
Unsent(c) == pc[c] \in {"down", "asking", "subscribed"}

BlankBefore == \A c \in Peers : Unsent(c) => told[c] = {} /\ skipped[c] = {}

(* A question in the mailbox is the only one of its connection, which      *)
(* waits for the answer and has not changed what it asked about.           *)
IsQuestion(m) == m.type \in {"GetBitfield", "IsInteresting"}

QuestionsFit ==
  /\ \A i \in DOMAIN mailbox : LET m == mailbox[i] IN
       /\ m.type = "GetBitfield" => pc[m.peer] = "asking"
       /\ m.type = "IsInteresting" => /\ pc[m.peer] = "asked"
                                      /\ answer[m.peer] = "none"
                                      /\ m.bitfield = peer_bitfield[m.peer]
  /\ \A i, j \in DOMAIN mailbox :
       IsQuestion(mailbox[i]) /\ IsQuestion(mailbox[j])
         /\ mailbox[i].peer = mailbox[j].peer => i = j

(* An answer is true until an event says otherwise, read or not.           *)
AnswersFit ==
  \A c \in Peers : answer[c] # "none" =>
    /\ pc[c] = "asked"
    /\ Behind(c) = 0 => (answer[c] = "yes" <=> is_interesting(peer_bitfield[c]))

AnnounceInv ==
  /\ TypeOK
  /\ ManagerInv
  /\ CursorsInLog
  /\ NobodyIsEarly
  /\ BlankBefore
  /\ EveryPieceIsAnnounced
  /\ QuestionsFit
  /\ AnswersFit
  /\ InterestIsCurrent

(* A piece we complete is announced to every peer that stays connected,    *)
(* reads what it is sent and does not fall behind the channel.             *)
PiecesGetAnnounced ==
  \A c \in Peers, p \in Pieces :
    pc[c] = "loop" /\ p \in complete ~>
      p \in told[c] \cup skipped[c] \/ pc[c] = "down"
=============================================================================
