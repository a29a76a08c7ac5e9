------------------------ MODULE Announcements_proofs ------------------------
(***************************************************************************)
(* What every peer is told about the pieces we hold, for any torrent, any  *)
(* peers, any size of the mailbox and of the event channel: every complete *)
(* piece is announced, still to be taken, or lost by lagging, nothing is   *)
(* announced early, and interest is true whenever a connection is at rest. *)
(***************************************************************************)
EXTENDS Announcements, PieceManager_proofs

-----------------------------------------------------------------------------
(* The mailbox.                                                            *)

LEMMA TailOfMailbox ==
  ASSUME mailbox \in Seq(Messages), mailbox # <<>>, mailbox' = Tail(mailbox)
  PROVE  /\ mailbox' \in Seq(Messages)
         /\ Head(mailbox) \in Messages
         /\ Head(mailbox) = mailbox[1] /\ 1 \in DOMAIN mailbox
         /\ Len(mailbox') = Len(mailbox) - 1
         /\ \A i \in DOMAIN mailbox' : i + 1 \in DOMAIN mailbox /\ i + 1 # 1
                                       /\ i \in Int
                                       /\ mailbox'[i] = mailbox[i + 1]
OBVIOUS

LEMMA AppendToMailbox ==
  ASSUME mailbox \in Seq(Messages), NEW m \in Messages,
         mailbox' = Append(mailbox, m)
  PROVE  /\ mailbox' \in Seq(Messages)
         /\ Len(mailbox') = Len(mailbox) + 1
         /\ DOMAIN mailbox' = DOMAIN mailbox \cup {Len(mailbox) + 1}
         /\ Len(mailbox) + 1 \notin DOMAIN mailbox
         /\ mailbox'[Len(mailbox) + 1] = m
         /\ \A i \in DOMAIN mailbox : mailbox'[i] = mailbox[i]
OBVIOUS

(* What each kind of message carries.                                      *)
LEMMA MessageFields ==
  ASSUME NEW m \in Messages
  PROVE  /\ m.type \in {"PieceVerified", "GetBitfield", "IsInteresting"}
         /\ m.type = "PieceVerified" => m.piece \in Pieces
         /\ m.type \in {"GetBitfield", "IsInteresting"} => m.peer \in Peers
         /\ m.type = "IsInteresting" => m.bitfield \in SUBSET Pieces
BY DEF Messages

LEMMA QuestionsAreMessages ==
  /\ \A p \in Pieces : [type |-> "PieceVerified", piece |-> p] \in Messages
  /\ \A c \in Peers : [type |-> "GetBitfield", peer |-> c] \in Messages
  /\ \A c \in Peers, bits \in SUBSET Pieces :
       [type |-> "IsInteresting", peer |-> c, bitfield |-> bits] \in Messages
BY DEF Messages

-----------------------------------------------------------------------------
(* Types, and the manager's own invariant.                                 *)

AnnounceTypes == TypeOK /\ ManagerInv

LEMMA InitAnnounceTypes == Init => AnnounceTypes
<1> SUFFICES ASSUME Init
             PROVE  AnnounceTypes
  OBVIOUS
<1>1. ManagerInv
  BY InitManagerInv DEF Init
<1> QED
  BY <1>1, ChannelAssumption DEF Init, AnnounceTypes, TypeOK, ManagerInv

(* A message handled comes off the mailbox and is of a known type.         *)
LEMMA ReceivedIsMessage ==
  ASSUME TypeOK, NEW type, Received(type)
  PROVE  /\ phase = "serving"
         /\ mailbox \in Seq(Messages) /\ mailbox # <<>> /\ mailbox' = Tail(mailbox)
         /\ mailbox' \in Seq(Messages) /\ Len(mailbox') <= MailboxSize
         /\ Head(mailbox) \in Messages /\ Head(mailbox).type = type
<1>1. mailbox \in Seq(Messages) /\ mailbox # <<>> /\ mailbox' = Tail(mailbox)
      /\ phase = "serving" /\ Head(mailbox).type = type
  BY DEF Received, TypeOK
<1> QED
  BY <1>1, TailOfMailbox, ChannelAssumption DEF TypeOK

LEMMA SentIsMessage ==
  ASSUME TypeOK, NEW m \in Messages, Send(m)
  PROVE  mailbox' \in Seq(Messages) /\ Len(mailbox') <= MailboxSize
BY AppendToMailbox, ChannelAssumption DEF Send, TypeOK

LEMMA ManagerKeepsAnnounceTypes ==
  ASSUME AnnounceTypes, Manager
  PROVE  AnnounceTypes'
<1> USE DEF AnnounceTypes
<1>0. ASSUME ManagerInv', UNCHANGED connVars,
             mailbox' \in Seq(Messages), Len(mailbox') <= MailboxSize
      PROVE  TypeOK'
  BY <1>0 DEF TypeOK, connVars, ManagerInv
<1>1. CASE StartManager
  <2>1. ManagerInv'
    BY <1>1, AdoptKeepsInv DEF StartManager
  <2> QED
    BY <2>1, <1>0, <1>1 DEF StartManager, TypeOK
<1>2. CASE HandleVerified
  <2>1. Received("PieceVerified")
    BY <1>2 DEF HandleVerified
  <2>2. Head(mailbox).piece \in Pieces
    BY <2>1, ReceivedIsMessage, MessageFields
  <2>3. ManagerInv'
    BY <1>2, <2>1, <2>2, VerifiedKeepsInv, ReceivedIsMessage DEF HandleVerified
  <2> QED
    BY <2>3, <1>0, <1>2, <2>1, ReceivedIsMessage DEF HandleVerified
<1>3. CASE FinishFinalize
  <2>1. ManagerInv'
    BY <1>3, FinalizeKeepsInv DEF FinishFinalize
  <2> QED
    BY <2>1, <1>0, <1>3 DEF FinishFinalize, TypeOK
<1>4. CASE HandleGetBitfield
  <2>1. Received("GetBitfield") /\ Head(mailbox).peer \in Peers
    BY <1>4, ReceivedIsMessage, MessageFields DEF HandleGetBitfield
  <2>2. ManagerInv'
    BY <1>4, UnchangedKeepsInv DEF HandleGetBitfield
  <2>3. Len(piece_events) \in Nat /\ bitfield \in SUBSET Pieces
    BY DEF ManagerInv, ManagerTypeOK
  <2> QED
    BY <2>1, <2>2, <2>3, <1>4, ReceivedIsMessage
       DEF HandleGetBitfield, Goto, TypeOK, ManagerInv
<1>5. CASE HandleIsInteresting
  <2>1. Received("IsInteresting") /\ Head(mailbox).peer \in Peers
    BY <1>5, ReceivedIsMessage, MessageFields DEF HandleIsInteresting
  <2>2. ManagerInv'
    BY <1>5, UnchangedKeepsInv DEF HandleIsInteresting
  <2> QED
    BY <2>1, <2>2, <1>5, ReceivedIsMessage DEF HandleIsInteresting, TypeOK, ManagerInv
<1> QED
  BY <1>1, <1>2, <1>3, <1>4, <1>5 DEF Manager

LEMMA ConnectionKeepsAnnounceTypes ==
  ASSUME AnnounceTypes, NEW c \in Peers, Connection(c)
  PROVE  AnnounceTypes' /\ UNCHANGED managerVars
<1> USE DEF AnnounceTypes
<1>1. UNCHANGED managerVars
  BY DEF Connection, Progress, AskForBitfield, ReceiveBitfield, ReceiveHave,
         SendBitfield, AskInterest, TellInterest, HandlePieceEvent, Lagged, Disconnect
<1>2. ManagerInv'
  BY <1>1, UnchangedKeepsInv
<1>3. piece_events \in Seq(Pieces)
  BY DEF ManagerInv, ManagerTypeOK
<1> USE <1>2 DEF TypeOK, ManagerInv
<1>4. CASE AskForBitfield(c)
  BY <1>4, SentIsMessage, QuestionsAreMessages DEF AskForBitfield, Goto
<1>5. CASE \E bits \in SUBSET Pieces : ReceiveBitfield(c, bits)
  BY <1>5 DEF ReceiveBitfield, Goto
<1>6. CASE \E p \in Pieces : ReceiveHave(c, p)
  BY <1>6 DEF ReceiveHave, Goto
<1>7. CASE SendBitfield(c)
  BY <1>7 DEF SendBitfield, Goto
<1>8. CASE AskInterest(c)
  BY <1>8, SentIsMessage, QuestionsAreMessages DEF AskInterest, Goto
<1>9. CASE TellInterest(c)
  BY <1>9 DEF TellInterest, Goto
<1>10. CASE HandlePieceEvent(c)
  <2>1. cursor[c] + 1 \in 1 .. Len(piece_events) /\ cursor[c] + 1 \in Nat
    BY <1>3, <1>10, ChannelAssumption DEF HandlePieceEvent, Behind
  <2>2. piece_events[cursor[c] + 1] \in Pieces
    BY <1>3, <2>1
  <2> QED
    BY <1>10, <2>1, <2>2 DEF HandlePieceEvent, Goto
<1>11. CASE Lagged(c)
  <2> DEFINE oldest == Len(piece_events) - EventChannelSize
             gone == {piece_events[i] : i \in cursor[c] + 1 .. oldest}
  <2>1. oldest \in Nat /\ oldest > cursor[c] /\ oldest <= Len(piece_events)
    BY <1>3, <1>11, ChannelAssumption DEF Lagged, Behind
  <2>2. gone \subseteq Pieces
    BY <1>3, <2>1
  <2>3. /\ cursor' = [cursor EXCEPT ![c] = oldest]
        /\ skipped' = [skipped EXCEPT ![c] = @ \cup gone]
        /\ UNCHANGED <<mailbox, pc, snapshot, told, peer_bitfield, am_interested, answer>>
    BY <1>11 DEF Lagged
  <2> HIDE DEF oldest, gone
  <2> QED
    BY <1>1, <2>1, <2>2, <2>3
<1>12. CASE Disconnect(c)
  BY <1>12 DEF Disconnect, Goto
<1> QED
  BY <1>1, <1>4, <1>5, <1>6, <1>7, <1>8, <1>9, <1>10, <1>11, <1>12 DEF Connection, Progress

LEMMA NextKeepsAnnounceTypes == AnnounceTypes /\ [Next]_vars => AnnounceTypes'
<1> SUFFICES ASSUME AnnounceTypes, [Next]_vars
             PROVE  AnnounceTypes'
  OBVIOUS
<1>1. ASSUME NEW p \in Pieces, ReportPiece(p)
      PROVE  AnnounceTypes'
  <2>1. ManagerInv'
    BY <1>1, UnchangedKeepsInv DEF ReportPiece, AnnounceTypes
  <2> QED
    BY <1>1, <2>1, SentIsMessage, QuestionsAreMessages
       DEF ReportPiece, AnnounceTypes, TypeOK, ManagerInv, connVars
<1>2. CASE UNCHANGED vars
  <2>1. ManagerInv'
    BY <1>2, UnchangedKeepsInv DEF vars, AnnounceTypes
  <2> QED
    BY <1>2, <2>1 DEF vars, AnnounceTypes, TypeOK, ManagerInv, connVars
<1> QED
  BY <1>1, <1>2, ManagerKeepsAnnounceTypes, ConnectionKeepsAnnounceTypes DEF Next

(* The state is of its type and the manager's views agree, however many    *)
(* connections ask and report, and through whatever mailbox.               *)
THEOREM AnnounceTypesHold == Spec => []AnnounceTypes
BY InitAnnounceTypes, NextKeepsAnnounceTypes, PTL DEF Spec

THEOREM AnnounceTypeCorrect == Spec => []TypeOK
BY AnnounceTypesHold, PTL DEF AnnounceTypes

-----------------------------------------------------------------------------
(* Questions: one at a time, each answered to the connection that asked.   *)

AnswersAwaited == \A c \in Peers : answer[c] # "none" => pc[c] = "asked"

QuestionInv == AnnounceTypes /\ QuestionsFit /\ AnswersAwaited

LEMMA InitQuestions == Init => QuestionInv
BY InitAnnounceTypes DEF QuestionInv, QuestionsFit, AnswersAwaited, Init

(* A message taken off the mailbox leaves the other questions fitting.     *)
LEMMA OthersStillFit ==
  ASSUME TypeOK, QuestionsFit, NEW type, Received(type)
  PROVE  /\ \A i \in DOMAIN mailbox' :
              /\ mailbox'[i].type = "GetBitfield" => pc[mailbox'[i].peer] = "asking"
              /\ mailbox'[i].type = "IsInteresting" =>
                   /\ pc[mailbox'[i].peer] = "asked"
                   /\ answer[mailbox'[i].peer] = "none"
                   /\ mailbox'[i].bitfield = peer_bitfield[mailbox'[i].peer]
              /\ IsQuestion(mailbox'[i]) => mailbox'[i].peer \in Peers
              /\ IsQuestion(mailbox'[i]) /\ IsQuestion(Head(mailbox)) =>
                   mailbox'[i].peer # Head(mailbox).peer
         /\ \A i, j \in DOMAIN mailbox' :
              IsQuestion(mailbox'[i]) /\ IsQuestion(mailbox'[j])
                /\ mailbox'[i].peer = mailbox'[j].peer => i = j
<1>1. mailbox \in Seq(Messages) /\ mailbox # <<>> /\ mailbox' = Tail(mailbox)
  BY ReceivedIsMessage
<1>2. /\ Head(mailbox) = mailbox[1] /\ 1 \in DOMAIN mailbox
      /\ \A i \in DOMAIN mailbox' : i + 1 \in DOMAIN mailbox /\ i + 1 # 1
                                    /\ i \in Int
                                    /\ mailbox'[i] = mailbox[i + 1]
  BY <1>1, TailOfMailbox
<1>3. \A i \in DOMAIN mailbox : IsQuestion(mailbox[i]) => mailbox[i].peer \in Peers
  <2>1. \A i \in DOMAIN mailbox : mailbox[i] \in Messages
    BY <1>1
  <2> QED
    BY <2>1, MessageFields DEF IsQuestion
<1>4. ASSUME NEW i \in DOMAIN mailbox', NEW j \in DOMAIN mailbox',
             IsQuestion(mailbox'[i]), IsQuestion(mailbox'[j]),
             mailbox'[i].peer = mailbox'[j].peer
      PROVE  i = j
  <2>1. i + 1 = j + 1
    BY <1>2, <1>4 DEF QuestionsFit
  <2> QED
    BY <1>2, <2>1
<1> QED
  BY <1>2, <1>3, <1>4 DEF QuestionsFit

(* A question added by c fits when c had none out.                         *)
LEMMA OneMoreFits ==
  ASSUME TypeOK, QuestionsFit, NEW m \in Messages, Send(m),
         UNCHANGED peer_bitfield,
         \A d \in Peers : \/ IsQuestion(m) /\ m.peer = d
                          \/ pc'[d] = pc[d] /\ answer'[d] = answer[d],
         IsQuestion(m) => /\ pc[m.peer] # "asking" /\ pc[m.peer] # "asked"
                          /\ m.type = "GetBitfield" => pc'[m.peer] = "asking"
                          /\ m.type = "IsInteresting" =>
                               /\ pc'[m.peer] = "asked"
                               /\ answer'[m.peer] = "none"
                               /\ m.bitfield = peer_bitfield[m.peer]
  PROVE  QuestionsFit'
<1>1. /\ mailbox \in Seq(Messages)
      /\ DOMAIN mailbox' = DOMAIN mailbox \cup {Len(mailbox) + 1}
      /\ Len(mailbox) + 1 \notin DOMAIN mailbox
      /\ mailbox'[Len(mailbox) + 1] = m
      /\ \A i \in DOMAIN mailbox : mailbox'[i] = mailbox[i]
  BY AppendToMailbox DEF Send, TypeOK
<1>2. \A i \in DOMAIN mailbox : IsQuestion(mailbox[i]) =>
        /\ mailbox[i].peer \in Peers
        /\ IsQuestion(m) => mailbox[i].peer # m.peer
  <2>1. \A i \in DOMAIN mailbox : mailbox[i] \in Messages
    BY <1>1
  <2>2. \A i \in DOMAIN mailbox : IsQuestion(mailbox[i]) =>
          mailbox[i].peer \in Peers /\ pc[mailbox[i].peer] \in {"asking", "asked"}
    BY <2>1, MessageFields DEF QuestionsFit, IsQuestion
  <2> QED
    BY <2>2
<1>3. \A i \in DOMAIN mailbox :
        /\ mailbox'[i].type = "GetBitfield" => pc'[mailbox'[i].peer] = "asking"
        /\ mailbox'[i].type = "IsInteresting" =>
              /\ pc'[mailbox'[i].peer] = "asked"
              /\ answer'[mailbox'[i].peer] = "none"
              /\ mailbox'[i].bitfield = peer_bitfield'[mailbox'[i].peer]
  BY <1>1, <1>2 DEF QuestionsFit, IsQuestion
<1>4. \A i, j \in DOMAIN mailbox' :
        IsQuestion(mailbox'[i]) /\ IsQuestion(mailbox'[j])
          /\ mailbox'[i].peer = mailbox'[j].peer => i = j
  BY <1>1, <1>2 DEF QuestionsFit
<1>5. LET n == mailbox'[Len(mailbox) + 1] IN
        /\ n.type = "GetBitfield" => pc'[n.peer] = "asking"
        /\ n.type = "IsInteresting" => /\ pc'[n.peer] = "asked"
                                       /\ answer'[n.peer] = "none"
                                       /\ n.bitfield = peer_bitfield'[n.peer]
  BY <1>1 DEF IsQuestion
<1> QED
  BY <1>1, <1>3, <1>4, <1>5 DEF QuestionsFit, IsQuestion

(* A connection that waits for no answer has no question in the mailbox.   *)
LEMMA NoQuestionOut ==
  ASSUME TypeOK, QuestionsFit, NEW c \in Peers, UNCHANGED mailbox,
         pc[c] # "asking", pc[c] # "asked" \/ answer[c] # "none",
         \A d \in Peers \ {c} : /\ pc'[d] = pc[d] /\ answer'[d] = answer[d]
                                /\ peer_bitfield'[d] = peer_bitfield[d]
  PROVE  QuestionsFit'
<1>1. \A i \in DOMAIN mailbox : IsQuestion(mailbox[i]) => mailbox[i].peer \in Peers
  <2>1. \A i \in DOMAIN mailbox : mailbox[i] \in Messages
    BY DEF TypeOK
  <2> QED
    BY <2>1, MessageFields DEF IsQuestion
<1>2. \A i \in DOMAIN mailbox : IsQuestion(mailbox[i]) => mailbox[i].peer \in Peers \ {c}
  BY <1>1 DEF QuestionsFit, IsQuestion
<1> QED
  BY <1>2 DEF QuestionsFit, IsQuestion

LEMMA NextKeepsQuestions == QuestionInv /\ [Next]_vars => QuestionInv'
<1> SUFFICES ASSUME QuestionInv, [Next]_vars
             PROVE  QuestionInv'
  OBVIOUS
<1>0. AnnounceTypes' /\ TypeOK /\ QuestionsFit /\ AnswersAwaited
  BY NextKeepsAnnounceTypes DEF QuestionInv, AnnounceTypes
<1>1. SUFFICES QuestionsFit' /\ AnswersAwaited'
  BY <1>0 DEF QuestionInv
<1> USE <1>0
<1>2. ASSUME UNCHANGED <<mailbox, pc, answer, peer_bitfield>>
      PROVE  QuestionsFit' /\ AnswersAwaited'
  BY <1>2 DEF QuestionsFit, AnswersAwaited, IsQuestion
<1>3. CASE StartManager \/ FinishFinalize \/ UNCHANGED vars
  BY <1>2, <1>3 DEF StartManager, FinishFinalize, vars, connVars
<1>4. CASE HandleVerified
  <2>1. Received("PieceVerified") /\ UNCHANGED <<pc, answer, peer_bitfield>>
    BY <1>4 DEF HandleVerified, connVars
  <2>2. QuestionsFit'
    BY <2>1, OthersStillFit DEF QuestionsFit, IsQuestion
  <2>3. AnswersAwaited'
    BY <2>1 DEF AnswersAwaited
  <2> QED
    BY <2>2, <2>3
<1>5. CASE HandleGetBitfield
  <2> DEFINE c == Head(mailbox).peer
  <2>1. /\ Received("GetBitfield") /\ c \in Peers /\ IsQuestion(Head(mailbox))
        /\ UNCHANGED <<answer, peer_bitfield>>
        /\ pc' = [pc EXCEPT ![c] = "subscribed"]
    BY <1>5, ReceivedIsMessage, MessageFields DEF HandleGetBitfield, Goto, IsQuestion
  <2>2. pc[c] = "asking"
    BY <2>1, ReceivedIsMessage, TailOfMailbox DEF QuestionsFit
  <2>3. \A d \in Peers \ {c} : pc'[d] = pc[d]
    BY <2>1 DEF TypeOK
  <2>4. QuestionsFit'
    <3> HIDE DEF c
    <3>1. \A i \in DOMAIN mailbox' : IsQuestion(mailbox'[i]) =>
            mailbox'[i].peer \in Peers \ {c}
      BY <2>1, OthersStillFit DEF c
    <3> QED
      BY <2>1, <2>3, <3>1, OthersStillFit DEF QuestionsFit, IsQuestion
  <2>5. AnswersAwaited'
    BY <2>1, <2>2, <2>3 DEF AnswersAwaited
  <2> QED
    BY <2>4, <2>5
<1>6. CASE HandleIsInteresting
  <2> DEFINE c == Head(mailbox).peer
  <2>1. /\ Received("IsInteresting") /\ c \in Peers /\ IsQuestion(Head(mailbox))
        /\ UNCHANGED <<pc, peer_bitfield>>
        /\ \A d \in Peers \ {c} : answer'[d] = answer[d]
    BY <1>6, ReceivedIsMessage, MessageFields DEF HandleIsInteresting, IsQuestion, TypeOK
  <2>2. pc[c] = "asked"
    BY <2>1, ReceivedIsMessage, TailOfMailbox DEF QuestionsFit
  <2>3. QuestionsFit'
    <3> HIDE DEF c
    <3>1. \A i \in DOMAIN mailbox' : IsQuestion(mailbox'[i]) =>
            mailbox'[i].peer \in Peers \ {c}
      BY <2>1, OthersStillFit DEF c
    <3> QED
      BY <2>1, <3>1, OthersStillFit DEF QuestionsFit, IsQuestion
  <2>4. AnswersAwaited'
    BY <2>1, <2>2 DEF AnswersAwaited
  <2> QED
    BY <2>3, <2>4
<1>7. ASSUME NEW p \in Pieces, ReportPiece(p)
      PROVE  QuestionsFit' /\ AnswersAwaited'
  <2> DEFINE m == [type |-> "PieceVerified", piece |-> p]
  <2>1. m \in Messages /\ ~IsQuestion(m) /\ Send(m) /\ UNCHANGED <<pc, answer, peer_bitfield>>
    BY <1>7, QuestionsAreMessages DEF ReportPiece, connVars, IsQuestion
  <2>2. QuestionsFit'
    BY <2>1, OneMoreFits
  <2> QED
    BY <2>1, <2>2 DEF AnswersAwaited
<1>8. ASSUME NEW c \in Peers, AskForBitfield(c)
      PROVE  QuestionsFit' /\ AnswersAwaited'
  <2> DEFINE m == [type |-> "GetBitfield", peer |-> c]
  <2>1. /\ m \in Messages /\ Send(m) /\ pc[c] = "down"
        /\ pc'[c] = "asking" /\ (\A d \in Peers \ {c} : pc'[d] = pc[d])
        /\ UNCHANGED <<answer, peer_bitfield>>
    BY <1>8, QuestionsAreMessages DEF AskForBitfield, Goto, TypeOK
  <2>2. QuestionsFit'
    BY <2>1, OneMoreFits DEF IsQuestion
  <2> QED
    BY <2>1, <2>2 DEF AnswersAwaited
<1>9. ASSUME NEW c \in Peers, AskInterest(c)
      PROVE  QuestionsFit' /\ AnswersAwaited'
  <2> DEFINE m == [type |-> "IsInteresting", peer |-> c, bitfield |-> peer_bitfield[c]]
  <2>1. /\ m \in Messages /\ Send(m) /\ pc[c] = "update_interest"
        /\ pc'[c] = "asked" /\ (\A d \in Peers \ {c} : pc'[d] = pc[d])
        /\ UNCHANGED <<answer, peer_bitfield>>
    BY <1>9, QuestionsAreMessages DEF AskInterest, Goto, TypeOK
  <2>2. answer[c] = "none"
    BY <2>1 DEF AnswersAwaited
  <2>3. QuestionsFit'
    BY <2>1, <2>2, OneMoreFits DEF IsQuestion
  <2> QED
    BY <2>1, <2>3 DEF AnswersAwaited
<1>10. ASSUME NEW c \in Peers,
              \/ \E bits \in SUBSET Pieces : ReceiveBitfield(c, bits)
              \/ \E p \in Pieces : ReceiveHave(c, p)
              \/ SendBitfield(c) \/ TellInterest(c) \/ HandlePieceEvent(c)
              \/ Lagged(c) \/ Disconnect(c)
       PROVE  QuestionsFit' /\ AnswersAwaited'
  <2>1. /\ UNCHANGED mailbox
        /\ pc[c] # "asking" /\ (pc[c] # "asked" \/ answer[c] # "none")
        /\ \A d \in Peers \ {c} : /\ pc'[d] = pc[d] /\ answer'[d] = answer[d]
                                  /\ peer_bitfield'[d] = peer_bitfield[d]
    BY <1>10 DEF ReceiveBitfield, ReceiveHave, SendBitfield, TellInterest, HandlePieceEvent,
                 Lagged, Disconnect, Goto, TypeOK
  <2>2. answer'[c] = "none"
    BY <1>10 DEF ReceiveBitfield, ReceiveHave, SendBitfield, TellInterest, HandlePieceEvent,
                 Lagged, Disconnect, TypeOK, AnswersAwaited
  <2>3. QuestionsFit'
    BY <2>1, NoQuestionOut
  <2> QED
    BY <2>1, <2>2, <2>3 DEF AnswersAwaited
<1> QED
  BY <1>3, <1>4, <1>5, <1>6, <1>7, <1>8, <1>9, <1>10 DEF Next, Manager, Connection, Progress

(* No connection has two questions out, and none changes what it asked     *)
(* about while it waits: an answer always meets the connection it is for.  *)
THEOREM QuestionsHold == Spec => []QuestionInv
BY InitQuestions, NextKeepsQuestions, PTL DEF Spec

-----------------------------------------------------------------------------
(* The account of complete pieces.                                         *)

AccountInv ==
  /\ QuestionInv
  /\ CursorsInLog
  /\ NobodyIsEarly
  /\ BlankBefore
  /\ EveryPieceIsAnnounced

(* A report either changes nothing a peer is told, or completes one piece  *)
(* and sends one event.                                                    *)
LEMMA VerifiedAppends ==
  ASSUME NEW p, NEW peer, piece_verified(p, peer)
  PROVE  /\ extracted' = extracted
         /\ \/ UNCHANGED <<phase, complete, piece_events>>
            \/ /\ complete' = complete \cup {p}
               /\ piece_events' = Append(piece_events, p)
               /\ phase' # "starting"
BY DEF piece_verified, SecondReport

LEMMA SamePending ==
  ASSUME NEW c, UNCHANGED piece_events, cursor'[c] = cursor[c]
  PROVE  PendingEvents(c)' = PendingEvents(c) /\ Behind(c)' = Behind(c)
BY DEF PendingEvents, Behind

LEMMA OneMorePending ==
  ASSUME NEW c, NEW p \in Pieces, piece_events \in Seq(Pieces),
         cursor[c] \in Nat, cursor[c] <= Len(piece_events), cursor'[c] = cursor[c],
         piece_events' = Append(piece_events, p)
  PROVE  /\ PendingEvents(c)' = PendingEvents(c) \cup {p}
         /\ cursor'[c] <= Len(piece_events)'
         /\ Behind(c)' > 0
<1>1. /\ Len(piece_events)' = Len(piece_events) + 1
      /\ piece_events'[Len(piece_events) + 1] = p
      /\ \A i \in 1 .. Len(piece_events) : piece_events'[i] = piece_events[i]
      /\ Len(piece_events) \in Nat
  OBVIOUS
<1>2. cursor[c] + 1 .. Len(piece_events) + 1
        = (cursor[c] + 1 .. Len(piece_events)) \cup {Len(piece_events) + 1}
  BY <1>1
<1>3. \A i \in cursor[c] + 1 .. Len(piece_events) : i \in 1 .. Len(piece_events)
  BY <1>1
<1>4. PendingEvents(c)' = PendingEvents(c) \cup {p}
  BY <1>1, <1>2, <1>3 DEF PendingEvents
<1> QED
  BY <1>1, <1>4 DEF Behind

(* Taking the events up to position n moves their pieces out of the        *)
(* pending ones.                                                           *)
LEMMA TakeEvents ==
  ASSUME NEW c, NEW n \in Nat, UNCHANGED piece_events, piece_events \in Seq(Pieces),
         cursor[c] \in Nat, cursor[c] <= n, n <= Len(piece_events), cursor'[c] = n
  PROVE  PendingEvents(c)
           = {piece_events[i] : i \in cursor[c] + 1 .. n} \cup PendingEvents(c)'
<1>1. cursor[c] + 1 .. Len(piece_events)
        = (cursor[c] + 1 .. n) \cup (n + 1 .. Len(piece_events))
  OBVIOUS
<1> QED
  BY <1>1 DEF PendingEvents

LEMMA InitAccount == Init => AccountInv
<1> SUFFICES ASSUME Init
             PROVE  AccountInv
  OBVIOUS
<1>1. \A c \in Peers : ~Subscribed(c) /\ cursor[c] = 0
  BY DEF Init, Subscribed
<1>2. Len(piece_events) = 0
  BY DEF Init, InitManager
<1> QED
  BY <1>1, <1>2, InitQuestions
     DEF AccountInv, CursorsInLog, NobodyIsEarly, BlankBefore, EveryPieceIsAnnounced, Unsent, Init

(* A step that only concerns connection c keeps the account when it keeps  *)
(* that of c.                                                              *)
LEMMA OnlyOneMoves ==
  ASSUME AccountInv, QuestionInv', NEW c \in Peers, UNCHANGED managerVars,
         phase # "starting" \/ ~Subscribed(c)',
         \A d \in Peers \ {c} : /\ pc'[d] = pc[d] /\ cursor'[d] = cursor[d]
                                /\ snapshot'[d] = snapshot[d] /\ told'[d] = told[d]
                                /\ skipped'[d] = skipped[d],
         cursor'[c] <= Len(piece_events),
         Unsent(c)' => told'[c] = {} /\ skipped'[c] = {},
         Subscribed(c)' =>
           complete = snapshot'[c] \cup told'[c] \cup PendingEvents(c)' \cup skipped'[c]
  PROVE  AccountInv'
<1> USE DEF managerVars
<1>1. \A d \in Peers \ {c} : /\ PendingEvents(d)' = PendingEvents(d)
                             /\ Subscribed(d)' = Subscribed(d) /\ Unsent(d)' = Unsent(d)
  BY SamePending DEF Subscribed, Unsent
<1>2. CursorsInLog'
  BY DEF AccountInv, CursorsInLog
<1>3. NobodyIsEarly'
  BY <1>1 DEF AccountInv, NobodyIsEarly
<1>4. BlankBefore'
  BY <1>1 DEF AccountInv, BlankBefore
<1>5. EveryPieceIsAnnounced'
  BY <1>1 DEF AccountInv, EveryPieceIsAnnounced
<1> QED
  BY <1>2, <1>3, <1>4, <1>5 DEF AccountInv

LEMMA ConnectionKeepsAccount ==
  ASSUME AccountInv, QuestionInv', NEW c \in Peers, Connection(c)
  PROVE  AccountInv'
<1>0. /\ TypeOK /\ ManagerTypeOK /\ UNCHANGED managerVars
      /\ piece_events \in Seq(Pieces) /\ Len(piece_events) \in Nat /\ cursor[c] \in Nat
      /\ cursor[c] <= Len(piece_events)
  <2>1. AnnounceTypes /\ CursorsInLog
    BY DEF AccountInv, QuestionInv
  <2>2. UNCHANGED managerVars
    BY <2>1, ConnectionKeepsAnnounceTypes
  <2> QED
    BY <2>1, <2>2 DEF AnnounceTypes, TypeOK, ManagerTypeOK, CursorsInLog
<1>1. /\ NobodyIsEarly
      /\ Unsent(c) => told[c] = {} /\ skipped[c] = {}
      /\ Subscribed(c) =>
           complete = snapshot[c] \cup told[c] \cup PendingEvents(c) \cup skipped[c]
      /\ Subscribed(c) => phase # "starting"
  BY DEF AccountInv, BlankBefore, EveryPieceIsAnnounced, NobodyIsEarly
<1> USE <1>0, <1>1 DEF TypeOK, managerVars
<1>2. CASE AskForBitfield(c) \/ AskInterest(c) \/ TellInterest(c)
           \/ (\E bits \in SUBSET Pieces : ReceiveBitfield(c, bits))
           \/ (\E p \in Pieces : ReceiveHave(c, p))
  <2>1. /\ \A d \in Peers \ {c} : pc'[d] = pc[d]
        /\ UNCHANGED <<cursor, snapshot, told, skipped>>
        /\ Subscribed(c)' = Subscribed(c) /\ (Unsent(c)' => Unsent(c))
    BY <1>2 DEF AskForBitfield, AskInterest, TellInterest, ReceiveBitfield, ReceiveHave,
                Goto, Subscribed, Unsent
  <2>2. PendingEvents(c)' = PendingEvents(c)
    BY <2>1, SamePending
  <2> QED
    BY <2>1, <2>2, OnlyOneMoves
<1>3. CASE SendBitfield(c)
  <2>1. /\ \A d \in Peers \ {c} : /\ pc'[d] = pc[d] /\ snapshot'[d] = snapshot[d]
                                  /\ told'[d] = told[d]
        /\ told'[c] = snapshot[c] /\ snapshot'[c] = {}
        /\ UNCHANGED <<cursor, skipped>>
        /\ Subscribed(c) /\ Subscribed(c)' /\ Unsent(c) /\ ~Unsent(c)'
    BY <1>3 DEF SendBitfield, Goto, Subscribed, Unsent
  <2>2. PendingEvents(c)' = PendingEvents(c)
    BY <2>1, SamePending
  <2> QED
    BY <2>1, <2>2, OnlyOneMoves
<1>4. CASE HandlePieceEvent(c)
  <2> DEFINE n == cursor[c] + 1
  <2>1. n \in Nat /\ n <= Len(piece_events)
    BY <1>4, ChannelAssumption DEF HandlePieceEvent, Behind
  <2>0. cursor[c] \in Nat /\ cursor[c] <= n /\ n = cursor[c] + 1
    OBVIOUS
  <2>2. /\ \A d \in Peers \ {c} : /\ pc'[d] = pc[d] /\ cursor'[d] = cursor[d]
                                  /\ told'[d] = told[d]
        /\ told'[c] = told[c] \cup {piece_events[n]} /\ cursor'[c] = n
        /\ UNCHANGED <<snapshot, skipped>>
        /\ Subscribed(c) /\ Subscribed(c)' /\ ~Unsent(c)'
    BY <1>4 DEF HandlePieceEvent, Goto, Subscribed, Unsent
  <2> HIDE DEF n
  <2>3. PendingEvents(c)
          = {piece_events[i] : i \in cursor[c] + 1 .. n} \cup PendingEvents(c)'
    BY <2>0, <2>1, <2>2, TakeEvents
  <2>4. {piece_events[i] : i \in cursor[c] + 1 .. n} = {piece_events[n]}
    BY <2>0, <2>1
  <2> QED
    BY <2>1, <2>2, <2>3, <2>4, OnlyOneMoves
<1>5. CASE Lagged(c)
  <2> DEFINE n == Len(piece_events) - EventChannelSize
             gone == {piece_events[i] : i \in cursor[c] + 1 .. n}
  <2>1. n \in Nat /\ cursor[c] <= n /\ n <= Len(piece_events)
    BY <1>5, ChannelAssumption DEF Lagged, Behind
  <2>2. /\ UNCHANGED <<pc, snapshot, told>>
        /\ \A d \in Peers \ {c} : cursor'[d] = cursor[d] /\ skipped'[d] = skipped[d]
        /\ cursor'[c] = n /\ skipped'[c] = skipped[c] \cup gone
        /\ Subscribed(c) /\ Subscribed(c)' /\ ~Unsent(c)'
    BY <1>5 DEF Lagged, Subscribed, Unsent
  <2>3. PendingEvents(c) = gone \cup PendingEvents(c)'
    BY <2>1, <2>2, TakeEvents
  <2> HIDE DEF n, gone
  <2> QED
    BY <2>1, <2>2, <2>3, OnlyOneMoves
<1>6. CASE Disconnect(c)
  <2>1. /\ \A d \in Peers \ {c} : /\ pc'[d] = pc[d] /\ cursor'[d] = cursor[d]
                                  /\ snapshot'[d] = snapshot[d] /\ told'[d] = told[d]
                                  /\ skipped'[d] = skipped[d]
        /\ cursor'[c] = 0 /\ told'[c] = {} /\ skipped'[c] = {}
        /\ ~Subscribed(c)' /\ 0 <= Len(piece_events)
    BY <1>6 DEF Disconnect, Goto, Subscribed, Unsent
  <2> QED
    BY <2>1, OnlyOneMoves
<1> QED
  BY <1>2, <1>3, <1>4, <1>5, <1>6 DEF Connection, Progress

LEMMA ManagerKeepsAccount ==
  ASSUME AccountInv, QuestionInv', Manager
  PROVE  AccountInv'
<1>0. /\ TypeOK /\ ManagerInv /\ piece_events \in Seq(Pieces)
      /\ \A c \in Peers : cursor[c] \in Nat /\ cursor[c] <= Len(piece_events)
  BY DEF AccountInv, QuestionInv, AnnounceTypes, TypeOK, ManagerTypeOK, CursorsInLog
<1>1. ASSUME UNCHANGED <<phase, complete, piece_events, connVars>>
      PROVE  AccountInv'
  <2>1. \A c \in Peers : /\ PendingEvents(c)' = PendingEvents(c)
                        /\ Subscribed(c)' = Subscribed(c)
    BY <1>1, SamePending DEF Subscribed, connVars
  <2> QED
    BY <1>1, <2>1 DEF AccountInv, CursorsInLog, NobodyIsEarly, BlankBefore,
                      EveryPieceIsAnnounced, Unsent, connVars
<1>2. CASE StartManager
  <2>1. phase = "starting" /\ phase' = "serving" /\ UNCHANGED <<piece_events, connVars>>
    BY <1>2 DEF StartManager, adopt_stored
  <2>2. \A c \in Peers : ~Subscribed(c) /\ ~Subscribed(c)'
    BY <2>1 DEF AccountInv, NobodyIsEarly, Subscribed, connVars
  <2> QED
    BY <2>1, <2>2 DEF AccountInv, CursorsInLog, NobodyIsEarly, BlankBefore,
                      EveryPieceIsAnnounced, Unsent, connVars
<1>3. CASE HandleVerified
  <2> DEFINE p == Head(mailbox).piece
  <2>1. /\ p \in Pieces /\ UNCHANGED connVars
        /\ \E peer \in Peers : piece_verified(p, peer)
    BY <1>0, <1>3, ReceivedIsMessage, MessageFields DEF HandleVerified
  <2> HIDE DEF p
  <2>2. CASE UNCHANGED <<phase, complete, piece_events>>
    BY <1>1, <2>1, <2>2
  <2>3. CASE /\ complete' = complete \cup {p}
             /\ piece_events' = Append(piece_events, p)
             /\ phase' # "starting"
    <3>1. \A c \in Peers : /\ PendingEvents(c)' = PendingEvents(c) \cup {p}
                          /\ cursor'[c] <= Len(piece_events)'
                          /\ Subscribed(c)' = Subscribed(c)
      BY <1>0, <2>1, <2>3, OneMorePending DEF connVars, Subscribed
    <3> QED
      BY <2>1, <2>3, <3>1 DEF AccountInv, CursorsInLog, NobodyIsEarly, BlankBefore,
                              EveryPieceIsAnnounced, Unsent, connVars
  <2> QED
    BY <2>1, <2>2, <2>3, VerifiedAppends
<1>4. CASE FinishFinalize
  <2>1. /\ phase' # "starting" /\ UNCHANGED <<complete, piece_events, connVars>>
        /\ phase # "starting"
    BY <1>4 DEF FinishFinalize, FinalizeReturns
  <2>2. \A c \in Peers : /\ PendingEvents(c)' = PendingEvents(c)
                        /\ Subscribed(c)' = Subscribed(c)
    BY <2>1, SamePending DEF Subscribed, connVars
  <2> QED
    BY <2>1, <2>2 DEF AccountInv, CursorsInLog, NobodyIsEarly, BlankBefore,
                      EveryPieceIsAnnounced, Unsent, connVars
<1>5. CASE HandleGetBitfield
  <2>1. PICK c \in Peers :
        /\ Received("GetBitfield") /\ Head(mailbox).peer = c /\ UNCHANGED <<managerVars, skipped, told>>
        /\ pc' = [pc EXCEPT ![c] = "subscribed"]
        /\ snapshot' = [snapshot EXCEPT ![c] = bitfield]
        /\ cursor' = [cursor EXCEPT ![c] = Len(piece_events)]
    BY <1>0, <1>5, ReceivedIsMessage, MessageFields DEF HandleGetBitfield, Goto
  <2>2. pc[c] = "asking" /\ phase = "serving"
    BY <1>0, <2>1, ReceivedIsMessage, TailOfMailbox DEF AccountInv, QuestionInv, QuestionsFit
  <2>3. told[c] = {} /\ skipped[c] = {}
    BY <2>1, <2>2 DEF AccountInv, BlankBefore, Unsent
  <2>4. /\ \A d \in Peers \ {c} : /\ pc'[d] = pc[d] /\ cursor'[d] = cursor[d]
                                  /\ snapshot'[d] = snapshot[d]
        /\ cursor'[c] = Len(piece_events) /\ snapshot'[c] = bitfield
        /\ Subscribed(c)'
    BY <1>0, <2>1 DEF TypeOK, Subscribed
  <2>7. bitfield = complete
    BY <1>0 DEF ManagerInv, CachedViewsAgree
  <2>5. PendingEvents(c)' = {}
    <3>1. Len(piece_events) + 1 .. Len(piece_events) = {}
      BY <1>0
    <3> QED
      BY <2>1, <2>4, <3>1 DEF PendingEvents, managerVars
  <2>6. Len(piece_events) \in Nat
    BY <1>0
  <2> QED
    BY <2>1, <2>2, <2>3, <2>4, <2>5, <2>6, <2>7, OnlyOneMoves
<1>6. CASE HandleIsInteresting
  BY <1>6, SamePending DEF HandleIsInteresting, AccountInv, CursorsInLog, NobodyIsEarly,
     BlankBefore, EveryPieceIsAnnounced, Unsent, Subscribed, managerVars, PendingEvents
<1> QED
  BY <1>2, <1>3, <1>4, <1>5, <1>6 DEF Manager

LEMMA NextKeepsAccount == AccountInv /\ [Next]_vars => AccountInv'
<1> SUFFICES ASSUME AccountInv, [Next]_vars
             PROVE  AccountInv'
  OBVIOUS
<1>1. QuestionInv'
  BY NextKeepsQuestions DEF AccountInv
<1>2. ASSUME UNCHANGED <<managerVars, connVars>>
      PROVE  AccountInv'
  BY <1>1, <1>2 DEF AccountInv, CursorsInLog, NobodyIsEarly, BlankBefore,
     EveryPieceIsAnnounced, Unsent, Subscribed, managerVars, connVars, PendingEvents
<1> QED
  BY <1>1, <1>2, ManagerKeepsAccount, ConnectionKeepsAccount DEF Next, ReportPiece, vars

(* No complete piece is lost between the snapshot a peer is sent and the   *)
(* subscription behind it, and none is announced early, for any number of  *)
(* pieces and connections and whatever the event channel holds.            *)
THEOREM AccountHolds == Spec => []AccountInv
BY InitAccount, NextKeepsAccount, PTL DEF Spec

THEOREM PiecesAnnounced == Spec => []EveryPieceIsAnnounced
BY AccountHolds, PTL DEF AccountInv

-----------------------------------------------------------------------------
(* Interest.                                                               *)

InterestInv == AccountInv /\ AnswersFit /\ InterestIsCurrent

(* What AnswersFit and InterestIsCurrent say of one connection.            *)
AnswerFits(c) ==
  answer[c] # "none" =>
    /\ pc[c] = "asked"
    /\ Behind(c) = 0 => (answer[c] = "yes" <=> is_interesting(peer_bitfield[c]))

InterestFits(c) ==
  pc[c] = "loop" /\ Behind(c) = 0 => am_interested[c] = is_interesting(peer_bitfield[c])

LEMMA InitInterest == Init => InterestInv
BY InitAccount DEF InterestInv, AnswersFit, InterestIsCurrent, Init

(* Where nothing completes and nothing of c changes, c stays as it was.    *)
LEMMA SameInterest ==
  ASSUME NEW c, UNCHANGED <<complete, piece_events>>,
         pc'[c] = pc[c], cursor'[c] = cursor[c], peer_bitfield'[c] = peer_bitfield[c],
         am_interested'[c] = am_interested[c], answer'[c] = answer[c]
  PROVE  AnswerFits(c)' = AnswerFits(c) /\ InterestFits(c)' = InterestFits(c)
BY DEF AnswerFits, InterestFits, Behind, is_interesting

LEMMA ManagerKeepsInterest ==
  ASSUME InterestInv, Manager, NEW c \in Peers
  PROVE  AnswerFits(c)' /\ InterestFits(c)'
<1>0. /\ TypeOK /\ ManagerInv /\ QuestionsFit /\ AnswerFits(c) /\ InterestFits(c)
      /\ piece_events \in Seq(Pieces) /\ cursor[c] \in Nat /\ cursor[c] <= Len(piece_events)
  BY DEF InterestInv, AccountInv, QuestionInv, AnnounceTypes, TypeOK, ManagerTypeOK,
         CursorsInLog, AnswersFit, InterestIsCurrent, AnswerFits, InterestFits
<1>1. CASE StartManager
  <2>1. phase = "starting" /\ UNCHANGED connVars
    BY <1>1 DEF StartManager, adopt_stored
  <2>2. ~Subscribed(c)
    BY <2>1 DEF InterestInv, AccountInv, NobodyIsEarly
  <2> QED
    BY <1>0, <2>1, <2>2 DEF AnswerFits, InterestFits, Subscribed, connVars
<1>2. CASE HandleVerified
  <2> DEFINE p == Head(mailbox).piece
  <2>1. /\ p \in Pieces /\ UNCHANGED connVars
        /\ \E peer \in Peers : piece_verified(p, peer)
    BY <1>0, <1>2, ReceivedIsMessage, MessageFields DEF HandleVerified
  <2> HIDE DEF p
  <2>2. CASE UNCHANGED <<phase, complete, piece_events>>
    BY <1>0, <2>1, <2>2, SameInterest DEF connVars
  <2>3. CASE piece_events' = Append(piece_events, p)
    <3>1. Behind(c)' > 0
      BY <1>0, <2>1, <2>3, OneMorePending DEF connVars
    <3>2. Behind(c)' # 0
      BY <3>1
    <3> QED
      BY <1>0, <2>1, <3>2 DEF AnswerFits, InterestFits, connVars
  <2> QED
    BY <2>1, <2>2, <2>3, VerifiedAppends
<1>3. CASE FinishFinalize
  BY <1>0, <1>3, SameInterest DEF FinishFinalize, FinalizeReturns, connVars
<1>4. CASE HandleGetBitfield
  <2>1. PICK d \in Peers :
        /\ Received("GetBitfield") /\ Head(mailbox).peer = d
        /\ UNCHANGED <<managerVars, peer_bitfield, am_interested, answer>>
        /\ pc' = [pc EXCEPT ![d] = "subscribed"]
        /\ cursor' = [cursor EXCEPT ![d] = Len(piece_events)]
    BY <1>0, <1>4, ReceivedIsMessage, MessageFields DEF HandleGetBitfield, Goto
  <2>2. pc[d] = "asking"
    <3>1. Head(mailbox) = mailbox[1] /\ 1 \in DOMAIN mailbox
      BY <1>0, <2>1, ReceivedIsMessage, TailOfMailbox
    <3>2. Head(mailbox).type = "GetBitfield"
      BY <2>1 DEF Received
    <3> QED
      BY <1>0, <2>1, <3>1, <3>2 DEF QuestionsFit
  <2>3. CASE d = c
    BY <1>0, <2>1, <2>2, <2>3 DEF AnswerFits, InterestFits, TypeOK
  <2>4. CASE d # c
    BY <1>0, <2>1, <2>4, SameInterest DEF managerVars, TypeOK
  <2> QED
    BY <2>3, <2>4
<1>5. CASE HandleIsInteresting
  <2>1. PICK d \in Peers :
        /\ Received("IsInteresting") /\ Head(mailbox).peer = d
        /\ UNCHANGED <<managerVars, pc, cursor, peer_bitfield, am_interested>>
        /\ answer' = [answer EXCEPT ![d] =
                        IF is_interesting(Head(mailbox).bitfield) THEN "yes" ELSE "no"]
    BY <1>0, <1>5, ReceivedIsMessage, MessageFields DEF HandleIsInteresting
  <2>2. pc[d] = "asked" /\ Head(mailbox).bitfield = peer_bitfield[d]
    <3>1. Head(mailbox) = mailbox[1] /\ 1 \in DOMAIN mailbox
      BY <1>0, <2>1, ReceivedIsMessage, TailOfMailbox
    <3>2. Head(mailbox).type = "IsInteresting"
      BY <2>1 DEF Received
    <3> QED
      BY <1>0, <2>1, <3>1, <3>2 DEF QuestionsFit
  <2>3. CASE d = c
    <3>1. /\ answer'[c] = IF is_interesting(peer_bitfield[c]) THEN "yes" ELSE "no"
          /\ pc'[c] = "asked"
      BY <1>0, <2>1, <2>2, <2>3 DEF TypeOK
    <3> QED
      BY <2>1, <3>1 DEF AnswerFits, InterestFits, is_interesting, managerVars
  <2>4. CASE d # c
    BY <1>0, <2>1, <2>4, SameInterest DEF managerVars, TypeOK
  <2> QED
    BY <2>3, <2>4
<1> QED
  BY <1>1, <1>2, <1>3, <1>4, <1>5 DEF Manager

LEMMA ConnectionKeepsInterest ==
  ASSUME InterestInv, NEW d \in Peers, Connection(d), NEW c \in Peers
  PROVE  AnswerFits(c)' /\ InterestFits(c)'
<1>0. /\ TypeOK /\ AnswerFits(c) /\ InterestFits(c) /\ UNCHANGED managerVars
      /\ Len(piece_events) \in Nat /\ cursor[c] \in Nat
  <2>1. AnnounceTypes
    BY DEF InterestInv, AccountInv, QuestionInv
  <2>2. UNCHANGED managerVars
    BY <2>1, ConnectionKeepsAnnounceTypes
  <2> QED
    BY <2>1, <2>2 DEF InterestInv, AnnounceTypes, TypeOK, ManagerTypeOK, AnswersFit,
                      InterestIsCurrent, AnswerFits, InterestFits
<1>1. CASE d # c
  <2>1. /\ pc'[c] = pc[c] /\ cursor'[c] = cursor[c] /\ peer_bitfield'[c] = peer_bitfield[c]
        /\ am_interested'[c] = am_interested[c] /\ answer'[c] = answer[c]
    BY <1>0, <1>1 DEF Connection, Progress, AskForBitfield, ReceiveBitfield, ReceiveHave,
       SendBitfield, AskInterest, TellInterest, HandlePieceEvent, Lagged, Disconnect, Goto,
       TypeOK
  <2> QED
    BY <1>0, <2>1, SameInterest DEF managerVars
<1>2. CASE d = c
  <2>1. CASE TellInterest(c)
    <3>1. /\ answer[c] # "none" /\ answer'[c] = "none"
          /\ am_interested'[c] = (answer[c] = "yes")
          /\ UNCHANGED <<complete, piece_events, cursor, peer_bitfield>>
      BY <1>0, <2>1 DEF TellInterest, TypeOK, managerVars
    <3>2. Behind(c)' = Behind(c)
      BY <3>1 DEF Behind
    <3>3. AnswerFits(c)'
      BY <3>1 DEF AnswerFits
    <3>4. Behind(c) = 0 => (answer[c] = "yes" <=> is_interesting(peer_bitfield[c]))
      BY <1>0, <3>1 DEF AnswerFits
    <3>5. InterestFits(c)'
      BY <3>1, <3>2, <3>4 DEF InterestFits, is_interesting
    <3> QED
      BY <3>3, <3>5
  <2>2. CASE Lagged(c)
    <3>1. /\ UNCHANGED <<pc, answer>>
          /\ pc[c] = "loop"
          /\ cursor'[c] = Len(piece_events) - EventChannelSize
          /\ UNCHANGED piece_events
      BY <1>0, <2>2 DEF Lagged, TypeOK, managerVars
    <3>2. Behind(c)' # 0
      BY <1>0, <3>1, ChannelAssumption DEF Behind
    <3> QED
      BY <1>0, <3>1, <3>2 DEF AnswerFits, InterestFits
  <2>3. CASE AskForBitfield(c) \/ AskInterest(c) \/ SendBitfield(c) \/ HandlePieceEvent(c)
             \/ (\E bits \in SUBSET Pieces : ReceiveBitfield(c, bits))
             \/ (\E p \in Pieces : ReceiveHave(c, p)) \/ Disconnect(c)
    <3>1. answer'[c] = answer[c] /\ pc[c] # "asked" /\ pc'[c] # "loop"
      BY <1>0, <2>3 DEF AskForBitfield, AskInterest, SendBitfield, HandlePieceEvent,
         ReceiveBitfield, ReceiveHave, Disconnect, Goto, TypeOK
    <3> QED
      BY <1>0, <1>2, <3>1 DEF AnswerFits, InterestFits
  <2> QED
    BY <1>2, <2>1, <2>2, <2>3 DEF Connection, Progress
<1> QED
  BY <1>1, <1>2

LEMMA NextKeepsInterest == InterestInv /\ [Next]_vars => InterestInv'
<1> SUFFICES ASSUME InterestInv, [Next]_vars
             PROVE  InterestInv'
  OBVIOUS
<1>1. AccountInv'
  BY NextKeepsAccount DEF InterestInv
<1>2. \A c \in Peers : AnswerFits(c)' /\ InterestFits(c)'
  <2> SUFFICES ASSUME NEW c \in Peers
               PROVE  AnswerFits(c)' /\ InterestFits(c)'
    OBVIOUS
  <2>1. CASE UNCHANGED <<managerVars, connVars>>
    <3>1. AnswerFits(c) /\ InterestFits(c)
      BY DEF InterestInv, AnswersFit, InterestIsCurrent, AnswerFits, InterestFits
    <3> QED
      BY <2>1, <3>1, SameInterest DEF managerVars, connVars
  <2> QED
    BY <2>1, ManagerKeepsInterest, ConnectionKeepsInterest DEF Next, ReportPiece, vars
<1> QED
  BY <1>1, <1>2 DEF InterestInv, AnswersFit, InterestIsCurrent, AnswerFits, InterestFits

(* The inductive invariant of Announcements.                               *)
THEOREM AnnounceInvariant == Spec => []AnnounceInv
<1>1. Spec => []InterestInv
  BY InitInterest, NextKeepsInterest, PTL DEF Spec
<1>2. InterestInv => AnnounceInv
  BY DEF InterestInv, AccountInv, QuestionInv, AnnounceTypes, AnnounceInv
<1> QED
  BY <1>1, <1>2, PTL

(* An answer about interest may be overtaken by a completion, yet whoever  *)
(* is back in its loop with no event left has told the peer the truth: for *)
(* any peers, pieces, mailbox and event channel, lagging or not.           *)
THEOREM InterestCurrent == Spec => []InterestIsCurrent
BY AnnounceInvariant, PTL DEF AnnounceInv
=============================================================================
