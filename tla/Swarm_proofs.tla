---------------------------- MODULE Swarm_proofs ----------------------------
(***************************************************************************)
(* The safety of claims (Swarm), proved for every number of connections,   *)
(* pieces and mailbox slots, with and without dropped tasks.  SwarmInv is  *)
(* inductive; each of its conjuncts that a step can disturb is followed    *)
(* through every action below.                                             *)
(***************************************************************************)
EXTENDS Swarm, PieceManager_proofs

-----------------------------------------------------------------------------
(* The mailbox.                                                            *)

(* Taking the head leaves every other message in place, one slot earlier.  *)
LEMMA TailOfMailbox ==
  ASSUME mailbox \in Seq(Messages), mailbox # <<>>, mailbox' = Tail(mailbox)
  PROVE  /\ mailbox' \in Seq(Messages)
         /\ Head(mailbox) \in Messages
         /\ Head(mailbox) = mailbox[1] /\ 1 \in DOMAIN mailbox
         /\ Len(mailbox') = Len(mailbox) - 1
         /\ \A i \in DOMAIN mailbox' : i + 1 \in DOMAIN mailbox /\ i + 1 # 1
                                       /\ mailbox'[i] = mailbox[i + 1]
         /\ \A i \in DOMAIN mailbox : i # 1 => i - 1 \in DOMAIN mailbox'
                                               /\ mailbox'[i - 1] = mailbox[i]
OBVIOUS

LEMMA AppendToMailbox ==
  ASSUME mailbox \in Seq(Messages), NEW m \in Messages,
         mailbox' = Append(mailbox, m)
  PROVE  /\ mailbox' \in Seq(Messages)
         /\ Len(mailbox') = Len(mailbox) + 1
         /\ DOMAIN mailbox' = DOMAIN mailbox \cup {Len(mailbox) + 1}
         /\ Len(mailbox) + 1 \notin DOMAIN mailbox
         /\ mailbox'[Len(mailbox) + 1] = m
         /\ \A i \in DOMAIN mailbox : mailbox'[i] = mailbox[i]
OBVIOUS

LEMMA MessageFields ==
  ASSUME NEW m \in Messages
  PROVE  /\ m.peer \in Peers
         /\ m.type = "ClaimPiece" => m.bitfield \in SUBSET Pieces
                                     /\ m.live \in BOOLEAN
         /\ m.type \in GiveBackTypes => m.piece \in Pieces
         /\ m.type \in GiveBackTypes \cup {"ClaimPiece"}
BY DEF Messages, GiveBackTypes

LEMMA GiveBackIsMessage ==
  ASSUME NEW t \in GiveBackTypes, NEW c \in Peers, NEW p \in Pieces
  PROVE  /\ GiveBack(t, c, p) \in Messages
         /\ GiveBack(t, c, p).type = t
         /\ GiveBack(t, c, p).peer = c
         /\ GiveBack(t, c, p).piece = p
BY DEF GiveBack, Messages

LEMMA ClaimIsMessage ==
  ASSUME NEW c \in Peers, NEW bits \in SUBSET Pieces
  PROVE  /\ ClaimPiece(c, bits) \in Messages
         /\ ClaimPiece(c, bits).type = "ClaimPiece"
         /\ ClaimPiece(c, bits).peer = c
         /\ ClaimPiece(c, bits).live = TRUE
BY DEF ClaimPiece, Messages

(* A dropped task leaves its claims in the mailbox with nobody waiting.    *)
LEMMA DropKeepsMessages ==
  ASSUME mailbox \in Seq(Messages), NEW c,
         mailbox' = [i \in DOMAIN mailbox |->
           IF mailbox[i].type = "ClaimPiece" /\ mailbox[i].peer = c
           THEN [mailbox[i] EXCEPT !.live = FALSE] ELSE mailbox[i]]
  PROVE  /\ mailbox' \in Seq(Messages)
         /\ Len(mailbox') = Len(mailbox)
         /\ DOMAIN mailbox' = DOMAIN mailbox
         /\ \A i \in DOMAIN mailbox :
              /\ mailbox'[i].type = mailbox[i].type
              /\ mailbox'[i].peer = mailbox[i].peer
              /\ mailbox[i].type # "ClaimPiece" => mailbox'[i] = mailbox[i]
              /\ LiveClaim(mailbox'[i], mailbox[i].peer) =>
                   LiveClaim(mailbox[i], mailbox[i].peer) /\ mailbox[i].peer # c
<1>1. ASSUME NEW m \in Messages, m.type = "ClaimPiece"
      PROVE  /\ [m EXCEPT !.live = FALSE] \in Messages
             /\ [m EXCEPT !.live = FALSE].type = m.type
             /\ [m EXCEPT !.live = FALSE].peer = m.peer
             /\ [m EXCEPT !.live = FALSE].live = FALSE
             /\ m.live \in BOOLEAN
  BY <1>1 DEF Messages, GiveBackTypes
<1>2. \A i \in DOMAIN mailbox : mailbox[i] \in Messages
  OBVIOUS
<1>3. DOMAIN mailbox = 1 .. Len(mailbox) /\ Len(mailbox) \in Nat
  OBVIOUS
<1>4. \A i \in DOMAIN mailbox : mailbox'[i] \in Messages
  BY <1>1, <1>2
<1>5. mailbox' \in Seq(Messages) /\ Len(mailbox') = Len(mailbox)
  BY <1>3, <1>4
<1> QED
  BY <1>1, <1>2, <1>5 DEF LiveClaim

-----------------------------------------------------------------------------
(* Types, the manager's own invariant, and where `current` stands.         *)

TypeInv == TypeOK /\ ManagerInv /\ CurrentMatchesPc

(* Handing a piece back, and what a send needs.                            *)
LEMMA SendKeepsMailbox ==
  ASSUME TypeOK, NEW m \in Messages, Send(m)
  PROVE  mailbox' \in Seq(Messages) /\ Len(mailbox') <= MailboxSize
BY AppendToMailbox, MailboxAssumption DEF TypeOK, Send, HasRoom

LEMMA InitTypeInv == Init => TypeInv
<1> SUFFICES ASSUME Init
             PROVE  TypeInv
  OBVIOUS
<1>1. ManagerInv
  BY InitManagerInv DEF Init
<1>2. mailbox \in Seq(Messages) /\ Len(mailbox) <= MailboxSize
  BY MailboxAssumption DEF Init
<1>3. CurrentMatchesPc
  BY DEF Init, CurrentMatchesPc
<1> QED
  BY <1>1, <1>2, <1>3 DEF TypeInv, TypeOK, ManagerInv, Init, Labels

(* The manager's steps.                                                    *)
LEMMA ManagerKeepsTypes ==
  ASSUME TypeInv, Manager
  PROVE  TypeInv'
<1> USE DEF TypeInv
<1>0. CurrentMatchesPc'
  BY DEF Manager, StartManager, HandleClaim, HandleRelease, HandleFailed,
         HandleVerified, FinishFinalize, connVars, CurrentMatchesPc
<1>1. CASE StartManager
  <2>1. ManagerInv'
    BY <1>1, AdoptKeepsInv DEF StartManager, TypeOK
  <2> QED
    BY <1>0, <1>1, <2>1 DEF StartManager, TypeOK, ManagerInv, connVars, storeVars
<1>2. ASSUME NEW type, Received(type)
      PROVE  /\ mailbox' \in Seq(Messages) /\ Len(mailbox') <= MailboxSize
             /\ Head(mailbox) \in Messages
             /\ Head(mailbox).type = type
             /\ phase = "serving"
  BY <1>2, TailOfMailbox, MailboxAssumption DEF Received, TypeOK
<1>3. CASE HandleClaim
  <2> DEFINE m == Head(mailbox)
             choice == Choice(m.bitfield, m.peer)
  <2>1. /\ mailbox' \in Seq(Messages) /\ Len(mailbox') <= MailboxSize
        /\ m \in Messages /\ m.type = "ClaimPiece" /\ phase = "serving"
    BY <1>2, <1>3 DEF HandleClaim
  <2>2. m.peer \in Peers
    BY <2>1, MessageFields
  <2>3. ManagerInv'
    BY <1>3, <2>1, <2>2, ClaimKeepsInv DEF HandleClaim
  <2>4. choice \in Pieces \cup {NoPiece}
    BY ChoiceIsAllowed
  <2>5. reply' \in [Peers -> Pieces \cup {NoPiece, NoReply}]
    <3> HIDE DEF choice
    <3>1. reply' = reply \/ reply' = [reply EXCEPT ![m.peer] = choice]
      BY <1>3 DEF HandleClaim, choice
    <3> QED
      BY <2>2, <2>4, <3>1 DEF TypeOK
  <2>6. lost' \in SUBSET (Peers \X Pieces)
    <3> HIDE DEF choice
    <3>1. lost' = lost \/ (choice # NoPiece /\ lost' = lost \cup {<<m.peer, choice>>})
      BY <1>3 DEF HandleClaim, choice
    <3> QED
      BY <2>2, <2>4, <3>1 DEF TypeOK
  <2> QED
    BY <1>0, <1>3, <2>1, <2>3, <2>5, <2>6 DEF HandleClaim, TypeOK, ManagerInv, storeVars
<1>4. ASSUME NEW p \in Pieces, NEW c, phase = "serving",
             mailbox' \in Seq(Messages), Len(mailbox') <= MailboxSize,
             Unregister(p, c) \/ piece_verified(p, c),
             UNCHANGED <<connVars, storeVars, lost>>
      PROVE  TypeInv'
  <2>1. ManagerInv'
    BY <1>4, UnregisterKeepsInv, VerifiedKeepsInv
  <2> QED
    BY <1>0, <1>4, <2>1 DEF TypeOK, ManagerInv, connVars, storeVars
<1>5. CASE HandleRelease
  <2>1. Head(mailbox).piece \in Pieces
    BY <1>2, <1>5, MessageFields DEF HandleRelease, GiveBackTypes
  <2> QED
    BY <1>2, <1>4, <1>5, <2>1 DEF HandleRelease, release
<1>6. CASE HandleFailed
  <2>1. Head(mailbox).piece \in Pieces
    BY <1>2, <1>6, MessageFields DEF HandleFailed, GiveBackTypes
  <2> QED
    BY <1>2, <1>4, <1>6, <2>1 DEF HandleFailed, piece_failed
<1>7. CASE HandleVerified
  <2>1. Head(mailbox).piece \in Pieces
    BY <1>2, <1>7, MessageFields DEF HandleVerified, GiveBackTypes
  <2> QED
    BY <1>2, <1>4, <1>7, <2>1 DEF HandleVerified
<1>8. ASSUME NEW ok \in BOOLEAN, FinishFinalize(ok)
      PROVE  TypeInv'
  <2>1. ManagerInv'
    BY <1>8, FinalizeKeepsInv DEF FinishFinalize
  <2> QED
    BY <1>0, <1>8, <2>1 DEF FinishFinalize, TypeOK, ManagerInv, connVars, storeVars
<1> QED
  BY <1>1, <1>3, <1>5, <1>6, <1>7, <1>8 DEF Manager

(* A connection's steps leave the manager alone.                           *)
LEMMA ConnectionLeavesManager ==
  ASSUME NEW c \in Peers, Connection(c)
  PROVE  UNCHANGED managerVars
BY DEF Connection, Connect, PeerHas, SendClaim, ReceiveClaim, CompletePiece,
       Completion, WriteReturns, RecordReturns, ReportVerified, ReportFailed,
       Report, BeginRelease, Teardown, TakeHold, SendRelease, EndRelease,
       DropTask, DropHold, EndDrop

LEMMA ConnectionKeepsTypes ==
  ASSUME TypeInv, NEW c \in Peers, Connection(c)
  PROVE  TypeInv'
<1> USE DEF TypeInv, Goto, Labels
<1> DEFINE Kept == TypeOK' /\ CurrentMatchesPc'
<1>1. ManagerInv' /\ ManagerTypeOK'
  BY ConnectionLeavesManager, UnchangedKeepsInv DEF ManagerInv
<1>2. ASSUME NEW bits \in SUBSET Pieces, Connect(c, bits)
      PROVE  Kept
  BY <1>1, <1>2 DEF Connect, TypeOK, storeVars, CurrentMatchesPc
<1>3. ASSUME NEW p \in Pieces, PeerHas(c, p)
      PROVE  Kept
  BY <1>1, <1>3 DEF PeerHas, TypeOK, storeVars, CurrentMatchesPc
<1>4. CASE SendClaim(c)
  <2>1. peer_bitfield[c] \in SUBSET Pieces
    BY DEF TypeOK
  <2>2. mailbox' \in Seq(Messages) /\ Len(mailbox') <= MailboxSize
    BY <1>4, <2>1, ClaimIsMessage, SendKeepsMailbox DEF SendClaim
  <2> QED
    BY <1>1, <1>4, <2>2 DEF SendClaim, TypeOK, storeVars, CurrentMatchesPc
<1>5. CASE ReceiveClaim(c)
  <2>1. held' \in [Peers -> SUBSET Pieces]
    BY <1>5 DEF ReceiveClaim, TypeOK
  <2>2. reply' \in [Peers -> Pieces \cup {NoPiece, NoReply}]
    BY <1>5 DEF ReceiveClaim, TypeOK
  <2> QED
    BY <1>1, <1>5, <2>1, <2>2 DEF ReceiveClaim, TypeOK, storeVars, CurrentMatchesPc
<1>6. ASSUME NEW p \in Pieces, NEW ok \in BOOLEAN, CompletePiece(c, p, ok)
      PROVE  Kept
  <2>1. held' \in [Peers -> SUBSET Pieces]
        /\ current' \in [Peers -> Pieces \cup {NoPiece}]
    BY <1>6 DEF CompletePiece, TypeOK
  <2>2. pc' \in [Peers -> Labels] /\ pc'[c] \in {"writing", "failing"}
    BY <1>6 DEF CompletePiece, TypeOK
  <2>3. CurrentMatchesPc'
    BY <1>6, <2>2 DEF CompletePiece, TypeOK, CurrentMatchesPc
  <2> QED
    BY <1>1, <1>6, <2>1, <2>2, <2>3 DEF CompletePiece, TypeOK, storeVars
<1>7. ASSUME NEW ok \in BOOLEAN, WriteReturns(c, ok)
      PROVE  Kept
  <2>1. current[c] \in Pieces
    BY <1>7 DEF WriteReturns, CurrentMatchesPc
  <2>2. stored' \in SUBSET Pieces
    BY <1>7, <2>1 DEF WriteReturns, TypeOK
  <2>3. pc' \in [Peers -> Labels] /\ pc'[c] \in {"recording", "failing"}
    BY <1>7 DEF WriteReturns, TypeOK
  <2>4. CurrentMatchesPc'
    BY <1>7, <2>1, <2>3 DEF WriteReturns, TypeOK, CurrentMatchesPc
  <2> QED
    BY <1>1, <1>7, <2>2, <2>3, <2>4 DEF WriteReturns, TypeOK
<1>8. ASSUME NEW ok \in BOOLEAN, RecordReturns(c, ok)
      PROVE  Kept
  <2>1. current[c] \in Pieces
    BY <1>8 DEF RecordReturns, CurrentMatchesPc
  <2>2. recorded' \in SUBSET Pieces
    BY <1>8, <2>1 DEF RecordReturns, TypeOK
  <2>3. CurrentMatchesPc'
    BY <1>8, <2>1 DEF RecordReturns, TypeOK, CurrentMatchesPc
  <2> QED
    BY <1>1, <1>8, <2>2, <2>3 DEF RecordReturns, TypeOK
<1>9. ASSUME NEW t \in GiveBackTypes, NEW next \in {"loop", "releasing", "closing"},
             Report(c, t, next)
      PROVE  Kept
  <2>1. current[c] \in Pieces
    BY <1>9 DEF Report, TypeOK
  <2>2. mailbox' \in Seq(Messages) /\ Len(mailbox') <= MailboxSize
    BY <1>9, <2>1, GiveBackIsMessage, SendKeepsMailbox DEF Report
  <2>3. CurrentMatchesPc'
    BY <1>9 DEF Report, TypeOK, CurrentMatchesPc
  <2> QED
    BY <1>1, <1>9, <2>2, <2>3 DEF Report, TypeOK, storeVars
<1>10. CASE Completion(c)
  BY <1>1, <1>7, <1>8, <1>9, <1>10
     DEF Completion, ReportVerified, ReportFailed, GiveBackTypes
<1>11. ASSUME NEW label \in {"releasing", "closing"}, BeginRelease(c, label)
       PROVE  Kept
  BY <1>1, <1>11 DEF BeginRelease, TypeOK, storeVars, CurrentMatchesPc
<1>12. ASSUME NEW p \in Pieces, TakeHold(c, p)
       PROVE  Kept
  <2>1. pc[c] \in {"releasing", "closing"}
    BY <1>12 DEF TakeHold, Releasing
  <2>2. CurrentMatchesPc'
    BY <1>12, <2>1 DEF TakeHold, TypeOK, CurrentMatchesPc
  <2> QED
    BY <1>1, <1>12, <2>2 DEF TakeHold, TypeOK, storeVars
<1>13. CASE SendRelease(c)
  BY <1>1, <1>9, <1>13 DEF SendRelease, Releasing, GiveBackTypes
<1>14. CASE EndRelease(c)
  <2>1. pc' \in [Peers -> Labels] /\ pc'[c] \in {"loop", "down"}
    BY <1>14 DEF EndRelease, TypeOK
  <2>2. CurrentMatchesPc'
    BY <1>14, <2>1 DEF EndRelease, TypeOK, CurrentMatchesPc
  <2> QED
    BY <1>1, <1>14, <2>1, <2>2 DEF EndRelease, TypeOK, storeVars
<1>15. ASSUME NEW landed \in BOOLEAN, DropTask(c, landed)
       PROVE  Kept
  <2>1. mailbox' \in Seq(Messages) /\ Len(mailbox') = Len(mailbox)
    BY <1>15, DropKeepsMessages DEF DropTask, TypeOK
  <2>2. lost' \in SUBSET (Peers \X Pieces)
    BY <1>15 DEF DropTask, TypeOK
  <2>3. stored' \in SUBSET Pieces /\ recorded' \in SUBSET Pieces
    BY <1>15 DEF DropTask, TypeOK, CurrentMatchesPc
  <2>4. CurrentMatchesPc'
    BY <1>15 DEF DropTask, TypeOK, CurrentMatchesPc
  <2> QED
    BY <1>1, <1>15, <2>1, <2>2, <2>3, <2>4 DEF DropTask, TypeOK
<1>16. ASSUME NEW p \in Pieces, DropHold(c, p)
       PROVE  Kept
  <2>1. CASE HasRoom
    <3>1. mailbox' \in Seq(Messages) /\ Len(mailbox') <= MailboxSize
      BY <1>16, <2>1, GiveBackIsMessage, SendKeepsMailbox
         DEF DropHold, Send, GiveBackTypes
    <3> QED
      BY <1>1, <1>16, <2>1, <3>1 DEF DropHold, TypeOK, storeVars, CurrentMatchesPc
  <2>2. CASE ~HasRoom
    BY <1>1, <1>16, <2>2 DEF DropHold, TypeOK, storeVars, CurrentMatchesPc
  <2> QED
    BY <2>1, <2>2
<1>17. CASE EndDrop(c)
  BY <1>1, <1>17 DEF EndDrop, TypeOK, storeVars, CurrentMatchesPc
<1>18. Kept
  BY <1>2, <1>3, <1>4, <1>5, <1>6, <1>10, <1>11, <1>12, <1>13, <1>14, <1>15,
     <1>16, <1>17 DEF Connection, Teardown
<1> QED
  BY <1>1, <1>18

LEMMA StutterKeepsTypes ==
  ASSUME TypeInv, UNCHANGED vars
  PROVE  TypeInv'
<1>1. ManagerInv'
  BY UnchangedKeepsInv DEF TypeInv, vars
<1> QED
  BY <1>1 DEF TypeInv, TypeOK, ManagerInv, CurrentMatchesPc, vars, connVars, storeVars

LEMMA NextKeepsTypes ==
  ASSUME TypeInv, [Next]_vars
  PROVE  TypeInv'
<1>1. CASE Manager
  BY <1>1, ManagerKeepsTypes
<1>2. ASSUME NEW c \in Peers, Connection(c)
      PROVE  TypeInv'
  BY <1>2, ConnectionKeepsTypes
<1>3. CASE UNCHANGED vars
  BY <1>3, StutterKeepsTypes
<1> QED
  BY <1>1, <1>2, <1>3 DEF Next

(* Types, caches and registrations hold together in every run.             *)
THEOREM TypesHold == Spec => []TypeInv
BY InitTypeInv, NextKeepsTypes, PTL DEF Spec

(* Every variable keeps its type, the mailbox never exceeds its size, and  *)
(* every piece index the manager or a message carries is one it has.       *)
THEOREM TypeCorrect == Spec => []TypeOK
<1>1. TypeInv => TypeOK
  BY DEF TypeInv
<1> QED
  BY <1>1, TypesHold, PTL

-----------------------------------------------------------------------------
(* What the manager's own invariant says of the specification.             *)

(* The cached bitfield, count and bytes, and the counters other tasks add  *)
(* up, always describe the pieces the manager holds.                       *)
THEOREM ViewsAgree == Spec => []CachedViewsAgree
<1>1. TypeInv => CachedViewsAgree
  BY DEF TypeInv, ManagerInv
<1> QED
  BY <1>1, TypesHold, PTL

(* in_flight_pieces counts the pieces in work, through double completions  *)
(* and messages of connections that are gone.                              *)
THEOREM InFlightExact == Spec => []InFlightIsExact
<1>1. TypeInv => InFlightIsExact
  BY DEF TypeInv, ManagerInv
<1> QED
  BY <1>1, TypesHold, PTL

(* The watch channel shows what is held whenever the manager is past its   *)
(* start, in the middle of a copy too.                                     *)
THEOREM ProgressCurrent == Spec => []ProgressIsCurrent
<1>1. TypeInv => ProgressIsCurrent
  BY DEF TypeInv, ManagerInv
<1> QED
  BY <1>1, TypesHold, PTL

(* Completing a piece takes everybody off it, and nobody gets back on.     *)
THEOREM CompleteUnregistered == Spec => []CompleteIsUnregistered
<1>1. TypeInv => CompleteIsUnregistered
  BY DEF TypeInv, ManagerInv
<1> QED
  BY <1>1, TypesHold, PTL

(* Endgame never puts more than MAX_PIECE_SHARERS peers on one piece.      *)
THEOREM SharingCapped == Spec => []SharingIsCapped
<1>1. TypeInv => SharingIsCapped
  BY DEF TypeInv, ManagerInv
<1> QED
  BY <1>1, TypesHold, PTL

-----------------------------------------------------------------------------
(* What is servable is in the store.                                       *)

StoredInv == ServableIsStored /\ WrittenBeforeReported

LEMMA InitStoredInv == Init => StoredInv
BY DEF Init, InitManager, StoredInv, ServableIsStored, WrittenBeforeReported

LEMMA ManagerKeepsStored ==
  ASSUME TypeInv, StoredInv, Manager
  PROVE  StoredInv'
<1> USE DEF TypeInv, StoredInv, ServableIsStored, WrittenBeforeReported
<1>1. ASSUME UNCHANGED <<mailbox, pc, current, stored, recorded>>,
             complete' \subseteq stored
      PROVE  StoredInv'
  BY <1>1
<1>2. ASSUME mailbox # <<>>, mailbox' = Tail(mailbox),
             UNCHANGED <<pc, current, stored, recorded>>,
             complete' \subseteq stored
      PROVE  StoredInv'
  <2>1. \A i \in DOMAIN mailbox' :
          i + 1 \in DOMAIN mailbox /\ mailbox'[i] = mailbox[i + 1]
    BY <1>2, TailOfMailbox DEF TypeOK
  <2> QED
    BY <1>2, <2>1
<1>3. CASE StartManager
  BY <1>1, <1>3 DEF StartManager, adopt_stored, connVars, storeVars
<1>4. CASE HandleClaim
  BY <1>2, <1>4 DEF HandleClaim, Received, claim_piece, storeVars
<1>5. CASE HandleRelease
  BY <1>2, <1>5 DEF HandleRelease, Received, release, Unregister, connVars,
                    storeVars
<1>6. CASE HandleFailed
  BY <1>2, <1>6 DEF HandleFailed, Received, piece_failed, Unregister, connVars,
                    storeVars
<1>7. CASE HandleVerified
  <2>1. Head(mailbox).piece \in stored
    BY <1>7, TailOfMailbox DEF HandleVerified, Received, TypeOK
  <2>2. complete' \subseteq complete \cup {Head(mailbox).piece}
    BY <1>7 DEF HandleVerified, piece_verified
  <2> QED
    BY <1>2, <1>7, <2>1, <2>2 DEF HandleVerified, Received, connVars, storeVars
<1>8. ASSUME NEW ok \in BOOLEAN, FinishFinalize(ok)
      PROVE  StoredInv'
  BY <1>1, <1>8 DEF FinishFinalize, FinalizeReturns, connVars, storeVars
<1> QED
  BY <1>3, <1>4, <1>5, <1>6, <1>7, <1>8 DEF Manager

LEMMA ConnectionKeepsStored ==
  ASSUME TypeInv, StoredInv, NEW c \in Peers, Connection(c)
  PROVE  StoredInv'
<1> USE DEF StoredInv, ServableIsStored, WrittenBeforeReported, Goto
<1>0. TypeOK /\ CurrentMatchesPc /\ UNCHANGED complete
  BY ConnectionLeavesManager DEF TypeInv, managerVars
<1>1. ASSUME UNCHANGED mailbox, stored \subseteq stored',
             recorded' \subseteq stored',
             \A d \in Peers : pc'[d] \in {"recording", "reporting"}
                                => current'[d] \in stored'
      PROVE  StoredInv'
  BY <1>0, <1>1
<1>2. ASSUME NEW label \in Labels \ {"recording", "reporting"},
             pc' = [pc EXCEPT ![c] = label],
             \A d \in Peers \ {c} : current'[d] = current[d]
      PROVE  \A d \in Peers : pc'[d] \in {"recording", "reporting"}
                                => current'[d] \in stored
  BY <1>0, <1>2 DEF TypeOK
<1>3. ASSUME NEW m \in Messages, mailbox' = Append(mailbox, m),
             m.type = "PieceVerified" => m.piece \in stored,
             UNCHANGED storeVars,
             \A d \in Peers : pc'[d] \in {"recording", "reporting"}
                                => current'[d] \in stored
      PROVE  StoredInv'
  BY <1>0, <1>3, AppendToMailbox DEF storeVars, TypeOK
<1>4. ASSUME NEW bits \in SUBSET Pieces, Connect(c, bits)
      PROVE  StoredInv'
  BY <1>0, <1>1, <1>2, <1>4 DEF Connect, storeVars, Labels
<1>5. ASSUME NEW p \in Pieces, PeerHas(c, p)
      PROVE  StoredInv'
  BY <1>0, <1>1, <1>5 DEF PeerHas, storeVars
<1>6. CASE SendClaim(c)
  <2>0. peer_bitfield[c] \in SUBSET Pieces
    BY <1>0 DEF TypeOK
  <2>1. ClaimPiece(c, peer_bitfield[c]) \in Messages
        /\ ClaimPiece(c, peer_bitfield[c]).type = "ClaimPiece"
    BY <2>0, ClaimIsMessage
  <2> QED
    BY <1>2, <1>3, <1>6, <2>1 DEF SendClaim, Send, Labels
<1>7. CASE ReceiveClaim(c)
  BY <1>1, <1>2, <1>7 DEF ReceiveClaim, storeVars, Labels
<1>8. ASSUME NEW p \in Pieces, NEW ok \in BOOLEAN, CompletePiece(c, p, ok)
      PROVE  StoredInv'
  <2>1. \A d \in Peers \ {c} : current'[d] = current[d]
    BY <1>0, <1>8 DEF CompletePiece, TypeOK
  <2> QED
    BY <1>1, <1>2, <1>8, <2>1 DEF CompletePiece, storeVars, Labels
<1>9. ASSUME NEW ok \in BOOLEAN, WriteReturns(c, ok)
      PROVE  StoredInv'
  <2>1. \A d \in Peers : pc'[d] \in {"recording", "reporting"}
                           => current'[d] \in stored'
    BY <1>0, <1>9 DEF WriteReturns, TypeOK
  <2> QED
    BY <1>1, <1>9, <2>1 DEF WriteReturns
<1>10. ASSUME NEW ok \in BOOLEAN, RecordReturns(c, ok)
       PROVE  StoredInv'
  <2>1. current[c] \in stored
    BY <1>10 DEF RecordReturns
  <2>2. \A d \in Peers : pc'[d] \in {"recording", "reporting"}
                           => current'[d] \in stored'
    BY <1>0, <1>10, <2>1 DEF RecordReturns, TypeOK
  <2> QED
    BY <1>1, <1>10, <2>1, <2>2 DEF RecordReturns
<1>11. ASSUME NEW t \in GiveBackTypes, NEW next \in {"loop", "releasing", "closing"},
              Report(c, t, next),
              t = "PieceVerified" => current[c] \in stored
       PROVE  StoredInv'
  <2>1. current[c] \in Pieces
    BY <1>0, <1>11 DEF Report, TypeOK
  <2>2. /\ GiveBack(t, c, current[c]) \in Messages
        /\ GiveBack(t, c, current[c]).type = t
        /\ GiveBack(t, c, current[c]).piece = current[c]
    BY <2>1, GiveBackIsMessage
  <2>3. \A d \in Peers \ {c} : current'[d] = current[d]
    BY <1>0, <1>11 DEF Report, TypeOK
  <2>4. next \in Labels \ {"recording", "reporting"}
    BY DEF Labels
  <2>5. \A d \in Peers : pc'[d] \in {"recording", "reporting"}
                           => current'[d] \in stored
    BY <1>2, <1>11, <2>3, <2>4 DEF Report
  <2> QED
    BY <1>3, <1>11, <2>2, <2>5 DEF Report, Send
<1>12. CASE Completion(c)
  <2>1. ReportVerified(c) => StoredInv'
    BY <1>11 DEF ReportVerified, GiveBackTypes
  <2>2. ReportFailed(c) => StoredInv'
    BY <1>11 DEF ReportFailed, GiveBackTypes
  <2> QED
    BY <1>9, <1>10, <1>12, <2>1, <2>2 DEF Completion
<1>13. ASSUME NEW label \in {"releasing", "closing"}, BeginRelease(c, label)
       PROVE  StoredInv'
  BY <1>1, <1>2, <1>13 DEF BeginRelease, storeVars, Labels
<1>14. CASE Teardown(c)
  <2>1. ASSUME NEW p \in Pieces, TakeHold(c, p)
        PROVE  StoredInv'
    <3>1. \A d \in Peers : pc'[d] \in {"recording", "reporting"}
                             => current'[d] \in stored
      BY <1>0, <2>1 DEF TakeHold, Releasing, TypeOK
    <3> QED
      BY <1>1, <2>1, <3>1 DEF TakeHold, storeVars
  <2>2. CASE SendRelease(c)
    BY <1>11, <2>2 DEF SendRelease, Releasing, GiveBackTypes
  <2>3. CASE EndRelease(c)
    BY <1>1, <1>2, <2>3 DEF EndRelease, storeVars, Labels
  <2> QED
    BY <1>14, <2>1, <2>2, <2>3 DEF Teardown
<1>15. ASSUME NEW landed \in BOOLEAN, DropTask(c, landed)
       PROVE  StoredInv'
  <2>1. mailbox' \in Seq(Messages) /\ DOMAIN mailbox' = DOMAIN mailbox
        /\ \A i \in DOMAIN mailbox : mailbox[i].type = "PieceVerified"
                                       => mailbox'[i] = mailbox[i]
    BY <1>0, <1>15, DropKeepsMessages DEF DropTask, TypeOK
  <2>2. \A i \in DOMAIN mailbox : mailbox'[i].type = mailbox[i].type
    BY <1>0, <1>15, DropKeepsMessages DEF DropTask, TypeOK
  <2>3. stored \subseteq stored' /\ recorded' \subseteq stored'
    BY <1>15 DEF DropTask
  <2>4. \A d \in Peers : pc'[d] \in {"recording", "reporting"}
                           => current'[d] \in stored'
    BY <1>0, <1>15, <2>3 DEF DropTask, TypeOK
  <2> QED
    BY <1>0, <2>1, <2>2, <2>3, <2>4
<1>16. ASSUME NEW p \in Pieces, DropHold(c, p)
       PROVE  StoredInv'
  <2>1. CASE HasRoom
    <3>1. /\ GiveBack("Release", c, p) \in Messages
          /\ GiveBack("Release", c, p).type = "Release"
      BY <1>16, GiveBackIsMessage DEF GiveBackTypes
    <3> QED
      BY <1>3, <1>16, <2>1, <3>1 DEF DropHold
  <2>2. CASE ~HasRoom
    BY <1>1, <1>16, <2>2 DEF DropHold, storeVars
  <2> QED
    BY <2>1, <2>2
<1>17. CASE EndDrop(c)
  BY <1>1, <1>2, <1>17 DEF EndDrop, storeVars, Labels
<1> QED
  BY <1>4, <1>5, <1>6, <1>7, <1>8, <1>12, <1>13, <1>14, <1>15, <1>16, <1>17
     DEF Connection

LEMMA NextKeepsStored ==
  ASSUME TypeInv, StoredInv, [Next]_vars
  PROVE  StoredInv'
<1>1. CASE Manager
  BY <1>1, ManagerKeepsStored
<1>2. ASSUME NEW c \in Peers, Connection(c)
      PROVE  StoredInv'
  BY <1>2, ConnectionKeepsStored
<1>3. CASE UNCHANGED vars
  BY <1>3 DEF StoredInv, ServableIsStored, WrittenBeforeReported, vars,
              managerVars, connVars, storeVars
<1> QED
  BY <1>1, <1>2, <1>3 DEF Next

(* What is called stored is stored, however tasks and writes end.          *)
THEOREM StoredHolds == Spec => []StoredInv
BY InitStoredInv, NextKeepsStored, TypesHold, PTL DEF Spec

(* Whatever the manager calls complete, and whatever the store's bitfield  *)
(* claims, has its verified bytes in the store: with tasks dropped at any  *)
(* await, failed writes, and writes that land after their task is gone.    *)
THEOREM ServableStored == Spec => []ServableIsStored
<1>1. StoredInv => ServableIsStored
  BY DEF StoredInv
<1> QED
  BY <1>1, StoredHolds, PTL

(* finalize never copies out a store that lacks a piece.                   *)
THEOREM FinalizeCopiesAll == Spec => []FinalizeCopiesEverything
<1>1. TypeInv /\ StoredInv => FinalizeCopiesEverything
  <2>1. TypeOK => stored \subseteq Pieces
    BY DEF TypeOK
  <2> QED
    BY <2>1 DEF TypeInv, ManagerInv, FinalizesWhenWhole, StoredInv,
                ServableIsStored, FinalizeCopiesEverything
<1> QED
  BY <1>1, TypesHold, StoredHolds, PTL

-----------------------------------------------------------------------------
(* One claim at a time.                                                    *)

LEMMA InitOneAnswer == Init => OneAnswerPending
BY DEF Init, OneAnswerPending

(* The manager only takes messages, and answers a claim by taking it.      *)
LEMMA ManagerKeepsOneAnswer ==
  ASSUME TypeInv, OneAnswerPending, Manager
  PROVE  OneAnswerPending'
<1>0. TypeOK
  BY DEF TypeInv
<1>1. ASSUME UNCHANGED <<mailbox, pc, reply>>
      PROVE  OneAnswerPending'
  BY <1>1 DEF OneAnswerPending, LiveClaim
<1>2. ASSUME mailbox # <<>>, mailbox' = Tail(mailbox), UNCHANGED pc
      PROVE  /\ \A i \in DOMAIN mailbox' : i + 1 \in DOMAIN mailbox /\ i + 1 # 1
                                           /\ mailbox'[i] = mailbox[i + 1]
             /\ UNCHANGED reply => OneAnswerPending'
  <2>1. \A i \in DOMAIN mailbox' : i + 1 \in DOMAIN mailbox /\ i + 1 # 1
                                   /\ mailbox'[i] = mailbox[i + 1]
    BY <1>0, <1>2, TailOfMailbox DEF TypeOK
  <2>2. \A i, j \in DOMAIN mailbox' : i + 1 = j + 1 => i = j
    BY <1>0, <1>2, TailOfMailbox DEF TypeOK
  <2> QED
    BY <1>2, <2>1, <2>2 DEF OneAnswerPending, LiveClaim
<1>3. CASE StartManager
  BY <1>1, <1>3 DEF StartManager, connVars
<1>4. CASE HandleClaim
  <2> DEFINE m == Head(mailbox)
             choice == Choice(m.bitfield, m.peer)
  <2>1. m = mailbox[1] /\ 1 \in DOMAIN mailbox /\ m \in Messages
        /\ m.type = "ClaimPiece" /\ mailbox # <<>> /\ mailbox' = Tail(mailbox)
        /\ UNCHANGED pc
    BY <1>0, <1>4, TailOfMailbox DEF HandleClaim, Received, TypeOK
  <2>2. CASE ~m.live
    BY <1>2, <1>4, <2>1, <2>2 DEF HandleClaim
  <2>3. CASE m.live
    <3>1. m.peer \in Peers /\ LiveClaim(mailbox[1], m.peer)
      BY <2>1, <2>3, MessageFields DEF LiveClaim
    <3>2. \A i \in DOMAIN mailbox' : ~LiveClaim(mailbox'[i], m.peer)
      BY <1>2, <2>1, <3>1 DEF OneAnswerPending
    <3>3. reply' = [reply EXCEPT ![m.peer] = choice]
      BY <1>4, <2>3 DEF HandleClaim
    <3>4. pc[m.peer] = "claiming"
      BY <2>1, <3>1 DEF OneAnswerPending
    <3>5. \A d \in Peers \ {m.peer} : reply'[d] = reply[d]
      BY <1>0, <3>3 DEF TypeOK
    <3>6. \A i, j \in DOMAIN mailbox' : i + 1 = j + 1 => i = j
      BY <1>0, <2>1, TailOfMailbox DEF TypeOK
    <3> QED
      BY <1>2, <2>1, <3>2, <3>4, <3>5, <3>6 DEF OneAnswerPending, LiveClaim
  <2> QED
    BY <1>0, <2>1, <2>2, <2>3
<1>5. CASE HandleRelease
  BY <1>2, <1>5 DEF HandleRelease, Received, connVars
<1>6. CASE HandleFailed
  BY <1>2, <1>6 DEF HandleFailed, Received, connVars
<1>7. CASE HandleVerified
  BY <1>2, <1>7 DEF HandleVerified, Received, connVars
<1>8. ASSUME NEW ok \in BOOLEAN, FinishFinalize(ok)
      PROVE  OneAnswerPending'
  BY <1>1, <1>8 DEF FinishFinalize, connVars
<1> QED
  BY <1>3, <1>4, <1>5, <1>6, <1>7, <1>8 DEF Manager

LEMMA ConnectionKeepsOneAnswer ==
  ASSUME TypeInv, OneAnswerPending, NEW c \in Peers, Connection(c)
  PROVE  OneAnswerPending'
<1> USE DEF Goto
<1>0. TypeOK
  BY DEF TypeInv
<1>1. ASSUME UNCHANGED <<mailbox, reply>>, pc[c] # "claiming",
             \A d \in Peers \ {c} : pc'[d] = pc[d]
      PROVE  OneAnswerPending'
  BY <1>1 DEF OneAnswerPending, LiveClaim
<1>2. ASSUME NEW m \in Messages, m.type # "ClaimPiece",
             mailbox' = Append(mailbox, m), UNCHANGED reply, pc[c] # "claiming",
             \A d \in Peers \ {c} : pc'[d] = pc[d]
      PROVE  OneAnswerPending'
  BY <1>0, <1>2, AppendToMailbox DEF OneAnswerPending, LiveClaim, TypeOK
<1>3. ASSUME NEW label, pc' = [pc EXCEPT ![c] = label]
      PROVE  \A d \in Peers \ {c} : pc'[d] = pc[d]
  BY <1>0, <1>3 DEF TypeOK
<1>4. ASSUME NEW bits \in SUBSET Pieces, Connect(c, bits)
      PROVE  OneAnswerPending'
  BY <1>1, <1>3, <1>4 DEF Connect
<1>5. ASSUME NEW p \in Pieces, PeerHas(c, p)
      PROVE  OneAnswerPending'
  BY <1>1, <1>5 DEF PeerHas
<1>6. CASE SendClaim(c)
  <2> DEFINE m == ClaimPiece(c, peer_bitfield[c])
  <2>1. peer_bitfield[c] \in SUBSET Pieces
    BY <1>0 DEF TypeOK
  <2>2. m \in Messages /\ m.type = "ClaimPiece" /\ m.peer = c /\ m.live = TRUE
    BY <2>1, ClaimIsMessage
  <2>3. mailbox' = Append(mailbox, m) /\ pc[c] = "loop" /\ UNCHANGED reply
        /\ pc' = [pc EXCEPT ![c] = "claiming"]
    BY <1>6 DEF SendClaim, Send
  <2>4. reply[c] = NoReply /\ \A i \in DOMAIN mailbox : ~LiveClaim(mailbox[i], c)
    BY <2>3 DEF OneAnswerPending
  <2>5. pc'[c] = "claiming" /\ \A d \in Peers \ {c} : pc'[d] = pc[d]
    BY <1>0, <2>3 DEF TypeOK
  <2> HIDE DEF m
  <2>6. /\ DOMAIN mailbox' = DOMAIN mailbox \cup {Len(mailbox) + 1}
        /\ Len(mailbox) + 1 \notin DOMAIN mailbox
        /\ mailbox'[Len(mailbox) + 1] = m
        /\ \A i \in DOMAIN mailbox : mailbox'[i] = mailbox[i]
    BY <1>0, <2>2, <2>3, AppendToMailbox DEF TypeOK
  <2>7. ASSUME NEW d \in Peers \ {c}
        PROVE  /\ reply'[d] # NoReply => pc'[d] = "claiming"
               /\ \A i \in DOMAIN mailbox' : LiveClaim(mailbox'[i], d) =>
                    /\ pc'[d] = "claiming" /\ reply'[d] = NoReply
                    /\ \A j \in DOMAIN mailbox' : LiveClaim(mailbox'[j], d) => j = i
    BY <2>2, <2>3, <2>5, <2>6 DEF OneAnswerPending, LiveClaim
  <2>8. /\ reply'[c] # NoReply => pc'[c] = "claiming"
        /\ \A i \in DOMAIN mailbox' : LiveClaim(mailbox'[i], c) =>
             /\ pc'[c] = "claiming" /\ reply'[c] = NoReply
             /\ \A j \in DOMAIN mailbox' : LiveClaim(mailbox'[j], c) => j = i
    BY <2>3, <2>4, <2>5, <2>6
  <2> QED
    BY <2>7, <2>8 DEF OneAnswerPending
<1>7. CASE ReceiveClaim(c)
  <2>1. \A i \in DOMAIN mailbox : ~LiveClaim(mailbox[i], c)
    BY <1>7 DEF ReceiveClaim, OneAnswerPending
  <2>2. /\ UNCHANGED mailbox
        /\ reply'[c] = NoReply
        /\ \A d \in Peers \ {c} : reply'[d] = reply[d] /\ pc'[d] = pc[d]
    BY <1>0, <1>7 DEF ReceiveClaim, TypeOK
  <2> QED
    BY <2>1, <2>2 DEF OneAnswerPending, LiveClaim
<1>8. ASSUME NEW p \in Pieces, NEW ok \in BOOLEAN, CompletePiece(c, p, ok)
      PROVE  OneAnswerPending'
  BY <1>1, <1>3, <1>8 DEF CompletePiece
<1>9. ASSUME NEW t \in GiveBackTypes, NEW next, Report(c, t, next),
             pc[c] # "claiming"
      PROVE  OneAnswerPending'
  <2>1. current[c] \in Pieces
    BY <1>0, <1>9 DEF Report, TypeOK
  <2>2. /\ GiveBack(t, c, current[c]) \in Messages
        /\ GiveBack(t, c, current[c]).type = t
    BY <2>1, GiveBackIsMessage
  <2> QED
    BY <1>2, <1>3, <1>9, <2>2 DEF Report, Send, GiveBackTypes
<1>10. CASE Completion(c)
  <2>1. ASSUME NEW ok \in BOOLEAN, WriteReturns(c, ok)
        PROVE  OneAnswerPending'
    BY <1>1, <1>3, <2>1 DEF WriteReturns
  <2>2. ASSUME NEW ok \in BOOLEAN, RecordReturns(c, ok)
        PROVE  OneAnswerPending'
    BY <1>1, <1>3, <2>2 DEF RecordReturns
  <2>3. ReportVerified(c) => OneAnswerPending'
    BY <1>9 DEF ReportVerified, GiveBackTypes
  <2>4. ReportFailed(c) => OneAnswerPending'
    BY <1>9 DEF ReportFailed, GiveBackTypes
  <2> QED
    BY <1>10, <2>1, <2>2, <2>3, <2>4 DEF Completion
<1>11. ASSUME NEW label \in {"releasing", "closing"}, BeginRelease(c, label)
       PROVE  OneAnswerPending'
  BY <1>1, <1>3, <1>11 DEF BeginRelease
<1>12. CASE Teardown(c)
  <2>1. ASSUME NEW p \in Pieces, TakeHold(c, p)
        PROVE  OneAnswerPending'
    BY <1>1, <2>1 DEF TakeHold, Releasing
  <2>2. CASE SendRelease(c)
    BY <1>9, <2>2 DEF SendRelease, Releasing, GiveBackTypes
  <2>3. CASE EndRelease(c)
    BY <1>1, <1>3, <2>3 DEF EndRelease, Releasing
  <2> QED
    BY <1>12, <2>1, <2>2, <2>3 DEF Teardown
<1>13. ASSUME NEW landed \in BOOLEAN, DropTask(c, landed)
       PROVE  OneAnswerPending'
  <2>0. mailbox' = [i \in DOMAIN mailbox |->
          IF mailbox[i].type = "ClaimPiece" /\ mailbox[i].peer = c
          THEN [mailbox[i] EXCEPT !.live = FALSE] ELSE mailbox[i]]
    BY <1>13 DEF DropTask
  <2>1. /\ mailbox' \in Seq(Messages)
        /\ Len(mailbox') = Len(mailbox)
        /\ DOMAIN mailbox' = DOMAIN mailbox
        /\ \A i \in DOMAIN mailbox :
              /\ mailbox'[i].type = mailbox[i].type
              /\ mailbox'[i].peer = mailbox[i].peer
              /\ mailbox[i].type # "ClaimPiece" => mailbox'[i] = mailbox[i]
              /\ LiveClaim(mailbox'[i], mailbox[i].peer) =>
                   LiveClaim(mailbox[i], mailbox[i].peer) /\ mailbox[i].peer # c
    BY <1>0, <2>0, DropKeepsMessages DEF TypeOK
  <2>2. /\ reply'[c] = NoReply
        /\ \A d \in Peers \ {c} : reply'[d] = reply[d] /\ pc'[d] = pc[d]
    BY <1>0, <1>13 DEF DropTask, TypeOK
  <2>3. \A i \in DOMAIN mailbox : ~LiveClaim(mailbox'[i], c)
    BY <2>1 DEF LiveClaim
  <2>4. \A i \in DOMAIN mailbox, d \in Peers \ {c} :
          LiveClaim(mailbox'[i], d) => LiveClaim(mailbox[i], d)
    BY <2>1 DEF LiveClaim
  <2> HIDE DEF LiveClaim
  <2> QED
    BY <2>1, <2>2, <2>3, <2>4 DEF OneAnswerPending
<1>14. ASSUME NEW p \in Pieces, DropHold(c, p)
       PROVE  OneAnswerPending'
  <2>1. CASE HasRoom
    <3>1. /\ GiveBack("Release", c, p) \in Messages
          /\ GiveBack("Release", c, p).type = "Release"
      BY <1>14, GiveBackIsMessage DEF GiveBackTypes
    <3> QED
      BY <1>2, <1>14, <2>1, <3>1 DEF DropHold
  <2>2. CASE ~HasRoom
    BY <1>1, <1>14, <2>2 DEF DropHold
  <2> QED
    BY <2>1, <2>2
<1>15. CASE EndDrop(c)
  BY <1>1, <1>3, <1>15 DEF EndDrop
<1> QED
  BY <1>4, <1>5, <1>6, <1>7, <1>8, <1>10, <1>11, <1>12, <1>13, <1>14, <1>15
     DEF Connection

LEMMA NextKeepsOneAnswer ==
  ASSUME TypeInv, OneAnswerPending, [Next]_vars
  PROVE  OneAnswerPending'
<1>1. CASE Manager
  BY <1>1, ManagerKeepsOneAnswer
<1>2. ASSUME NEW c \in Peers, Connection(c)
      PROVE  OneAnswerPending'
  BY <1>2, ConnectionKeepsOneAnswer
<1>3. CASE UNCHANGED vars
  BY <1>3 DEF OneAnswerPending, LiveClaim, vars, connVars
<1> QED
  BY <1>1, <1>2, <1>3 DEF Next

(* A connection never has two claims waiting, nor an answer and a claim.   *)
THEOREM OneAnswer == Spec => []OneAnswerPending
BY InitOneAnswer, NextKeepsOneAnswer, TypesHold, PTL DEF Spec

-----------------------------------------------------------------------------
(* Nobody stays registered without an owner.                               *)

ClaimsInv == StrandedOnlyIfLost /\ NothingLostWithoutDrops

LEMMA InitClaimsInv == Init => ClaimsInv
BY DEF Init, InitManager, ClaimsInv, StrandedOnlyIfLost, NothingLostWithoutDrops

(* Where a registration may go in one step: its owner stands on, or it is  *)
(* counted lost.                                                           *)
LEMMA OwnerStands ==
  ASSUME StrandedOnlyIfLost, lost \subseteq lost',
         \A p \in Pieces : requesters'[p] \subseteq requesters[p],
         \A c \in Peers, p \in Pieces :
           /\ Owns(c, p)
           /\ c \in requesters'[p]
           => Owns(c, p)' \/ <<c, p>> \in lost',
         TypeOK, TypeOK'
  PROVE  StrandedOnlyIfLost'
<1>1. ASSUME NEW p \in Pieces, NEW c \in requesters'[p]
      PROVE  Owns(c, p)' \/ <<c, p>> \in lost'
  <2>1. c \in requesters[p] /\ c \in Peers
    BY <1>1 DEF TypeOK, ManagerTypeOK
  <2> QED
    BY <1>1, <2>1 DEF StrandedOnlyIfLost
<1> QED
  BY <1>1 DEF StrandedOnlyIfLost

(* A message other than the head is still there after the head is taken.   *)
LEMMA MailAfterTail ==
  ASSUME TypeOK, mailbox # <<>>, mailbox' = Tail(mailbox),
         NEW c \in Peers, NEW p \in Pieces, InMail(c, p),
         ~GivesBack(Head(mailbox), c, p)
  PROVE  InMail(c, p)'
<1>1. PICK i \in DOMAIN mailbox :
        GivesBack(mailbox[i], c, p)
  BY DEF InMail
<1>2. /\ Head(mailbox) = mailbox[1]
      /\ \A j \in DOMAIN mailbox : j # 1 => /\ j - 1 \in DOMAIN mailbox'
                                            /\ mailbox'[j - 1] = mailbox[j]
  BY TailOfMailbox DEF TypeOK
<1>3. i # 1
  BY <1>1, <1>2
<1> QED
  BY <1>1, <1>2, <1>3 DEF InMail

LEMMA MailAfterAppend ==
  ASSUME TypeOK, NEW m \in Messages, mailbox' = Append(mailbox, m)
  PROVE  /\ \A c \in Peers, p \in Pieces : InMail(c, p) => InMail(c, p)'
         /\ \A t \in GiveBackTypes, c \in Peers, p \in Pieces :
              m = GiveBack(t, c, p) => InMail(c, p)'
<1>1. /\ DOMAIN mailbox' = DOMAIN mailbox \cup {Len(mailbox) + 1}
      /\ mailbox'[Len(mailbox) + 1] = m
      /\ \A i \in DOMAIN mailbox : mailbox'[i] = mailbox[i]
  BY AppendToMailbox DEF TypeOK
<1>2. ASSUME NEW c \in Peers, NEW p \in Pieces, InMail(c, p)
      PROVE  InMail(c, p)'
  BY <1>1, <1>2 DEF InMail
<1>3. ASSUME NEW t \in GiveBackTypes, NEW c \in Peers, NEW p \in Pieces,
             m = GiveBack(t, c, p)
      PROVE  InMail(c, p)'
  <2>1. GivesBack(mailbox'[Len(mailbox) + 1], c, p)
    BY <1>1, <1>3 DEF GivesBack
  <2> QED
    BY <1>1, <2>1 DEF InMail
<1> QED
  BY <1>2, <1>3

(* Only a message of the same piece by the same connection gives it back.  *)
LEMMA GiveBackFields ==
  ASSUME NEW t \in GiveBackTypes, NEW m,
         NEW c \in Peers, NEW p \in Pieces,
         GivesBack(m, c, p)
  PROVE  m.peer = c /\ m.piece = p /\ m.type \in GiveBackTypes
BY DEF GivesBack, GiveBack

LEMMA ManagerKeepsOwners ==
  ASSUME TypeInv, TypeInv', OneAnswerPending, StrandedOnlyIfLost, Manager
  PROVE  StrandedOnlyIfLost'
<1>0. TypeOK /\ TypeOK'
  BY DEF TypeInv
<1>1. ASSUME UNCHANGED <<mailbox, connVars, lost>>,
             \A p \in Pieces : requesters'[p] \subseteq requesters[p]
      PROVE  StrandedOnlyIfLost'
  <2>1. \A c \in Peers, p \in Pieces : Owns(c, p) => Owns(c, p)'
    BY <1>1 DEF Owns, Working, InMail, connVars
  <2> QED
    BY <1>0, <1>1, <2>1, OwnerStands
<1>2. ASSUME NEW t \in GiveBackTypes, Received(t), UNCHANGED <<connVars, lost>>,
             \A p \in Pieces : requesters'[p] \subseteq requesters[p],
             Head(mailbox).peer \notin requesters'[Head(mailbox).piece]
      PROVE  StrandedOnlyIfLost'
  <2>1. mailbox # <<>> /\ mailbox' = Tail(mailbox)
    BY <1>2 DEF Received
  <2>2. ASSUME NEW c \in Peers, NEW p \in Pieces, Owns(c, p), c \in requesters'[p]
        PROVE  Owns(c, p)'
    <3>1. ~GivesBack(Head(mailbox), c, p)
      BY <1>2, <2>2, GiveBackFields
    <3>2. InMail(c, p) => InMail(c, p)'
      BY <1>0, <2>1, <3>1, MailAfterTail
    <3> QED
      BY <1>2, <2>2, <3>2 DEF Owns, Working, connVars
  <2> QED
    BY <1>0, <1>2, <2>2, OwnerStands
<1>3. CASE HandleClaim
  <2> DEFINE m == Head(mailbox)
             choice == Choice(m.bitfield, m.peer)
  <2>1. mailbox # <<>> /\ mailbox' = Tail(mailbox) /\ m.type = "ClaimPiece"
        /\ m = mailbox[1] /\ 1 \in DOMAIN mailbox /\ m \in Messages
    BY <1>0, <1>3, TailOfMailbox DEF HandleClaim, Received, TypeOK
  <2>2. m.peer \in Peers /\ m.bitfield \in SUBSET Pieces
    BY <2>1, MessageFields
  <2>3. choice = NoPiece \/ choice \in Pieces
    BY <1>0, <2>2, ChoiceIsAllowed DEF TypeOK, TypeInv, ManagerInv
  <2>4. m.live => reply[m.peer] = NoReply
    BY <2>1, <2>2 DEF OneAnswerPending, LiveClaim
  <2>5. /\ reply' = IF m.live THEN [reply EXCEPT ![m.peer] = choice] ELSE reply
        /\ lost' = IF m.live \/ choice = NoPiece
                   THEN lost ELSE lost \cup {<<m.peer, choice>>}
        /\ UNCHANGED <<held, current>>
    BY <1>3 DEF HandleClaim
  <2>6. requesters' = IF choice = NoPiece THEN requesters
                      ELSE [requesters EXCEPT ![choice] = @ \cup {m.peer}]
    BY <1>3 DEF HandleClaim, claim_piece
  <2>7. ASSUME NEW c \in Peers, NEW p \in Pieces, Owns(c, p)
        PROVE  Owns(c, p)'
    <3>1. ~GivesBack(Head(mailbox), c, p)
      BY <2>1 DEF GivesBack, GiveBack, GiveBackTypes
    <3>2. InMail(c, p) => InMail(c, p)'
      BY <1>0, <2>1, <3>1, MailAfterTail
    <3>3. reply[c] = p => reply'[c] = p
      BY <1>0, <2>4, <2>5, NoReplyAssumption DEF TypeOK, Pieces
    <3> QED
      BY <2>5, <2>7, <3>2, <3>3 DEF Owns, Working
  <2> HIDE DEF m, choice
  <2>8. ASSUME NEW c \in Peers, NEW p \in Pieces,
               c = m.peer, p = choice, choice # NoPiece
        PROVE  Owns(c, p)' \/ <<c, p>> \in lost'
    <3>1. m.live => reply'[c] = p
      BY <1>0, <2>5, <2>8 DEF TypeOK
    <3> QED
      BY <2>5, <2>8, <3>1 DEF Owns, Working
  <2>9. ASSUME NEW p \in Pieces, NEW c \in requesters'[p]
        PROVE  Owns(c, p)' \/ <<c, p>> \in lost'
    <3>1. c \in requesters[p] \/ (c = m.peer /\ p = choice /\ choice # NoPiece)
      BY <1>0, <2>3, <2>6, <2>9 DEF TypeOK, ManagerTypeOK
    <3>2. c \in Peers
      BY <1>0, <2>9 DEF TypeOK, ManagerTypeOK
    <3>3. CASE c \in requesters[p]
      <4>1. Owns(c, p) \/ <<c, p>> \in lost
        BY <3>3 DEF StrandedOnlyIfLost
      <4>2. Owns(c, p) => Owns(c, p)'
        BY <2>7, <3>2
      <4>3. lost \subseteq lost'
        BY <2>5
      <4> QED
        BY <4>1, <4>2, <4>3
    <3>4. CASE c = m.peer /\ p = choice /\ choice # NoPiece
      BY <2>8, <3>2, <3>4
    <3> QED
      BY <3>1, <3>3, <3>4
  <2> QED
    BY <2>9 DEF StrandedOnlyIfLost
<1>4. CASE HandleRelease
  <2>1. Head(mailbox).piece \in Pieces
    BY <1>0, <1>4, TailOfMailbox, MessageFields
       DEF HandleRelease, Received, TypeOK, GiveBackTypes
  <2> QED
    BY <1>0, <1>2, <1>4, <2>1 DEF HandleRelease, release, Unregister,
       GiveBackTypes, TypeOK, ManagerTypeOK
<1>5. CASE HandleFailed
  <2>1. Head(mailbox).piece \in Pieces
    BY <1>0, <1>5, TailOfMailbox, MessageFields
       DEF HandleFailed, Received, TypeOK, GiveBackTypes
  <2> QED
    BY <1>0, <1>2, <1>5, <2>1 DEF HandleFailed, piece_failed, Unregister,
       GiveBackTypes, TypeOK, ManagerTypeOK
<1>6. CASE HandleVerified
  <2>1. Head(mailbox).piece \in Pieces
    BY <1>0, <1>6, TailOfMailbox, MessageFields
       DEF HandleVerified, Received, TypeOK, GiveBackTypes
  <2>2. \/ requesters' = [requesters EXCEPT ![Head(mailbox).piece] =
                                              @ \ {Head(mailbox).peer}]
        \/ requesters' = [requesters EXCEPT ![Head(mailbox).piece] = {}]
    BY <1>6 DEF HandleVerified, piece_verified
  <2>3. /\ \A p \in Pieces : requesters'[p] \subseteq requesters[p]
        /\ Head(mailbox).peer \notin requesters'[Head(mailbox).piece]
    <3>1. requesters \in [Pieces -> SUBSET Peers]
      BY <1>0 DEF TypeOK, ManagerTypeOK
    <3>2. ASSUME NEW q \in Pieces, NEW d,
                 \/ requesters' = [requesters EXCEPT ![q] = @ \ {d}]
                 \/ requesters' = [requesters EXCEPT ![q] = {}]
          PROVE  /\ \A p \in Pieces : requesters'[p] \subseteq requesters[p]
                 /\ d \notin requesters'[q]
      BY <3>1, <3>2
    <3> QED
      BY <2>1, <2>2, <3>2
  <2> QED
    BY <1>2, <1>6, <2>3 DEF HandleVerified, GiveBackTypes
<1>7. CASE StartManager
  BY <1>1, <1>7 DEF StartManager, adopt_stored
<1>8. ASSUME NEW ok \in BOOLEAN, FinishFinalize(ok)
      PROVE  StrandedOnlyIfLost'
  BY <1>1, <1>8 DEF FinishFinalize, FinalizeReturns
<1> QED
  BY <1>3, <1>4, <1>5, <1>6, <1>7, <1>8 DEF Manager

LEMMA ManagerLosesNothing ==
  ASSUME TypeOK, NothingLostWithoutDrops, Manager
  PROVE  NothingLostWithoutDrops'
<1>1. UNCHANGED pc
  BY DEF Manager, StartManager, HandleClaim, HandleRelease, HandleFailed,
         HandleVerified, FinishFinalize, connVars
<1>2. UNCHANGED mailbox \/ (mailbox # <<>> /\ mailbox' = Tail(mailbox))
  BY DEF Manager, StartManager, HandleClaim, HandleRelease, HandleFailed,
         HandleVerified, FinishFinalize, Received
<1>3. \/ UNCHANGED lost
      \/ mailbox # <<>> /\ Head(mailbox).type = "ClaimPiece"
         /\ ~Head(mailbox).live
  BY DEF Manager, StartManager, HandleClaim, HandleRelease, HandleFailed,
         HandleVerified, FinishFinalize, Received
<1>4. mailbox # <<>> /\ mailbox' = Tail(mailbox) =>
        \A i \in DOMAIN mailbox' : i + 1 \in DOMAIN mailbox
                                   /\ mailbox'[i] = mailbox[i + 1]
  BY TailOfMailbox DEF TypeOK
<1>5. mailbox # <<>> => 1 \in DOMAIN mailbox /\ Head(mailbox) = mailbox[1]
  BY DEF TypeOK
<1> QED
  BY <1>1, <1>2, <1>3, <1>4, <1>5 DEF NothingLostWithoutDrops

LEMMA ConnectionKeepsOwners ==
  ASSUME TypeInv, TypeInv', StrandedOnlyIfLost, NEW c \in Peers, Connection(c)
  PROVE  StrandedOnlyIfLost'
<1> USE DEF Goto
<1>0. TypeOK /\ TypeOK' /\ CurrentMatchesPc /\ UNCHANGED requesters
  BY ConnectionLeavesManager DEF TypeInv, managerVars
<1>1. ASSUME lost \subseteq lost',
             \A d \in Peers, p \in Pieces : InMail(d, p) => InMail(d, p)',
             \A d \in Peers \ {c} : /\ held'[d] = held[d]
                                    /\ current'[d] = current[d]
                                    /\ reply'[d] = reply[d],
             \A p \in Pieces :
               \/ p \in held[c] \/ current[c] = p \/ reply[c] = p
               => \/ p \in held'[c] \/ current'[c] = p \/ reply'[c] = p
                  \/ InMail(c, p)' \/ <<c, p>> \in lost'
      PROVE  StrandedOnlyIfLost'
  <2>1. ASSUME NEW d \in Peers, NEW p \in Pieces, Owns(d, p)
        PROVE  Owns(d, p)' \/ <<d, p>> \in lost'
    BY <1>1, <2>1 DEF Owns, Working
  <2> QED
    BY <1>0, <1>1, <2>1, OwnerStands
<1>2. ASSUME UNCHANGED mailbox
      PROVE  \A d \in Peers, p \in Pieces : InMail(d, p) => InMail(d, p)'
  BY <1>2 DEF InMail
<1>3. ASSUME UNCHANGED <<mailbox, held, current, reply, lost>>
      PROVE  StrandedOnlyIfLost'
  BY <1>1, <1>2, <1>3
<1>4. ASSUME NEW bits \in SUBSET Pieces, Connect(c, bits)
      PROVE  StrandedOnlyIfLost'
  BY <1>3, <1>4 DEF Connect
<1>5. ASSUME NEW p \in Pieces, PeerHas(c, p)
      PROVE  StrandedOnlyIfLost'
  BY <1>3, <1>5 DEF PeerHas
<1>6. CASE SendClaim(c)
  <2>0. peer_bitfield[c] \in SUBSET Pieces
    BY <1>0 DEF TypeOK
  <2>1. ClaimPiece(c, peer_bitfield[c]) \in Messages
    BY <2>0, ClaimIsMessage
  <2>2. \A d \in Peers, p \in Pieces : InMail(d, p) => InMail(d, p)'
    BY <1>0, <1>6, <2>1, MailAfterAppend DEF SendClaim, Send
  <2> QED
    BY <1>1, <1>6, <2>2 DEF SendClaim
<1>7. CASE ReceiveClaim(c)
  <2>1. \A d \in Peers \ {c} : held'[d] = held[d] /\ reply'[d] = reply[d]
    BY <1>0, <1>7 DEF ReceiveClaim, TypeOK
  <2>2. \A p \in Pieces : p \in held[c] \/ reply[c] = p => p \in held'[c]
    BY <1>0, <1>7, NoPieceAssumption DEF ReceiveClaim, TypeOK, Pieces
  <2> QED
    BY <1>1, <1>2, <1>7, <2>1, <2>2 DEF ReceiveClaim
<1>8. ASSUME NEW q \in Pieces, current[c] = NoPiece, UNCHANGED <<mailbox, reply, lost>>,
             held' = [held EXCEPT ![c] = @ \ {q}],
             current' = [current EXCEPT ![c] = q]
      PROVE  StrandedOnlyIfLost'
  <2>1. \A d \in Peers \ {c} : held'[d] = held[d] /\ current'[d] = current[d]
    BY <1>0, <1>8 DEF TypeOK
  <2>2. current'[c] = q /\ held'[c] = held[c] \ {q}
    BY <1>0, <1>8 DEF TypeOK
  <2>3. \A p \in Pieces : current[c] # p
    BY <1>8, NoPieceAssumption DEF Pieces
  <2> QED
    BY <1>1, <1>2, <1>8, <2>1, <2>2, <2>3
<1>9. ASSUME NEW p \in Pieces, NEW ok \in BOOLEAN, CompletePiece(c, p, ok)
      PROVE  StrandedOnlyIfLost'
  BY <1>0, <1>8, <1>9 DEF CompletePiece, CurrentMatchesPc
<1>10. ASSUME NEW t \in GiveBackTypes, NEW next, Report(c, t, next)
       PROVE  StrandedOnlyIfLost'
  <2>1. current[c] \in Pieces
    BY <1>0, <1>10 DEF Report, TypeOK
  <2>2. GiveBack(t, c, current[c]) \in Messages
    BY <2>1, GiveBackIsMessage
  <2>3. mailbox' = Append(mailbox, GiveBack(t, c, current[c]))
        /\ UNCHANGED <<held, reply, lost>>
        /\ current' = [current EXCEPT ![c] = NoPiece]
    BY <1>10 DEF Report, Send
  <2>4. \A d \in Peers, p \in Pieces : InMail(d, p) => InMail(d, p)'
    BY <1>0, <2>2, <2>3, MailAfterAppend
  <2>5. ASSUME NEW p \in Pieces, current[c] = p
        PROVE  InMail(c, p)'
    BY <1>0, <2>2, <2>3, <2>5, MailAfterAppend
  <2>6. \A d \in Peers \ {c} : current'[d] = current[d]
    BY <1>0, <2>3 DEF TypeOK
  <2> QED
    BY <1>1, <2>3, <2>4, <2>5, <2>6
<1>11. CASE Completion(c)
  <2>1. ASSUME NEW ok \in BOOLEAN, WriteReturns(c, ok)
        PROVE  StrandedOnlyIfLost'
    BY <1>3, <2>1 DEF WriteReturns
  <2>2. ASSUME NEW ok \in BOOLEAN, RecordReturns(c, ok)
        PROVE  StrandedOnlyIfLost'
    BY <1>3, <2>2 DEF RecordReturns
  <2>3. ReportVerified(c) => StrandedOnlyIfLost'
    BY <1>10 DEF ReportVerified, GiveBackTypes
  <2>4. ReportFailed(c) => StrandedOnlyIfLost'
    BY <1>10 DEF ReportFailed, GiveBackTypes
  <2> QED
    BY <1>11, <2>1, <2>2, <2>3, <2>4 DEF Completion
<1>12. ASSUME NEW label \in {"releasing", "closing"}, BeginRelease(c, label)
       PROVE  StrandedOnlyIfLost'
  BY <1>3, <1>12 DEF BeginRelease
<1>13. CASE Teardown(c)
  <2>1. ASSUME NEW p \in Pieces, TakeHold(c, p)
        PROVE  StrandedOnlyIfLost'
    BY <1>8, <2>1 DEF TakeHold
  <2>2. CASE SendRelease(c)
    BY <1>10, <2>2 DEF SendRelease, GiveBackTypes
  <2>3. CASE EndRelease(c)
    BY <1>3, <2>3 DEF EndRelease
  <2> QED
    BY <1>13, <2>1, <2>2, <2>3 DEF Teardown
<1>14. ASSUME NEW landed \in BOOLEAN, DropTask(c, landed)
       PROVE  StrandedOnlyIfLost'
  <2>1. /\ DOMAIN mailbox' = DOMAIN mailbox
        /\ \A i \in DOMAIN mailbox :
             mailbox[i].type # "ClaimPiece" => mailbox'[i] = mailbox[i]
    BY <1>0, <1>14, DropKeepsMessages DEF DropTask, TypeOK
  <2>2. ASSUME NEW d \in Peers, NEW p \in Pieces, InMail(d, p)
        PROVE  InMail(d, p)'
    <3>1. PICK i \in DOMAIN mailbox :
            GivesBack(mailbox[i], d, p)
      BY <2>2 DEF InMail
    <3>2. mailbox[i].type # "ClaimPiece"
      BY <3>1, GiveBackFields DEF GiveBackTypes
    <3> QED
      BY <2>1, <3>1, <3>2 DEF InMail
  <2>3. \A p \in Pieces : current[c] = p \/ reply[c] = p => <<c, p>> \in lost'
    BY <1>14 DEF DropTask
  <2>4. \A d \in Peers \ {c} : current'[d] = current[d] /\ reply'[d] = reply[d]
    BY <1>0, <1>14 DEF DropTask, TypeOK
  <2>5. lost \subseteq lost' /\ UNCHANGED held
    BY <1>14 DEF DropTask
  <2> QED
    BY <1>1, <2>2, <2>3, <2>4, <2>5
<1>15. ASSUME NEW q \in Pieces, DropHold(c, q)
       PROVE  StrandedOnlyIfLost'
  <2>1. UNCHANGED <<current, reply>> /\ held' = [held EXCEPT ![c] = @ \ {q}]
    BY <1>15 DEF DropHold
  <2>2. held'[c] = held[c] \ {q} /\ \A d \in Peers \ {c} : held'[d] = held[d]
    BY <1>0, <2>1 DEF TypeOK
  <2>3. CASE HasRoom
    <3>1. GiveBack("Release", c, q) \in Messages
      BY GiveBackIsMessage DEF GiveBackTypes
    <3>2. mailbox' = Append(mailbox, GiveBack("Release", c, q)) /\ UNCHANGED lost
      BY <1>15, <2>3 DEF DropHold
    <3>3. \A d \in Peers, p \in Pieces : InMail(d, p) => InMail(d, p)'
      BY <1>0, <3>1, <3>2, MailAfterAppend
    <3>4. InMail(c, q)'
      BY <1>0, <3>1, <3>2, MailAfterAppend DEF GiveBackTypes
    <3> QED
      BY <1>1, <2>1, <2>2, <3>2, <3>3, <3>4
  <2>4. CASE ~HasRoom
    <3>1. lost' = lost \cup {<<c, q>>} /\ UNCHANGED mailbox
      BY <1>15, <2>4 DEF DropHold
    <3> QED
      BY <1>1, <1>2, <2>1, <2>2, <3>1
  <2> QED
    BY <2>3, <2>4
<1>16. CASE EndDrop(c)
  BY <1>3, <1>16 DEF EndDrop
<1> QED
  BY <1>4, <1>5, <1>6, <1>7, <1>9, <1>11, <1>12, <1>13, <1>14, <1>15, <1>16
     DEF Connection

(* Without drops a connection never reaches DropTask, so nothing is lost.  *)
LEMMA ConnectionLosesNothing ==
  ASSUME TypeInv, NothingLostWithoutDrops, NEW c \in Peers, Connection(c)
  PROVE  NothingLostWithoutDrops'
<1> SUFFICES ASSUME ~AllowDrops
             PROVE  NothingLostWithoutDrops'
  BY DEF NothingLostWithoutDrops
<1> USE DEF Goto
<1>0. TypeOK
  BY DEF TypeInv
<1>1. pc[c] # "dropping" /\ lost = {}
      /\ \A i \in DOMAIN mailbox : mailbox[i].type = "ClaimPiece" => mailbox[i].live
  BY DEF NothingLostWithoutDrops
<1>2. ~ \E landed \in BOOLEAN : DropTask(c, landed)
  BY DEF DropTask
<1>3. ~ \E p \in Pieces : DropHold(c, p)
  BY <1>1 DEF DropHold
<1>4. ~EndDrop(c)
  BY <1>1 DEF EndDrop
<1>5. UNCHANGED lost
      /\ \/ UNCHANGED pc
         \/ \E label \in Labels \ {"dropping"} : pc' = [pc EXCEPT ![c] = label]
  BY <1>2, <1>3, <1>4 DEF Connection, Connect, PeerHas, SendClaim, ReceiveClaim,
     CompletePiece, Completion, WriteReturns, RecordReturns, ReportVerified,
     ReportFailed, Report, BeginRelease, Teardown, TakeHold, SendRelease,
     EndRelease, Releasing, Labels
<1>6. \A d \in Peers : pc'[d] # "dropping"
  BY <1>0, <1>5 DEF NothingLostWithoutDrops, TypeOK
<1>7. \/ UNCHANGED mailbox
      \/ \E m \in Messages : /\ mailbox' = Append(mailbox, m)
                             /\ m.type = "ClaimPiece" => m.live
  <2>1. SendClaim(c) => \E m \in Messages : /\ mailbox' = Append(mailbox, m)
                                            /\ m.type = "ClaimPiece" => m.live
    <3>1. peer_bitfield[c] \in SUBSET Pieces
      BY <1>0 DEF TypeOK
    <3> QED
      BY <3>1, ClaimIsMessage DEF SendClaim, Send
  <2>2. ASSUME NEW t \in GiveBackTypes, NEW next, Report(c, t, next)
        PROVE  \E m \in Messages : /\ mailbox' = Append(mailbox, m)
                                   /\ m.type = "ClaimPiece" => m.live
    <3>1. current[c] \in Pieces
      BY <1>0, <2>2 DEF Report, TypeOK
    <3> QED
      BY <2>2, <3>1, GiveBackIsMessage DEF Report, Send, GiveBackTypes
  <2>3. ReportVerified(c) \/ ReportFailed(c) \/ SendRelease(c)
          => \E m \in Messages : /\ mailbox' = Append(mailbox, m)
                                 /\ m.type = "ClaimPiece" => m.live
    BY <2>2 DEF ReportVerified, ReportFailed, SendRelease, GiveBackTypes
  <2>4. \/ SendClaim(c) \/ ReportVerified(c) \/ ReportFailed(c) \/ SendRelease(c)
        \/ UNCHANGED mailbox
    BY <1>2, <1>3, <1>4 DEF Connection, Connect, PeerHas, ReceiveClaim,
       CompletePiece, Completion, WriteReturns, RecordReturns, BeginRelease,
       Teardown, TakeHold, EndRelease
  <2> QED
    BY <2>1, <2>3, <2>4
<1>8. \A i \in DOMAIN mailbox' : mailbox'[i].type = "ClaimPiece" => mailbox'[i].live
  <2>1. ASSUME NEW m \in Messages, mailbox' = Append(mailbox, m),
               m.type = "ClaimPiece" => m.live
        PROVE  \A i \in DOMAIN mailbox' :
                 mailbox'[i].type = "ClaimPiece" => mailbox'[i].live
    BY <1>0, <1>1, <2>1, AppendToMailbox DEF TypeOK
  <2> QED
    BY <1>1, <1>7, <2>1
<1> QED
  BY <1>1, <1>5, <1>6, <1>8 DEF NothingLostWithoutDrops

LEMMA NextKeepsClaims ==
  ASSUME TypeInv, TypeInv', OneAnswerPending, ClaimsInv, [Next]_vars
  PROVE  ClaimsInv'
<1> USE DEF ClaimsInv
<1>1. CASE Manager
  BY <1>1, ManagerKeepsOwners, ManagerLosesNothing DEF TypeInv
<1>2. ASSUME NEW c \in Peers, Connection(c)
      PROVE  ClaimsInv'
  BY <1>2, ConnectionKeepsOwners, ConnectionLosesNothing
<1>3. CASE UNCHANGED vars
  BY <1>3 DEF StrandedOnlyIfLost, NothingLostWithoutDrops, Owns, Working, InMail, vars,
              managerVars, connVars
<1> QED
  BY <1>1, <1>2, <1>3 DEF Next

(* Every registration has an owner, or is counted among the lost.          *)
THEOREM ClaimsHold == Spec => []ClaimsInv
BY InitClaimsInv, NextKeepsClaims, TypesHold, OneAnswer, PTL DEF Spec

(* With tasks dropped at any await, a registration outlives its owner only *)
(* through one of the four windows that add to `lost`.                     *)
THEOREM StrandedIsLost == Spec => []StrandedOnlyIfLost
<1>1. ClaimsInv => StrandedOnlyIfLost
  BY DEF ClaimsInv
<1> QED
  BY <1>1, ClaimsHold, PTL

(* Where no task is dropped, every registration the manager keeps has an   *)
(* owner that will still finish the piece or give it back.                 *)
THEOREM NoClaimStranded == ~AllowDrops => (Spec => []NoStrandedClaim)
<1> SUFFICES ASSUME ~AllowDrops
             PROVE  Spec => []NoStrandedClaim
  OBVIOUS
<1>1. ClaimsInv => NoStrandedClaim
  BY DEF ClaimsInv, StrandedOnlyIfLost, NothingLostWithoutDrops, NoStrandedClaim
<1> QED
  BY <1>1, ClaimsHold, PTL

-----------------------------------------------------------------------------
(* Who is working on a piece is registered on it, once.                    *)

OwnersInv == OwnedOnce /\ OwnersAreRegistered

LEMMA InitOwnersInv == Init => OwnersInv
<1> SUFFICES ASSUME Init
             PROVE  OwnersInv
  OBVIOUS
<1>1. \A c \in Peers, p \in Pieces : ~Owns(c, p)
  BY NoPieceAssumption, NoReplyAssumption DEF Init, Owns, Working, InMail, Pieces
<1>2. DOMAIN mailbox = {}
  BY DEF Init
<1> QED
  BY <1>1, <1>2 DEF OwnersInv, OwnedOnce, OwnersAreRegistered, StandsOnce, Owns,
                    Working

(* Taking a message leaves nothing new in the mailbox, and nothing of the  *)
(* piece a message gave back.                                              *)
LEMMA MailBeforeTail ==
  ASSUME TypeOK, mailbox # <<>>, mailbox' = Tail(mailbox),
         NEW c \in Peers, NEW p \in Pieces, StandsOnce(c, p)
  PROVE  /\ InMail(c, p)' => InMail(c, p) /\ ~GivesBack(Head(mailbox), c, p)
         /\ GivesBack(Head(mailbox), c, p) => InMail(c, p)
         /\ \A i, j \in DOMAIN mailbox' :
              GivesBack(mailbox'[i], c, p) /\ GivesBack(mailbox'[j], c, p) => i = j
<1>1. /\ Head(mailbox) = mailbox[1] /\ 1 \in DOMAIN mailbox
      /\ \A i \in DOMAIN mailbox' : i + 1 \in DOMAIN mailbox /\ i + 1 # 1
                                    /\ mailbox'[i] = mailbox[i + 1]
  BY TailOfMailbox DEF TypeOK
<1>2. \A i, j \in DOMAIN mailbox' : i + 1 = j + 1 => i = j
  BY TailOfMailbox DEF TypeOK
<1> QED
  BY <1>1, <1>2 DEF StandsOnce, InMail

(* A message sent is the only new one.                                     *)
LEMMA MailBeforeAppend ==
  ASSUME TypeOK, NEW m \in Messages, mailbox' = Append(mailbox, m),
         NEW c \in Peers, NEW p \in Pieces, StandsOnce(c, p),
         GivesBack(m, c, p) => ~InMail(c, p)
  PROVE  /\ InMail(c, p)' => InMail(c, p) \/ GivesBack(m, c, p)
         /\ \A i, j \in DOMAIN mailbox' :
              GivesBack(mailbox'[i], c, p) /\ GivesBack(mailbox'[j], c, p) => i = j
<1>1. /\ DOMAIN mailbox' = DOMAIN mailbox \cup {Len(mailbox) + 1}
      /\ Len(mailbox) + 1 \notin DOMAIN mailbox
      /\ mailbox'[Len(mailbox) + 1] = m
      /\ \A i \in DOMAIN mailbox : mailbox'[i] = mailbox[i]
  BY AppendToMailbox DEF TypeOK
<1> QED
  BY <1>1 DEF StandsOnce, InMail

(* Nothing is complete before the manager has asked the store.             *)
LEMMA NothingCompleteBefore ==
  ASSUME ManagerInv, phase = "starting"
  PROVE  complete = {}
<1>1. Cardinality(complete) = stats.completed_pieces + stats.resumed_pieces
      /\ stats = InitStats /\ complete \subseteq Pieces
  BY DEF ManagerInv, ManagerTypeOK, CachedViewsAgree, StartsEmpty
<1>2. Cardinality(complete) = 0
  BY <1>1 DEF InitStats
<1>3. IsFiniteSet(complete)
  BY <1>1, PiecesAreFinite, FS_Subset
<1> QED
  BY <1>2, <1>3, FS_EmptySet

LEMMA ClaimsGiveNothingBack ==
  \A m, c, p : GivesBack(m, c, p) => m.type # "ClaimPiece"
BY DEF GivesBack, GiveBack, GiveBackTypes

LEMMA ManagerKeepsOwned ==
  ASSUME TypeInv, OneAnswerPending, OwnersInv, Manager
  PROVE  OwnersInv'
<1> USE DEF OwnersInv
<1>0. TypeOK
  BY DEF TypeInv
<1>1. ASSUME UNCHANGED <<mailbox, connVars, requesters>>, complete \subseteq complete'
      PROVE  OwnersInv'
  <2>1. \A c \in Peers, p \in Pieces : /\ StandsOnce(c, p)' <=> StandsOnce(c, p)
                                       /\ Owns(c, p)' <=> Owns(c, p)
    BY <1>1 DEF StandsOnce, Owns, Working, InMail, connVars
  <2> QED
    BY <1>1, <2>1 DEF OwnedOnce, OwnersAreRegistered
<1>2. ASSUME NEW t \in GiveBackTypes, Received(t), UNCHANGED connVars,
             complete \subseteq complete',
             \A c \in Peers, p \in Pieces :
               /\ c \in requesters[p]
               /\ ~GivesBack(Head(mailbox), c, p)
               => c \in requesters'[p] \/ p \in complete'
      PROVE  OwnersInv'
  <2>1. mailbox # <<>> /\ mailbox' = Tail(mailbox)
    BY <1>2 DEF Received
  <2>2. ASSUME NEW c \in Peers, NEW p \in Pieces
        PROVE  StandsOnce(c, p)' /\ (Owns(c, p)' => c \in requesters'[p] \/ p \in complete')
    <3>1. StandsOnce(c, p) /\ (Owns(c, p) => c \in requesters[p] \/ p \in complete)
      BY DEF OwnedOnce, OwnersAreRegistered
    <3>2. /\ InMail(c, p)' => InMail(c, p) /\ ~GivesBack(Head(mailbox), c, p)
          /\ GivesBack(Head(mailbox), c, p) => InMail(c, p)
          /\ \A i, j \in DOMAIN mailbox' :
               GivesBack(mailbox'[i], c, p) /\ GivesBack(mailbox'[j], c, p) => i = j
      BY <1>0, <2>1, <3>1, MailBeforeTail
    <3>3. Working(c, p)' <=> Working(c, p)
      BY <1>2 DEF Working, connVars
    <3>4. StandsOnce(c, p)'
      BY <1>2, <3>1, <3>2, <3>3 DEF StandsOnce, connVars
    <3>5. Owns(c, p)' => Owns(c, p) /\ ~GivesBack(Head(mailbox), c, p)
      BY <3>1, <3>2, <3>3 DEF Owns, StandsOnce
    <3> QED
      BY <1>2, <3>1, <3>4, <3>5
  <2> QED
    BY <2>2 DEF OwnedOnce, OwnersAreRegistered
<1>3. CASE HandleClaim
  <2> DEFINE m == Head(mailbox)
             choice == Choice(m.bitfield, m.peer)
  <2>1. mailbox # <<>> /\ mailbox' = Tail(mailbox) /\ m.type = "ClaimPiece"
        /\ m = mailbox[1] /\ 1 \in DOMAIN mailbox /\ m \in Messages
    BY <1>0, <1>3, TailOfMailbox DEF HandleClaim, Received, TypeOK
  <2>2. m.peer \in Peers
    BY <2>1, MessageFields
  <2>3. \/ choice = NoPiece
        \/ choice \in Pieces /\ choice \notin complete /\ m.peer \notin requesters[choice]
    BY ChoiceIsAllowed DEF TypeInv
  <2>4. m.live => reply[m.peer] = NoReply
    BY <2>1, <2>2 DEF OneAnswerPending, LiveClaim
  <2>5. /\ reply' = IF m.live THEN [reply EXCEPT ![m.peer] = choice] ELSE reply
        /\ UNCHANGED <<held, current, complete>>
        /\ requesters' = IF choice = NoPiece THEN requesters
                          ELSE [requesters EXCEPT ![choice] = @ \cup {m.peer}]
    BY <1>3 DEF HandleClaim, claim_piece
  <2>6. \A c, p : ~GivesBack(m, c, p)
    BY <2>1, ClaimsGiveNothingBack
  <2> HIDE DEF m, choice
  <2>7. ASSUME NEW c \in Peers, NEW p \in Pieces
        PROVE  StandsOnce(c, p)' /\ (Owns(c, p)' => c \in requesters'[p] \/ p \in complete')
    <3>1. StandsOnce(c, p) /\ (Owns(c, p) => c \in requesters[p] \/ p \in complete)
      BY DEF OwnedOnce, OwnersAreRegistered
    <3>2. /\ InMail(c, p)' => InMail(c, p)
          /\ \A i, j \in DOMAIN mailbox' :
               GivesBack(mailbox'[i], c, p) /\ GivesBack(mailbox'[j], c, p) => i = j
      BY <1>0, <2>1, <3>1, MailBeforeTail DEF m
    <3>3. reply'[c] = reply[c] \/ (c = m.peer /\ reply'[c] = choice)
      BY <1>0, <2>2, <2>5 DEF TypeOK
    <3>4. requesters[p] \subseteq requesters'[p]
      BY <1>0, <2>3, <2>5 DEF TypeOK, ManagerTypeOK
    <3>5. CASE reply'[c] # p \/ reply'[c] = reply[c]
      <4>1. Working(c, p)' => Working(c, p)
        BY <2>5, <3>5 DEF Working
      <4>2. StandsOnce(c, p)'
        BY <2>5, <3>1, <3>2, <3>5, <4>1 DEF StandsOnce
      <4> QED
        BY <2>5, <3>1, <3>2, <3>4, <4>1, <4>2 DEF Owns
    <3>6. CASE c = m.peer /\ reply'[c] = choice /\ choice = p
      <4>1. choice \in Pieces /\ choice # NoPiece
        BY <3>6, NoPieceAssumption DEF Pieces
      <4>2. ~Owns(c, p)
        BY <2>3, <3>1, <3>6, <4>1
      <4>3. StandsOnce(c, p)'
        BY <2>5, <3>1, <3>2, <4>2 DEF StandsOnce, Owns, Working
      <4>4. c \in requesters'[p]
        BY <1>0, <2>5, <3>6, <4>1 DEF TypeOK, ManagerTypeOK
      <4> QED
        BY <4>3, <4>4
    <3> QED
      BY <3>3, <3>5, <3>6
  <2> QED
    BY <2>7 DEF OwnedOnce, OwnersAreRegistered
<1>4. ASSUME NEW t \in GiveBackTypes, Received(t)
      PROVE  /\ Head(mailbox).piece \in Pieces
             /\ GivesBack(Head(mailbox), Head(mailbox).peer, Head(mailbox).piece)
  <2>1. Head(mailbox) \in Messages /\ Head(mailbox).type = t
    BY <1>0, <1>4, TailOfMailbox DEF Received, TypeOK
  <2>2. Head(mailbox) = [type |-> t, peer |-> Head(mailbox).peer,
                         piece |-> Head(mailbox).piece]
    BY <2>1 DEF Messages, GiveBackTypes
  <2> QED
    BY <2>1, <2>2, MessageFields DEF GivesBack, GiveBack
<1>5. ASSUME NEW t \in GiveBackTypes, Received(t), UNCHANGED connVars,
             Unregister(Head(mailbox).piece, Head(mailbox).peer)
      PROVE  OwnersInv'
  <2>1. \A c \in Peers, p \in Pieces : c \in requesters[p] =>
          c \in requesters'[p] \/ (c = Head(mailbox).peer /\ p = Head(mailbox).piece)
    BY <1>0, <1>4, <1>5 DEF Unregister, TypeOK, ManagerTypeOK
  <2> QED
    BY <1>2, <1>4, <1>5, <2>1 DEF Unregister
<1>6. CASE HandleRelease
  BY <1>5, <1>6 DEF HandleRelease, release, GiveBackTypes
<1>7. CASE HandleFailed
  BY <1>5, <1>7 DEF HandleFailed, piece_failed, GiveBackTypes
<1>8. CASE HandleVerified
  <2>1. complete \subseteq complete' /\ \A c \in Peers, p \in Pieces :
          c \in requesters[p] =>
            \/ c \in requesters'[p] \/ p \in complete'
            \/ c = Head(mailbox).peer /\ p = Head(mailbox).piece
    BY <1>0, <1>4, <1>8, SMTT(30)
       DEF HandleVerified, piece_verified, SecondReport, GiveBackTypes, TypeOK,
           ManagerTypeOK
  <2> QED
    BY <1>2, <1>4, <1>8, <2>1 DEF HandleVerified, GiveBackTypes
<1>9. CASE StartManager
  <2>1. complete = {}
    BY <1>9, NothingCompleteBefore DEF TypeInv, StartManager, adopt_stored
  <2> QED
    BY <1>1, <1>9, <2>1 DEF StartManager, adopt_stored
<1>10. ASSUME NEW ok \in BOOLEAN, FinishFinalize(ok)
      PROVE  OwnersInv'
  BY <1>1, <1>10 DEF FinishFinalize, FinalizeReturns
<1> QED
  BY <1>3, <1>6, <1>7, <1>8, <1>9, <1>10 DEF Manager

LEMMA ConnectionKeepsOwned ==
  ASSUME TypeInv, TypeInv', OneAnswerPending, OwnersInv, NEW c \in Peers, Connection(c)
  PROVE  OwnersInv'
<1> USE DEF OwnersInv, Goto
<1>0. TypeOK /\ TypeOK' /\ CurrentMatchesPc /\ UNCHANGED <<requesters, complete>>
  BY ConnectionLeavesManager DEF TypeInv, managerVars
<1>1. ASSUME \A d \in Peers \ {c} : /\ held'[d] = held[d]
                                    /\ current'[d] = current[d]
                                    /\ reply'[d] = reply[d],
             \A d \in Peers, p \in Pieces : StandsOnce(d, p) =>
               /\ InMail(d, p)' => InMail(d, p) \/ (d = c /\ Working(c, p))
               /\ \A i, j \in DOMAIN mailbox' :
                    GivesBack(mailbox'[i], d, p) /\ GivesBack(mailbox'[j], d, p) => i = j,
             \A p \in Pieces : StandsOnce(c, p) =>
               /\ Working(c, p)' => Working(c, p) /\ (InMail(c, p)' => InMail(c, p))
               /\ p \in held'[c] => current'[c] # p /\ reply'[c] # p
               /\ current'[c] = p => reply'[c] # p
      PROVE  OwnersInv'
  <2>1. ASSUME NEW d \in Peers, NEW p \in Pieces
        PROVE  StandsOnce(d, p)' /\ (Owns(d, p)' => Owns(d, p))
    <3>1. StandsOnce(d, p)
      BY DEF OwnedOnce
    <3>2. CASE d = c
      BY <1>1, <3>1, <3>2 DEF StandsOnce, Owns
    <3>3. CASE d # c
      <4>1. Working(d, p)' <=> Working(d, p)
        BY <1>1, <3>3 DEF Working
      <4> QED
        BY <1>1, <3>1, <3>3, <4>1 DEF StandsOnce, Owns
    <3> QED
      BY <3>2, <3>3
  <2> QED
    BY <1>0, <2>1 DEF OwnedOnce, OwnersAreRegistered
<1>2. ASSUME UNCHANGED mailbox
      PROVE  \A d \in Peers, p \in Pieces : StandsOnce(d, p) =>
               /\ InMail(d, p)' => InMail(d, p)
               /\ \A i, j \in DOMAIN mailbox' :
                    GivesBack(mailbox'[i], d, p) /\ GivesBack(mailbox'[j], d, p) => i = j
  BY <1>2 DEF InMail, StandsOnce
<1>3. ASSUME UNCHANGED <<mailbox, held, current, reply>>
      PROVE  OwnersInv'
  BY <1>1, <1>2, <1>3 DEF Working, StandsOnce
<1>4. ASSUME NEW bits \in SUBSET Pieces, Connect(c, bits)
      PROVE  OwnersInv'
  BY <1>3, <1>4 DEF Connect
<1>5. ASSUME NEW p \in Pieces, PeerHas(c, p)
      PROVE  OwnersInv'
  BY <1>3, <1>5 DEF PeerHas
<1>6. CASE SendClaim(c)
  <2>1. peer_bitfield[c] \in SUBSET Pieces
    BY <1>0 DEF TypeOK
  <2> DEFINE m == ClaimPiece(c, peer_bitfield[c])
  <2>2. m \in Messages /\ m.type = "ClaimPiece"
    BY <2>1, ClaimIsMessage
  <2>3. mailbox' = Append(mailbox, m) /\ UNCHANGED <<held, current, reply>>
    BY <1>6 DEF SendClaim, Send
  <2> HIDE DEF m
  <2>4. ASSUME NEW d \in Peers, NEW p \in Pieces, StandsOnce(d, p)
        PROVE  /\ InMail(d, p)' => InMail(d, p)
               /\ \A i, j \in DOMAIN mailbox' :
                    GivesBack(mailbox'[i], d, p) /\ GivesBack(mailbox'[j], d, p) => i = j
    BY <1>0, <2>2, <2>3, <2>4, MailBeforeAppend, ClaimsGiveNothingBack
  <2> QED
    BY <1>1, <2>3, <2>4 DEF Working, StandsOnce
<1>7. CASE ReceiveClaim(c)
  <2>1. /\ \A d \in Peers \ {c} : held'[d] = held[d] /\ reply'[d] = reply[d]
        /\ reply'[c] = NoReply
        /\ UNCHANGED <<mailbox, current>>
        /\ held'[c] = IF reply[c] = NoPiece THEN held[c] ELSE held[c] \cup {reply[c]}
        /\ current[c] = NoPiece
    BY <1>0, <1>7 DEF ReceiveClaim, TypeOK, CurrentMatchesPc
  <2>2. ASSUME NEW p \in Pieces, StandsOnce(c, p)
        PROVE  /\ Working(c, p)' => Working(c, p)
               /\ p \in held'[c] => current'[c] # p /\ reply'[c] # p
               /\ current'[c] = p => reply'[c] # p
    BY <2>1, NoPieceAssumption, NoReplyAssumption DEF Working, Pieces
  <2> QED
    BY <1>1, <1>2, <2>1, <2>2
<1>8. ASSUME NEW q \in Pieces, q \in held[c], current[c] = NoPiece,
             UNCHANGED <<mailbox, reply>>,
             held' = [held EXCEPT ![c] = @ \ {q}],
             current' = [current EXCEPT ![c] = q]
      PROVE  OwnersInv'
  <2>1. /\ \A d \in Peers \ {c} : held'[d] = held[d] /\ current'[d] = current[d]
        /\ current'[c] = q /\ held'[c] = held[c] \ {q}
    BY <1>0, <1>8 DEF TypeOK
  <2>2. ASSUME NEW p \in Pieces, StandsOnce(c, p)
        PROVE  /\ Working(c, p)' => Working(c, p)
               /\ p \in held'[c] => current'[c] # p /\ reply'[c] # p
               /\ current'[c] = p => reply'[c] # p
    BY <1>8, <2>1, <2>2 DEF Working, StandsOnce
  <2> QED
    BY <1>1, <1>2, <1>8, <2>1, <2>2
<1>9. ASSUME NEW p \in Pieces, NEW ok \in BOOLEAN, CompletePiece(c, p, ok)
      PROVE  OwnersInv'
  BY <1>0, <1>8, <1>9 DEF CompletePiece, CurrentMatchesPc
<1>10. ASSUME NEW t \in GiveBackTypes, NEW next, Report(c, t, next)
       PROVE  OwnersInv'
  <2>1. current[c] \in Pieces
    BY <1>0, <1>10 DEF Report, TypeOK
  <2> DEFINE m == GiveBack(t, c, current[c])
  <2>2. m \in Messages /\ \A d, p : GivesBack(m, d, p) => d = c /\ p = current[c]
    BY <2>1, GiveBackIsMessage DEF GivesBack, GiveBack
  <2>3. /\ mailbox' = Append(mailbox, m) /\ UNCHANGED <<held, reply>>
        /\ \A d \in Peers \ {c} : current'[d] = current[d]
        /\ current'[c] = NoPiece
    BY <1>0, <1>10 DEF Report, Send, TypeOK
  <2> HIDE DEF m
  <2>4. ASSUME NEW d \in Peers, NEW p \in Pieces, StandsOnce(d, p)
        PROVE  /\ InMail(d, p)' => InMail(d, p) \/ (d = c /\ p = current[c])
               /\ \A i, j \in DOMAIN mailbox' :
                    GivesBack(mailbox'[i], d, p) /\ GivesBack(mailbox'[j], d, p) => i = j
    <3>1. GivesBack(m, d, p) => ~InMail(d, p)
      BY <2>2, <2>4 DEF StandsOnce, Working
    <3> QED
      BY <1>0, <2>2, <2>3, <2>4, <3>1, MailBeforeAppend
  <2>5. \A p \in Pieces : current'[c] # p
    BY <2>3, NoPieceAssumption DEF Pieces
  <2>6. ASSUME NEW p \in Pieces, StandsOnce(c, p)
        PROVE  /\ Working(c, p)' => Working(c, p) /\ (InMail(c, p)' => InMail(c, p))
               /\ p \in held'[c] => current'[c] # p /\ reply'[c] # p
    <3>1. Working(c, p)' => Working(c, p) /\ p # current[c]
      BY <2>3, <2>5, <2>6 DEF Working, StandsOnce
    <3> QED
      BY <2>3, <2>4, <2>5, <2>6, <3>1 DEF StandsOnce
  <2>7. \A d \in Peers, p \in Pieces : StandsOnce(d, p) =>
          (InMail(d, p)' => InMail(d, p) \/ (d = c /\ Working(c, p)))
    BY <2>4 DEF Working
  <2> QED
    BY <1>1, <2>3, <2>4, <2>5, <2>6, <2>7
<1>11. CASE Completion(c)
  <2>1. ASSUME NEW ok \in BOOLEAN, WriteReturns(c, ok) \/ RecordReturns(c, ok)
        PROVE  OwnersInv'
    BY <1>3, <2>1 DEF WriteReturns, RecordReturns
  <2>2. ReportVerified(c) \/ ReportFailed(c) => OwnersInv'
    BY <1>10 DEF ReportVerified, ReportFailed, GiveBackTypes
  <2> QED
    BY <1>11, <2>1, <2>2 DEF Completion
<1>12. ASSUME NEW label \in {"releasing", "closing"}, BeginRelease(c, label)
       PROVE  OwnersInv'
  BY <1>3, <1>12 DEF BeginRelease
<1>13. CASE Teardown(c)
  <2>1. ASSUME NEW p \in Pieces, TakeHold(c, p)
        PROVE  OwnersInv'
    BY <1>8, <2>1 DEF TakeHold
  <2>2. SendRelease(c) => OwnersInv'
    BY <1>10 DEF SendRelease, GiveBackTypes
  <2>3. EndRelease(c) => OwnersInv'
    BY <1>3 DEF EndRelease
  <2> QED
    BY <1>13, <2>1, <2>2, <2>3 DEF Teardown
<1>14. ASSUME NEW landed \in BOOLEAN, DropTask(c, landed)
       PROVE  OwnersInv'
  <2>1. /\ DOMAIN mailbox' = DOMAIN mailbox
        /\ \A i \in DOMAIN mailbox :
             /\ mailbox'[i].type = mailbox[i].type
             /\ mailbox[i].type # "ClaimPiece" => mailbox'[i] = mailbox[i]
    BY <1>0, <1>14, DropKeepsMessages DEF DropTask, TypeOK
  <2>3. \A d, p : \A i \in DOMAIN mailbox :
          GivesBack(mailbox'[i], d, p) => GivesBack(mailbox[i], d, p)
    BY <2>1, ClaimsGiveNothingBack
  <2>4. /\ UNCHANGED held /\ current'[c] = NoPiece /\ reply'[c] = NoReply
        /\ \A d \in Peers \ {c} : current'[d] = current[d] /\ reply'[d] = reply[d]
    BY <1>0, <1>14 DEF DropTask, TypeOK
  <2>5. \A d \in Peers, p \in Pieces : StandsOnce(d, p) =>
          /\ InMail(d, p)' => InMail(d, p)
          /\ \A i, j \in DOMAIN mailbox' :
               GivesBack(mailbox'[i], d, p) /\ GivesBack(mailbox'[j], d, p) => i = j
    BY <2>1, <2>3 DEF InMail, StandsOnce
  <2>6. \A p \in Pieces : /\ Working(c, p)' => Working(c, p)
                          /\ current'[c] # p /\ reply'[c] # p
    BY <2>4, NoPieceAssumption, NoReplyAssumption DEF Working, Pieces
  <2> QED
    BY <1>1, <2>4, <2>5, <2>6
<1>15. ASSUME NEW q \in Pieces, DropHold(c, q)
       PROVE  OwnersInv'
  <2>1. /\ UNCHANGED <<current, reply>> /\ q \in held[c]
        /\ held'[c] = held[c] \ {q} /\ \A d \in Peers \ {c} : held'[d] = held[d]
    BY <1>0, <1>15 DEF DropHold, TypeOK
  <2>2. \A p \in Pieces : StandsOnce(c, p) =>
          /\ Working(c, p)' => Working(c, p) /\ p # q
          /\ p \in held'[c] => current'[c] # p /\ reply'[c] # p
          /\ current'[c] = p => reply'[c] # p
    BY <2>1 DEF Working, StandsOnce
  <2>3. CASE HasRoom
    <3> DEFINE m == GiveBack("Release", c, q)
    <3>1. m \in Messages /\ \A d, p : GivesBack(m, d, p) => d = c /\ p = q
      BY GiveBackIsMessage DEF GivesBack, GiveBack, GiveBackTypes
    <3>2. mailbox' = Append(mailbox, m)
      BY <1>15, <2>3 DEF DropHold
    <3> HIDE DEF m
    <3>3. ASSUME NEW d \in Peers, NEW p \in Pieces, StandsOnce(d, p)
          PROVE  /\ InMail(d, p)' => InMail(d, p) \/ (d = c /\ p = q)
                 /\ \A i, j \in DOMAIN mailbox' :
                      GivesBack(mailbox'[i], d, p) /\ GivesBack(mailbox'[j], d, p) => i = j
      <4>1. GivesBack(m, d, p) => ~InMail(d, p)
        BY <2>1, <3>1, <3>3 DEF StandsOnce, Working
      <4> QED
        BY <1>0, <3>1, <3>2, <3>3, <4>1, MailBeforeAppend
    <3>4. \A d \in Peers, p \in Pieces : StandsOnce(d, p) =>
            (InMail(d, p)' => InMail(d, p) \/ (d = c /\ Working(c, p)))
      BY <2>1, <3>3 DEF Working
    <3>5. \A p \in Pieces : StandsOnce(c, p) =>
            (Working(c, p)' => Working(c, p) /\ (InMail(c, p)' => InMail(c, p)))
      BY <2>2, <3>3
    <3> QED
      BY <1>1, <2>1, <2>2, <3>3, <3>4, <3>5
  <2>4. CASE ~HasRoom
    <3>1. UNCHANGED mailbox
      BY <1>15, <2>4 DEF DropHold
    <3> QED
      BY <1>1, <1>2, <2>1, <2>2, <3>1
  <2> QED
    BY <2>3, <2>4
<1>16. CASE EndDrop(c)
  BY <1>3, <1>16 DEF EndDrop
<1> QED
  BY <1>4, <1>5, <1>6, <1>7, <1>9, <1>11, <1>12, <1>13, <1>14, <1>15, <1>16
     DEF Connection

LEMMA NextKeepsOwned ==
  ASSUME TypeInv, TypeInv', OneAnswerPending, OwnersInv, [Next]_vars
  PROVE  OwnersInv'
<1>1. CASE Manager
  BY <1>1, ManagerKeepsOwned
<1>2. ASSUME NEW c \in Peers, Connection(c)
      PROVE  OwnersInv'
  BY <1>2, ConnectionKeepsOwned
<1>3. CASE UNCHANGED vars
  BY <1>3 DEF OwnersInv, OwnedOnce, OwnersAreRegistered, StandsOnce, Owns, Working,
              InMail, vars, managerVars, connVars
<1> QED
  BY <1>1, <1>2, <1>3 DEF Next

(* Every owner is registered, and stands for its piece in one way.         *)
THEOREM OwnersHold == Spec => []OwnersInv
BY InitOwnersInv, NextKeepsOwned, TypesHold, OneAnswer, PTL DEF Spec

(* Whoever works on a piece, or has a message about it on its way, is on   *)
(* the manager's books for it unless the piece is complete: no piece in    *)
(* hand is ever handed out as unclaimed.                                   *)
THEOREM OwnersRegistered == Spec => []OwnersAreRegistered
<1>1. OwnersInv => OwnersAreRegistered
  BY DEF OwnersInv
<1> QED
  BY <1>1, OwnersHold, PTL

(* No claim is ever given back twice, or given back while still in hand.   *)
THEOREM OwnedOnceHolds == Spec => []OwnedOnce
<1>1. OwnersInv => OwnedOnce
  BY DEF OwnersInv
<1> QED
  BY <1>1, OwnersHold, PTL

-----------------------------------------------------------------------------
(* Swarm implements PieceLeases.                                           *)

SafetyInv == TypeInv /\ StoredInv /\ OneAnswerPending /\ OwnersInv

LEMMA SamePairs ==
  ASSUME NEW S \in SUBSET (Peers \X Pieces), NEW T \in SUBSET (Peers \X Pieces),
         \A c \in Peers, p \in Pieces : <<c, p>> \in S <=> <<c, p>> \in T
  PROVE  S = T
OBVIOUS

(* The mapping, pair by pair, before and after a step.                     *)
LEMMA MappedPairs ==
  /\ Registered \in SUBSET (Peers \X Pieces) /\ InHand \in SUBSET (Peers \X Pieces)
  /\ \A c \in Peers, p \in Pieces : /\ <<c, p>> \in Registered <=> c \in requesters[p]
                                    /\ <<c, p>> \in InHand <=> Working(c, p)
BY DEF Registered, InHand

LEMMA MappedPairsAfter ==
  /\ Registered' \in SUBSET (Peers \X Pieces) /\ InHand' \in SUBSET (Peers \X Pieces)
  /\ \A c \in Peers, p \in Pieces : /\ <<c, p>> \in Registered' <=> c \in requesters'[p]
                                    /\ <<c, p>> \in InHand' <=> Working(c, p)'
BY DEF Registered, InHand

LEMMA MappedHolders ==
  ASSUME TypeOK, NEW p \in Pieces
  PROVE  Leases!Holders(p) = requesters[p]
<1>1. requesters[p] \subseteq Peers
  BY DEF TypeOK, ManagerTypeOK
<1> QED
  BY <1>1, MappedPairs DEF Leases!Holders

LEMMA SameCardinality == \A S : Leases!Cardinality(S) = Cardinality(S)
BY DEF Leases!Cardinality, Cardinality

LEMMA SameInHand ==
  ASSUME \A c \in Peers, p \in Pieces : Working(c, p)' <=> Working(c, p)
  PROVE  UNCHANGED InHand
BY MappedPairs, MappedPairsAfter, SamePairs

LEMMA SameRegistered ==
  ASSUME UNCHANGED requesters
  PROVE  UNCHANGED Registered
BY DEF Registered

LEMMA InitImplements == Init => Leases!Init
<1> SUFFICES ASSUME Init
             PROVE  Leases!Init
  OBVIOUS
<1>1. \A c \in Peers, p \in Pieces : ~Working(c, p) /\ c \notin requesters[p]
  BY NoPieceAssumption, NoReplyAssumption DEF Init, InitManager, Working, Pieces
<1>2. Registered = {} /\ InHand = {}
  BY <1>1 DEF Registered, InHand
<1> QED
  BY <1>2 DEF Init, InitManager, Leases!Init

(* A claim answered with a piece is a lease of it, in hand if anybody is   *)
(* still there to take the answer.                                         *)
LEMMA ClaimImplements ==
  ASSUME SafetyInv, HandleClaim
  PROVE  [Leases!Next]_(Leases!leaseVars)
<1> DEFINE m == Head(mailbox)
           choice == Choice(m.bitfield, m.peer)
<1>0. TypeOK /\ ManagerInv
  BY DEF SafetyInv, TypeInv
<1>1. m = mailbox[1] /\ 1 \in DOMAIN mailbox /\ m \in Messages
      /\ m.type = "ClaimPiece" /\ phase = "serving"
  BY <1>0, TailOfMailbox DEF HandleClaim, Received, TypeOK
<1>2. m.peer \in Peers /\ m.live \in BOOLEAN
  BY <1>1, MessageFields
<1>3. /\ reply' = IF m.live THEN [reply EXCEPT ![m.peer] = choice] ELSE reply
      /\ requesters' = IF choice = NoPiece THEN requesters
                        ELSE [requesters EXCEPT ![choice] = @ \cup {m.peer}]
      /\ UNCHANGED <<held, current, complete, phase, stored, extracted>>
  BY DEF HandleClaim, claim_piece, storeVars
<1>4. m.live => reply[m.peer] = NoReply
  BY <1>1, <1>2 DEF SafetyInv, OneAnswerPending, LiveClaim
<1>5. \/ choice = NoPiece
      \/ /\ choice \in Pieces
         /\ choice \notin complete
         /\ m.peer \notin requesters[choice]
         /\ Cardinality(requesters[choice]) < MaxPieceSharers
         /\ requesters[choice] = {} \/ is_endgame
  BY <1>0, ChoiceIsAllowed, ChoiceIsFreeOrShared
<1> HIDE DEF m, choice
<1>6. \A d \in Peers, p \in Pieces :
        reply'[d] = p <=> reply[d] = p \/ (m.live /\ d = m.peer /\ p = choice)
  BY <1>0, <1>2, <1>3, <1>4, NoReplyAssumption DEF TypeOK, Pieces
<1>7. \A d \in Peers, p \in Pieces :
        Working(d, p)' <=> Working(d, p) \/ (m.live /\ d = m.peer /\ p = choice)
  BY <1>3, <1>6 DEF Working
<1>8. CASE choice = NoPiece
  <2>1. \A p \in Pieces : p # choice
    BY <1>8, NoPieceAssumption DEF Pieces
  <2>2. UNCHANGED InHand
    BY <1>7, <2>1, SameInHand
  <2>3. UNCHANGED Registered
    BY <1>3, <1>8, SameRegistered
  <2> QED
    BY <1>3, <2>2, <2>3 DEF Leases!leaseVars
<1>9. CASE choice # NoPiece
  <2>1. choice \in Pieces
    BY <1>5, <1>9
  <2>2. Leases!Holders(choice) = requesters[choice]
    BY <1>0, <2>1, MappedHolders
  <2>3. is_endgame => \A q \in Pieces \ complete : Leases!Holders(q) # {}
    BY <1>0, MappedHolders DEF is_endgame
  <2>4. Leases!MayLease(m.peer, choice)
    BY <1>5, <1>9, <2>2, <2>3, SameCardinality DEF Leases!MayLease, Leases!Remaining
  <2>5. Registered' = Registered \cup {<<m.peer, choice>>}
    <3>1. \A d \in Peers, p \in Pieces :
            d \in requesters'[p] <=> d \in requesters[p] \/ (d = m.peer /\ p = choice)
      BY <1>0, <1>3, <1>9, <2>1 DEF TypeOK, ManagerTypeOK
    <3> QED
      BY <1>2, <2>1, <3>1, MappedPairs, MappedPairsAfter, SamePairs
  <2>6. InHand' = IF m.live THEN InHand \cup {<<m.peer, choice>>} ELSE InHand
    <3>1. CASE m.live
      <4>1. InHand' = InHand \cup {<<m.peer, choice>>}
        BY <1>2, <1>7, <2>1, <3>1, MappedPairs, MappedPairsAfter, SamePairs
      <4> QED
        BY <3>1, <4>1
    <3>2. CASE ~m.live
      BY <1>7, <3>2, SameInHand
    <3> QED
      BY <3>1, <3>2
  <2>7. Leases!Lease(m.peer, choice, m.live)
    BY <1>1, <1>3, <1>5, <1>9, <2>1, <2>4, <2>5, <2>6 DEF Leases!Lease, Leases!Remaining
  <2> QED
    BY <1>2, <2>1, <2>7 DEF Leases!Next
<1> QED
  BY <1>8, <1>9

(* A message that gives a piece back ends its lease or finishes it.        *)
LEMMA GiveBackImplements ==
  ASSUME SafetyInv, HandleRelease \/ HandleFailed \/ HandleVerified
  PROVE  [Leases!Next]_(Leases!leaseVars)
<1> DEFINE c == Head(mailbox).peer
           p == Head(mailbox).piece
<1>0. TypeOK /\ ManagerInv /\ TypeInv /\ OwnersInv
  BY DEF SafetyInv, TypeInv
<1>1. PICK t \in GiveBackTypes : Received(t)
  BY DEF HandleRelease, HandleFailed, HandleVerified, GiveBackTypes
<1>2. /\ 1 \in DOMAIN mailbox /\ Head(mailbox) = mailbox[1]
      /\ Head(mailbox) \in Messages /\ Head(mailbox).type = t
  BY <1>0, <1>1, TailOfMailbox DEF Received, TypeOK
<1>3. c \in Peers /\ p \in Pieces
  BY <1>2, MessageFields
<1>4. GivesBack(mailbox[1], c, p)
  <2>1. Head(mailbox) = [type |-> t, peer |-> c, piece |-> p]
    BY <1>2 DEF Messages, GiveBackTypes
  <2> QED
    BY <1>2, <2>1 DEF GivesBack, GiveBack
<1>5. ~Working(c, p) /\ (c \in requesters[p] \/ p \in complete)
  BY <1>0, <1>2, <1>3, <1>4
     DEF OwnersInv, OwnedOnce, OwnersAreRegistered, StandsOnce, Owns, InMail
<1>6. <<c, p>> \notin InHand /\ UNCHANGED InHand
  <2>1. UNCHANGED <<held, current, reply>>
    BY DEF HandleRelease, HandleFailed, HandleVerified, connVars
  <2> QED
    BY <1>3, <1>5, <2>1, MappedPairs, SameInHand DEF Working
<1>7. phase = "serving" /\ requesters \in [Pieces -> SUBSET Peers]
  BY <1>0, <1>1 DEF Received, TypeOK, ManagerTypeOK
<1>8. \A q \in complete : requesters[q] = {}
  BY <1>0 DEF ManagerInv, CompleteIsUnregistered
<1>9. ASSUME requesters' = [requesters EXCEPT ![p] = @ \ {c}],
             UNCHANGED <<phase, complete, extracted, stored>>
      PROVE  [Leases!Next]_(Leases!leaseVars)
  <2>1. \A d \in Peers, q \in Pieces :
          d \in requesters'[q] <=> d \in requesters[q] /\ ~(d = c /\ q = p)
    BY <1>3, <1>7, <1>9
  <2>2. Registered' = Registered \ {<<c, p>>}
    BY <1>3, <2>1, MappedPairs, MappedPairsAfter, SamePairs
  <2>3. CASE c \in requesters[p]
    <3>1. <<c, p>> \in Registered
      BY <1>3, <2>3, MappedPairs
    <3>2. Leases!Return(c, p)
      BY <1>6, <1>9, <2>2, <3>1 DEF Leases!Return
    <3> QED
      BY <1>3, <3>2 DEF Leases!Next
  <2>4. CASE c \notin requesters[p]
    <3>1. UNCHANGED Registered
      BY <1>3, <2>2, <2>4, MappedPairs
    <3> QED
      BY <1>6, <1>9, <3>1 DEF Leases!leaseVars
  <2> QED
    BY <2>3, <2>4
<1>10. CASE HandleRelease
  BY <1>9, <1>10 DEF HandleRelease, release, Unregister, storeVars
<1>11. CASE HandleFailed
  BY <1>9, <1>11 DEF HandleFailed, piece_failed, Unregister, storeVars
<1>12. CASE HandleVerified
  <2>1. piece_verified(p, c) /\ UNCHANGED stored
    BY <1>12 DEF HandleVerified, storeVars
  <2>2. CASE SecondReport(p)
    BY <1>9, <2>1, <2>2 DEF piece_verified
  <2>3. CASE ~SecondReport(p)
    <3>1. /\ requesters' = [requesters EXCEPT ![p] = {}]
          /\ complete' = complete \cup {p}
          /\ phase' \in {"finalizing", "serving"}
          /\ UNCHANGED extracted
      BY <2>1, <2>3 DEF piece_verified
    <3>2. p \notin complete /\ <<c, p>> \in Registered
      BY <1>3, <1>5, <2>3, MappedPairs DEF SecondReport
    <3>3. p \in stored
      BY <1>2, <1>12 DEF SafetyInv, StoredInv, WrittenBeforeReported, HandleVerified,
                         Received
    <3>4. Registered' = {l \in Registered : l[2] # p}
      <4>1. \A d \in Peers, q \in Pieces :
              d \in requesters'[q] <=> d \in requesters[q] /\ q # p
        BY <1>3, <1>7, <3>1
      <4>2. \A d \in Peers, q \in Pieces :
              <<d, q>> \in {l \in Registered : l[2] # p} <=> d \in requesters[q] /\ q # p
        BY MappedPairs
      <4> QED
        BY <4>1, <4>2, MappedPairs, MappedPairsAfter, SamePairs
    <3>5. (phase' # "starting") = (phase # "starting")
      BY <1>7, <3>1
    <3>6. Leases!Finish(c, p)
      BY <1>3, <1>6, <2>1, <3>1, <3>2, <3>3, <3>4, <3>5 DEF Leases!Finish, Leases!Remaining
    <3> QED
      BY <1>3, <3>6 DEF Leases!Next
  <2> QED
    BY <2>2, <2>3
<1> QED
  BY <1>10, <1>11, <1>12

LEMMA ManagerImplements ==
  ASSUME SafetyInv, Manager
  PROVE  [Leases!Next]_(Leases!leaseVars)
<1>0. TypeOK /\ ManagerInv
  BY DEF SafetyInv, TypeInv
<1>1. ASSUME UNCHANGED <<connVars, requesters>>
      PROVE  UNCHANGED <<InHand, Registered>>
  BY <1>1, SameInHand, SameRegistered DEF Working, connVars
<1>2. CASE StartManager
  <2>1. /\ phase = "starting" /\ phase' = "serving" /\ complete' = recorded
        /\ UNCHANGED <<requesters, extracted, connVars, stored>>
    BY <1>2 DEF StartManager, adopt_stored, storeVars
  <2>2. recorded \subseteq stored /\ recorded \in SUBSET Pieces
    BY <1>0 DEF SafetyInv, StoredInv, ServableIsStored, TypeOK
  <2>3. Leases!Open(recorded)
    BY <1>1, <2>1, <2>2 DEF Leases!Open
  <2> QED
    BY <2>2, <2>3 DEF Leases!Next
<1>3. ASSUME NEW ok \in BOOLEAN, FinishFinalize(ok)
      PROVE  [Leases!Next]_(Leases!leaseVars)
  <2>1. /\ phase = "finalizing" /\ phase' = "serving"
        /\ extracted' = (ok \/ extracted)
        /\ UNCHANGED <<requesters, complete, connVars, stored>>
    BY <1>3 DEF FinishFinalize, FinalizeReturns, storeVars
  <2>2. UNCHANGED <<InHand, Registered>>
    BY <1>1, <2>1
  <2>3. (phase' # "starting") = (phase # "starting")
    BY <2>1
  <2>4. complete = Pieces /\ extracted \in BOOLEAN
    BY <1>0, <2>1 DEF ManagerInv, FinalizesWhenWhole, ManagerTypeOK
  <2>5. CASE ok
    <3>1. Leases!Extract
      BY <2>1, <2>2, <2>3, <2>4, <2>5 DEF Leases!Extract, Leases!Remaining
    <3> QED
      BY <3>1 DEF Leases!Next
  <2>6. CASE ~ok
    BY <2>1, <2>2, <2>3, <2>4, <2>6 DEF Leases!leaseVars
  <2> QED
    BY <2>5, <2>6
<1> QED
  BY <1>2, <1>3, ClaimImplements, GiveBackImplements DEF Manager

(* A connection takes pieces out of hand and into the store.               *)
LEMMA ConnectionImplements ==
  ASSUME SafetyInv, NEW c \in Peers, Connection(c)
  PROVE  [Leases!Next]_(Leases!leaseVars)
<1>0. TypeOK /\ CurrentMatchesPc /\ OneAnswerPending /\ OwnersInv
  BY DEF SafetyInv, TypeInv
<1>1. UNCHANGED <<phase, complete, requesters, extracted, Registered>>
  BY ConnectionLeavesManager, SameRegistered DEF managerVars
<1>2. ASSUME UNCHANGED stored,
             \A d \in Peers, p \in Pieces : Working(d, p)' <=> Working(d, p)
      PROVE  [Leases!Next]_(Leases!leaseVars)
  BY <1>1, <1>2, SameInHand DEF Leases!leaseVars
<1>3. ASSUME UNCHANGED <<stored, held, current, reply>>
      PROVE  [Leases!Next]_(Leases!leaseVars)
  BY <1>2, <1>3 DEF Working
<1>4. ASSUME NEW q \in Pieces, NEW landed \in BOOLEAN, Working(c, q),
             stored' = IF landed THEN stored \cup {q} ELSE stored,
             \A d \in Peers, p \in Pieces :
               Working(d, p)' <=> Working(d, p) /\ ~(d = c /\ p = q)
      PROVE  [Leases!Next]_(Leases!leaseVars)
  <2>1. <<c, q>> \in InHand /\ InHand' = InHand \ {<<c, q>>}
    BY <1>4, MappedPairs, MappedPairsAfter, SamePairs
  <2>2. Leases!Stop(c, q, landed)
    BY <1>1, <1>4, <2>1 DEF Leases!Stop
  <2> QED
    BY <1>4, <2>2 DEF Leases!Next
<1>5. CASE ReceiveClaim(c)
  <2>1. /\ \A d \in Peers \ {c} : held'[d] = held[d] /\ reply'[d] = reply[d]
        /\ reply'[c] = NoReply
        /\ UNCHANGED <<stored, current>>
        /\ held'[c] = IF reply[c] = NoPiece THEN held[c] ELSE held[c] \cup {reply[c]}
    BY <1>0, <1>5 DEF ReceiveClaim, TypeOK, storeVars
  <2>2. \A d \in Peers, p \in Pieces : Working(d, p)' <=> Working(d, p)
    BY <2>1, NoPieceAssumption, NoReplyAssumption DEF Working, Pieces
  <2> QED
    BY <1>2, <2>1, <2>2
<1>6. ASSUME NEW q \in Pieces, q \in held[c], current[c] = NoPiece,
             UNCHANGED <<stored, reply>>,
             held' = [held EXCEPT ![c] = @ \ {q}],
             current' = [current EXCEPT ![c] = q]
      PROVE  [Leases!Next]_(Leases!leaseVars)
  <2>1. /\ \A d \in Peers \ {c} : held'[d] = held[d] /\ current'[d] = current[d]
        /\ current'[c] = q /\ held'[c] = held[c] \ {q}
    BY <1>0, <1>6 DEF TypeOK
  <2>2. \A d \in Peers, p \in Pieces : Working(d, p)' <=> Working(d, p)
    BY <1>6, <2>1, NoPieceAssumption DEF Working, Pieces
  <2> QED
    BY <1>2, <1>6, <2>2
<1>7. ASSUME NEW p \in Pieces, NEW ok \in BOOLEAN, CompletePiece(c, p, ok)
      PROVE  [Leases!Next]_(Leases!leaseVars)
  BY <1>0, <1>6, <1>7 DEF CompletePiece, CurrentMatchesPc, storeVars
<1>8. ASSUME NEW ok \in BOOLEAN, WriteReturns(c, ok)
      PROVE  [Leases!Next]_(Leases!leaseVars)
  <2>1. current[c] \in Pieces /\ UNCHANGED <<held, current, reply>>
        /\ stored' = IF ok THEN stored \cup {current[c]} ELSE stored
    BY <1>0, <1>8 DEF WriteReturns, CurrentMatchesPc
  <2>2. UNCHANGED InHand /\ <<c, current[c]>> \in InHand
    BY <2>1, SameInHand, MappedPairs DEF Working
  <2>3. CASE ok
    <3>1. Leases!Store(c, current[c])
      BY <1>1, <2>1, <2>2, <2>3 DEF Leases!Store
    <3> QED
      BY <2>1, <3>1 DEF Leases!Next
  <2> QED
    BY <1>3, <2>1, <2>3
<1>9. ASSUME NEW t, NEW next, Report(c, t, next)
      PROVE  [Leases!Next]_(Leases!leaseVars)
  <2>1. /\ current[c] \in Pieces /\ UNCHANGED <<held, reply, stored>>
        /\ \A d \in Peers \ {c} : current'[d] = current[d]
        /\ current'[c] = NoPiece
    BY <1>0, <1>9 DEF Report, TypeOK, storeVars
  <2>2. current[c] \notin held[c] /\ reply[c] # current[c]
    BY <1>0, <2>1 DEF OwnersInv, OwnedOnce, StandsOnce
  <2>3. \A d \in Peers, p \in Pieces :
          Working(d, p)' <=> Working(d, p) /\ ~(d = c /\ p = current[c])
    BY <2>1, <2>2, NoPieceAssumption DEF Working, Pieces
  <2>4. Working(c, current[c])
    BY DEF Working
  <2> QED
    BY <1>4, <2>1, <2>3, <2>4
<1>10. CASE Completion(c)
  <2>1. ASSUME NEW ok \in BOOLEAN, RecordReturns(c, ok)
        PROVE  [Leases!Next]_(Leases!leaseVars)
    BY <1>3, <2>1 DEF RecordReturns
  <2>2. ReportVerified(c) \/ ReportFailed(c) => [Leases!Next]_(Leases!leaseVars)
    BY <1>9 DEF ReportVerified, ReportFailed
  <2> QED
    BY <1>8, <1>10, <2>1, <2>2 DEF Completion
<1>11. CASE Teardown(c)
  <2>1. ASSUME NEW p \in Pieces, TakeHold(c, p)
        PROVE  [Leases!Next]_(Leases!leaseVars)
    BY <1>6, <2>1 DEF TakeHold, storeVars
  <2>2. SendRelease(c) => [Leases!Next]_(Leases!leaseVars)
    BY <1>9 DEF SendRelease
  <2>3. EndRelease(c) => [Leases!Next]_(Leases!leaseVars)
    BY <1>3 DEF EndRelease, storeVars
  <2> QED
    BY <1>11, <2>1, <2>2, <2>3 DEF Teardown
<1>12. ASSUME NEW landed \in BOOLEAN, DropTask(c, landed)
       PROVE  [Leases!Next]_(Leases!leaseVars)
  <2>1. /\ UNCHANGED held /\ current'[c] = NoPiece /\ reply'[c] = NoReply
        /\ \A d \in Peers \ {c} : current'[d] = current[d] /\ reply'[d] = reply[d]
        /\ stored' = IF landed /\ pc[c] = "writing"
                     THEN stored \cup {current[c]} ELSE stored
    BY <1>0, <1>12 DEF DropTask, TypeOK
  <2>2. CASE reply[c] \in Pieces
    <3>1. pc[c] = "claiming" /\ current[c] = NoPiece /\ reply[c] \notin held[c]
      BY <1>0, <2>2, NoReplyAssumption DEF OneAnswerPending, CurrentMatchesPc,
         OwnersInv, OwnedOnce, StandsOnce, Pieces
    <3>2. \A d \in Peers, p \in Pieces :
            Working(d, p)' <=> Working(d, p) /\ ~(d = c /\ p = reply[c])
      BY <2>1, <2>2, <3>1, NoPieceAssumption, NoReplyAssumption DEF Working, Pieces
    <3>3. Working(c, reply[c]) /\ UNCHANGED stored
      BY <2>1, <3>1 DEF Working
    <3> QED
      BY <1>4, <2>2, <3>2, <3>3
  <2>3. CASE reply[c] \notin Pieces /\ current[c] \in Pieces
    <3>1. current[c] \notin held[c]
      BY <1>0, <2>3 DEF OwnersInv, OwnedOnce, StandsOnce
    <3>2. \A d \in Peers, p \in Pieces :
            Working(d, p)' <=> Working(d, p) /\ ~(d = c /\ p = current[c])
      BY <2>1, <2>3, <3>1, NoPieceAssumption, NoReplyAssumption DEF Working, Pieces
    <3>3. Working(c, current[c]) /\ (landed /\ pc[c] = "writing") \in BOOLEAN
      BY DEF Working
    <3> QED
      BY <1>4, <2>1, <2>3, <3>2, <3>3
  <2>4. CASE reply[c] \notin Pieces /\ current[c] \notin Pieces
    <3>1. UNCHANGED stored
      BY <1>0, <2>1, <2>4 DEF CurrentMatchesPc
    <3>2. \A d \in Peers, p \in Pieces : Working(d, p)' <=> Working(d, p)
      BY <2>1, <2>4, NoPieceAssumption, NoReplyAssumption DEF Working, Pieces
    <3> QED
      BY <1>2, <3>1, <3>2
  <2> QED
    BY <2>2, <2>3, <2>4
<1>13. ASSUME NEW q \in Pieces, DropHold(c, q)
       PROVE  [Leases!Next]_(Leases!leaseVars)
  <2>1. /\ UNCHANGED <<current, reply, stored>> /\ q \in held[c]
        /\ held'[c] = held[c] \ {q} /\ \A d \in Peers \ {c} : held'[d] = held[d]
    BY <1>0, <1>13 DEF DropHold, TypeOK, storeVars
  <2>2. current[c] # q /\ reply[c] # q
    BY <1>0, <2>1 DEF OwnersInv, OwnedOnce, StandsOnce
  <2>3. \A d \in Peers, p \in Pieces :
          Working(d, p)' <=> Working(d, p) /\ ~(d = c /\ p = q)
    BY <2>1, <2>2 DEF Working
  <2>4. Working(c, q)
    BY <2>1 DEF Working
  <2> QED
    BY <1>4, <2>1, <2>3, <2>4
<1>14. ASSUME \/ \E bits \in SUBSET Pieces : Connect(c, bits)
              \/ \E p \in Pieces : PeerHas(c, p)
              \/ SendClaim(c)
              \/ \E label \in {"releasing", "closing"} : BeginRelease(c, label)
              \/ EndDrop(c)
       PROVE  [Leases!Next]_(Leases!leaseVars)
  BY <1>3, <1>14 DEF Connect, PeerHas, SendClaim, BeginRelease, EndDrop, storeVars
<1> QED
  BY <1>5, <1>7, <1>10, <1>11, <1>12, <1>13, <1>14 DEF Connection

LEMMA NextImplements ==
  ASSUME SafetyInv, [Next]_vars
  PROVE  [Leases!Next]_(Leases!leaseVars)
<1>1. CASE Manager
  BY <1>1, ManagerImplements
<1>2. ASSUME NEW c \in Peers, Connection(c)
      PROVE  [Leases!Next]_(Leases!leaseVars)
  BY <1>2, ConnectionImplements
<1>3. CASE UNCHANGED vars
  BY <1>3, SameInHand, SameRegistered
     DEF Working, Leases!leaseVars, vars, managerVars, connVars, storeVars
<1> QED
  BY <1>1, <1>2, <1>3 DEF Next

(* The claims of any number of connections, over any mailbox, with tasks   *)
(* dropped anywhere, implement leases: whatever PieceLeases promises holds *)
(* of them.                                                                *)
THEOREM SwarmImplementsLeases == Spec => ImplementsLeases
<1>1. Spec => []SafetyInv
  BY TypesHold, StoredHolds, OneAnswer, OwnersHold, PTL DEF SafetyInv
<1> QED
  BY <1>1, InitImplements, NextImplements, PTL DEF Spec, ImplementsLeases, Leases!Spec

-----------------------------------------------------------------------------
(* What leases promise, and so what the swarm keeps.                       *)

LEMMA InitLeaseInv == Leases!Init => Leases!LeaseInv
BY DEF Leases!Init, Leases!LeaseInv, Leases!LeaseTypeOK, Leases!NothingBeforeOpen,
       Leases!WorkIsLeased, Leases!DoneIsStored, Leases!ExtractedIsWhole

LEMMA NextKeepsLeases ==
  ASSUME Leases!LeaseInv, [Leases!Next]_(Leases!leaseVars)
  PROVE  Leases!LeaseInv'
<1> USE DEF Leases!LeaseInv, Leases!LeaseTypeOK, Leases!NothingBeforeOpen,
            Leases!WorkIsLeased, Leases!DoneIsStored, Leases!ExtractedIsWhole
<1>1. ASSUME NEW S \in SUBSET Pieces, Leases!Open(S)
      PROVE  Leases!LeaseInv'
  BY <1>1 DEF Leases!Open
<1>2. ASSUME NEW c \in Peers, NEW p \in Pieces, NEW taken \in BOOLEAN,
             Leases!Lease(c, p, taken)
      PROVE  Leases!LeaseInv'
  BY <1>2 DEF Leases!Lease, Leases!Remaining
<1>3. ASSUME NEW c \in Peers, NEW p \in Pieces, Leases!Store(c, p)
      PROVE  Leases!LeaseInv'
  BY <1>3 DEF Leases!Store
<1>4. ASSUME NEW c \in Peers, NEW p \in Pieces, NEW landed \in BOOLEAN,
             Leases!Stop(c, p, landed)
      PROVE  Leases!LeaseInv'
  BY <1>4 DEF Leases!Stop
<1>5. ASSUME NEW c \in Peers, NEW p \in Pieces, Leases!Return(c, p)
      PROVE  Leases!LeaseInv'
  BY <1>5 DEF Leases!Return
<1>6. ASSUME NEW c \in Peers, NEW p \in Pieces, Leases!Finish(c, p)
      PROVE  Leases!LeaseInv'
  BY <1>6 DEF Leases!Finish, Leases!Remaining
<1>7. CASE Leases!Extract
  BY <1>7 DEF Leases!Extract, Leases!Remaining
<1>8. CASE UNCHANGED Leases!leaseVars
  BY <1>8 DEF Leases!leaseVars
<1> QED
  BY <1>1, <1>2, <1>3, <1>4, <1>5, <1>6, <1>7, <1>8 DEF Leases!Next

(* Work is leased unless it is done, what is done is stored and free of    *)
(* leases, and the payload is only written out whole: the swarm keeps what *)
(* leases promise, with dropped tasks or without.                          *)
THEOREM LeasesHold == Spec => []Leases!LeaseInv
<1>1. Leases!Spec => []Leases!LeaseInv
  BY InitLeaseInv, NextKeepsLeases, PTL DEF Leases!Spec
<1> QED
  BY <1>1, SwarmImplementsLeases, PTL DEF ImplementsLeases

(* Nothing done is ever undone, and no piece is taken from under whoever   *)
(* has it in hand.                                                         *)
THEOREM LeasesNeverUndone == Spec => Leases!NothingUndone
<1>1. Leases!LeaseInv /\ [Leases!Next]_(Leases!leaseVars) =>
        [/\ complete \subseteq complete' /\ stored \subseteq stored'
         /\ \A l \in Registered \cap InHand :
              l \in Registered' \/ l[2] \in complete' \/ l \notin InHand']_(Leases!leaseVars)
  <2> SUFFICES ASSUME Leases!LeaseInv, Leases!Next
               PROVE  /\ complete \subseteq complete' /\ stored \subseteq stored'
                      /\ \A l \in Registered \cap InHand :
                           l \in Registered' \/ l[2] \in complete' \/ l \notin InHand'
    OBVIOUS
  <2>1. complete \subseteq complete' /\ stored \subseteq stored'
    BY ZenonT(40) DEF Leases!Next, Leases!Open, Leases!Lease, Leases!Store, Leases!Stop,
           Leases!Return, Leases!Finish, Leases!Extract, Leases!LeaseInv,
           Leases!NothingBeforeOpen
  <2>2. \A l \in Registered \cap InHand :
          l \in Registered' \/ l[2] \in complete' \/ l \notin InHand'
    BY DEF Leases!Next, Leases!Open, Leases!Lease, Leases!Store, Leases!Stop,
           Leases!Return, Leases!Finish, Leases!Extract, Leases!LeaseInv,
           Leases!LeaseTypeOK
  <2> QED
    BY <2>1, <2>2
<1> QED
  BY <1>1, LeasesHold, SwarmImplementsLeases, PTL
     DEF ImplementsLeases, Leases!Spec, Leases!NothingUndone
=============================================================================
