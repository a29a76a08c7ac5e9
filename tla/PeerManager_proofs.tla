-------------------------- MODULE PeerManager_proofs --------------------------
(***************************************************************************)
(* What holds of dialling for any peers, callers, caps and channel sizes,  *)
(* however connections end.                                                *)
(*                                                                         *)
(* The argument.  A peer the explorer passed on is in one of six places,   *)
(* and every step moves one peer from one of them to another (OnePlace):   *)
(* so `push` never finds the peer it puts back, and dedup, which never     *)
(* forgets, names the peers in the six places until dialling is given up.  *)
(* The counter is the number of connections supervised, because a task     *)
(* leaves `live` only where the counter goes down.                         *)
(***************************************************************************)
EXTENDS PeerManager, FiniteSetTheorems, SequenceTheorems, TLAPS

NoRepeat(s) == \A x, y \in DOMAIN s : s[x] = s[y] => x = y

(* The peers with the explorer, in the channel, among the candidates, asked*)
(* about, and on a connection we dialled.                                  *)
InForward == {forwarding} \ {NoPeer}
InPopped == {popped} \ {NoPeer}
OnConnection == {live[id].peer : id \in Outbound}

Placed == InForward \cup InPopped \cup Elements(channel) \cup Elements(fresh)
          \cup Elements(retry) \cup OnConnection

Apart(A, B, C, D, E, F) ==
  /\ A \cap B = {} /\ A \cap C = {} /\ A \cap D = {} /\ A \cap E = {} /\ A \cap F = {}
  /\ B \cap C = {} /\ B \cap D = {} /\ B \cap E = {} /\ B \cap F = {}
  /\ C \cap D = {} /\ C \cap E = {} /\ C \cap F = {}
  /\ D \cap E = {} /\ D \cap F = {} /\ E \cap F = {}

OnePlace ==
  /\ Apart(InForward, InPopped, Elements(channel), Elements(fresh), Elements(retry),
           OnConnection)
  /\ NoRepeat(channel) /\ NoRepeat(fresh) /\ NoRepeat(retry)
  /\ \A id, jd \in Outbound : live[id].peer = live[jd].peer => id = jd
  /\ Placed \subseteq dedup
  /\ ~download_completed => dedup \subseteq Placed

AnswerFits == answer # "none" => popped # NoPeer

DiallingInv == TypeOK /\ AnswerFits /\ ActiveIsExact /\ OnePlace

USE MaxPeersAssumption, ChannelAssumption, TasksAssumption, NoPeerAssumption

-----------------------------------------------------------------------------
(* Queues.                                                                 *)

LEMMA AppendElements ==
  ASSUME NEW S, NEW s \in Seq(S), NEW e \in S
  PROVE  /\ Append(s, e) \in Seq(S) /\ Len(Append(s, e)) = Len(s) + 1
         /\ Elements(Append(s, e)) = Elements(s) \cup {e}
         /\ NoRepeat(s) /\ e \notin Elements(s) => NoRepeat(Append(s, e))
<1> DEFINE t == Append(s, e)
<1>1. /\ Len(s) \in Nat /\ DOMAIN s = 1 .. Len(s)
      /\ t \in Seq(S) /\ Len(t) = Len(s) + 1
      /\ \A i \in 1 .. Len(s) : t[i] = s[i]
      /\ t[Len(s) + 1] = e
  BY LenProperties, AppendProperties
<1>2. DOMAIN t = 1 .. Len(s) + 1
  BY <1>1, LenProperties
<1> HIDE DEF t
<1>3. ASSUME NEW i \in DOMAIN t
      PROVE  \/ i \in DOMAIN s /\ t[i] = s[i]
             \/ i = Len(s) + 1 /\ t[i] = e
  BY <1>1, <1>2
<1>4. Len(s) + 1 \in DOMAIN t /\ \A i \in DOMAIN s : i \in DOMAIN t
  BY <1>1, <1>2
<1>5. Elements(t) = Elements(s) \cup {e}
  BY <1>1, <1>3, <1>4 DEF Elements
<1>6. ASSUME NoRepeat(s), e \notin Elements(s) PROVE NoRepeat(t)
  BY <1>3, <1>6 DEF NoRepeat, Elements
<1> QED
  BY <1>1, <1>5, <1>6 DEF t

LEMMA TailElements ==
  ASSUME NEW S, NEW s \in Seq(S), s # <<>>, NoRepeat(s)
  PROVE  /\ Head(s) \in S /\ Head(s) \in Elements(s)
         /\ Tail(s) \in Seq(S) /\ Len(Tail(s)) <= Len(s)
         /\ Elements(Tail(s)) = Elements(s) \ {Head(s)}
         /\ NoRepeat(Tail(s))
<1>1. /\ Len(s) \in Nat /\ DOMAIN s = 1 .. Len(s) /\ Len(s) > 0
      /\ Head(s) = s[1] /\ Head(s) \in S /\ Tail(s) \in Seq(S) /\ Len(Tail(s)) = Len(s) - 1
  BY LenProperties, EmptySeq, HeadTailProperties
<1>2. DOMAIN Tail(s) = 1 .. Len(s) - 1
  BY <1>1, LenProperties
<1>3. ASSUME NEW i \in 1 .. Len(s) - 1
      PROVE  i + 1 \in 1 .. Len(s) /\ i + 1 # 1 /\ Tail(s)[i] = s[i + 1]
  BY <1>1, HeadTailProperties
<1>4. Head(s) \in Elements(s)
  BY <1>1 DEF Elements
<1>5. ASSUME NEW v \in Elements(Tail(s)) PROVE v \in Elements(s) /\ v # Head(s)
  <2>1. PICK i \in 1 .. Len(s) - 1 : Tail(s)[i] = v
    BY <1>2 DEF Elements
  <2>2. v = s[i + 1] /\ i + 1 \in DOMAIN s /\ 1 \in DOMAIN s /\ i + 1 # 1
    BY <1>1, <1>3, <2>1
  <2> QED
    BY <1>1, <2>2 DEF Elements, NoRepeat
<1>6. ASSUME NEW v \in Elements(s), v # Head(s) PROVE v \in Elements(Tail(s))
  <2>1. PICK i \in 1 .. Len(s) : s[i] = v
    BY <1>1 DEF Elements
  <2>2. i - 1 \in 1 .. Len(s) - 1 /\ (i - 1) + 1 = i
    BY <1>1, <1>6, <2>1
  <2>3. Tail(s)[i - 1] = v
    BY <1>3, <2>1, <2>2
  <2> QED
    BY <1>2, <2>2, <2>3 DEF Elements
<1>7. ASSUME NEW x \in DOMAIN Tail(s), NEW y \in DOMAIN Tail(s), Tail(s)[x] = Tail(s)[y]
      PROVE  x = y
  <2>1. x \in Int /\ y \in Int /\ s[x + 1] = s[y + 1]
        /\ x + 1 \in DOMAIN s /\ y + 1 \in DOMAIN s
    BY <1>1, <1>2, <1>3, <1>7
  <2>2. x + 1 = y + 1
    BY <2>1 DEF NoRepeat
  <2> QED
    BY <2>1, <2>2
<1> QED
  BY <1>1, <1>4, <1>5, <1>6, <1>7 DEF NoRepeat

(* A peer in neither queue is pushed to the end of one of them.            *)
LEMMA PushElements ==
  ASSUME TypeOK, OnePlace, NEW p \in Peers, NEW failed \in BOOLEAN,
         p \notin Elements(fresh), p \notin Elements(retry), push(p, failed)
  PROVE  /\ fresh' \in Seq(Peers) /\ retry' \in Seq(Peers)
         /\ NoRepeat(fresh') /\ NoRepeat(retry')
         /\ failed => /\ Elements(fresh') = Elements(fresh)
                      /\ Elements(retry') = Elements(retry) \cup {p}
         /\ ~failed => /\ Elements(fresh') = Elements(fresh) \cup {p}
                       /\ Elements(retry') = Elements(retry)
<1>1. fresh \in Seq(Peers) /\ retry \in Seq(Peers) /\ NoRepeat(fresh) /\ NoRepeat(retry)
  BY DEF TypeOK, OnePlace
<1>2. CASE failed
  <2>1. fresh' = fresh /\ retry' = Append(retry, p)
    BY <1>2 DEF push, Without
  <2> QED
    BY <1>1, <1>2, <2>1, AppendElements
<1>3. CASE ~failed
  <2>1. fresh' = Append(fresh, p) /\ retry' = retry
    BY <1>3 DEF push, Without
  <2> QED
    BY <1>1, <1>3, <2>1, AppendElements
<1> QED
  BY <1>2, <1>3

-----------------------------------------------------------------------------
(* Connections.                                                            *)

Lives == [Tasks -> [peer : Peers \cup Callers \cup {NoPeer}, outbound : BOOLEAN, state : States]]

LEMMA SpawnAdds ==
  ASSUME live \in Lives, NEW id \in Free, NEW p \in Peers \cup Callers,
         NEW outbound \in BOOLEAN, Spawn(id, p, outbound)
  PROVE  /\ live' \in Lives
         /\ id \notin Live /\ Live' = Live \cup {id}
         /\ Outbound' = IF outbound THEN Outbound \cup {id} ELSE Outbound
         /\ \A jd \in Outbound : live'[jd] = live[jd]
         /\ live'[id].peer = p
<1> USE DEF Lives, States
<1>1. id \in Tasks /\ live[id].state = "free"
  BY DEF Free
<1>2. live' = [live EXCEPT ![id] = [peer |-> p, outbound |-> outbound, state |-> "running"]]
  BY DEF Spawn
<1>3. /\ live' \in Lives
      /\ \A jd \in Tasks : jd # id => live'[jd] = live[jd]
      /\ live'[id].peer = p /\ live'[id].outbound = outbound /\ live'[id].state = "running"
  BY <1>1, <1>2
<1>4. Free' = Free \ {id}
  BY <1>1, <1>3 DEF Free
<1>5. Live' = Live \cup {id} /\ id \notin Live
  BY <1>1, <1>4 DEF Live, Free
<1>6. Outbound' = IF outbound THEN Outbound \cup {id} ELSE Outbound
  BY <1>3, <1>5 DEF Outbound, Live
<1> QED
  BY <1>1, <1>3, <1>5, <1>6 DEF Outbound, Live, Free

LEMMA JoinTakes ==
  ASSUME live \in Lives, NEW id \in Tasks, live[id].state # "free",
         live' = [live EXCEPT ![id] = NoTask]
  PROVE  /\ live' \in Lives
         /\ id \in Live /\ Live' = Live \ {id} /\ Outbound' = Outbound \ {id}
         /\ live[id].outbound <=> id \in Outbound
         /\ \A jd \in Outbound' : live'[jd] = live[jd]
<1> USE DEF Lives, States
<1>1. /\ live' \in Lives
      /\ \A jd \in Tasks : jd # id => live'[jd] = live[jd]
      /\ live'[id].state = "free"
  BY DEF NoTask
<1>2. Free' = Free \cup {id} /\ id \notin Free
  BY <1>1 DEF Free
<1>3. Live' = Live \ {id} /\ id \in Live
  BY <1>2 DEF Live
<1> QED
  BY <1>1, <1>3 DEF Outbound, Live

LEMMA EndingStays ==
  ASSUME live \in Lives, NEW id \in Tasks, NEW how \in {"returned", "panicked"},
         live[id].state = "running", live' = [live EXCEPT ![id].state = how]
  PROVE  /\ live' \in Lives /\ Live' = Live /\ Outbound' = Outbound
         /\ \A jd \in Tasks : live'[jd].peer = live[jd].peer
<1> USE DEF Lives, States
<1>1. /\ live' \in Lives
      /\ \A jd \in Tasks : /\ live'[jd].peer = live[jd].peer
                           /\ live'[jd].outbound = live[jd].outbound
                           /\ live'[jd].state = "free" <=> live[jd].state = "free"
  <2>1. live' \in Lives
    OBVIOUS
  <2>2. \A jd \in Tasks : jd # id => live'[jd] = live[jd]
    OBVIOUS
  <2>3. live'[id] = [live[id] EXCEPT !.state = how]
         /\ live[id] \in [peer : Peers \cup Callers \cup {NoPeer}, outbound : BOOLEAN, state : States]
    OBVIOUS
  <2>4. /\ live'[id].peer = live[id].peer /\ live'[id].outbound = live[id].outbound
        /\ live'[id].state = how
    BY <2>3
  <2> QED
    BY <2>1, <2>2, <2>4
<1>2. Free' = Free
  BY <1>1 DEF Free
<1> QED
  BY <1>1, <1>2 DEF Live, Outbound

LEMMA LiveIsFinite == IsFiniteSet(Live) /\ Cardinality(Live) \in Nat
<1>1. Live \in SUBSET Tasks
  BY DEF Live
<1> QED
  BY <1>1, FS_Subset, FS_CardinalityType

-----------------------------------------------------------------------------
(* A peer a step finds in a place is one of Peers, and what it pushes is   *)
(* in neither queue.                                                       *)
LEMMA ReceivedIsNew ==
  ASSUME DiallingInv, Receive
  PROVE  /\ Head(channel) \in Peers \cap Elements(channel)
         /\ Head(channel) \notin Elements(fresh) /\ Head(channel) \notin Elements(retry)
         /\ push(Head(channel), FALSE)
         /\ channel' \in Seq(Peers) /\ Len(channel') <= Len(channel) /\ NoRepeat(channel')
         /\ Elements(channel') = Elements(channel) \ {Head(channel)}
<1>1. channel \in Seq(Peers) /\ channel # <<>> /\ NoRepeat(channel) /\ channel' = Tail(channel)
  BY DEF DiallingInv, TypeOK, OnePlace, Receive
<1>2. Elements(channel) \cap Elements(fresh) = {} /\ Elements(channel) \cap Elements(retry) = {}
  BY DEF DiallingInv, OnePlace, Apart
<1>3. /\ Head(channel) \in Peers /\ Head(channel) \in Elements(channel)
      /\ Tail(channel) \in Seq(Peers) /\ Len(Tail(channel)) <= Len(channel)
      /\ Elements(Tail(channel)) = Elements(channel) \ {Head(channel)}
      /\ NoRepeat(Tail(channel))
  BY <1>1, TailElements
<1>4. push(Head(channel), FALSE)
  BY DEF Receive
<1> QED
  BY <1>1, <1>2, <1>3, <1>4

LEMMA JoinedIsNew ==
  ASSUME DiallingInv, NEW id \in Outbound
  PROVE  /\ live[id].peer \in Peers \cap OnConnection
         /\ live[id].peer \notin Elements(fresh) /\ live[id].peer \notin Elements(retry)
<1>1. live[id].peer \in OnConnection
  BY DEF OnConnection
<1>2. live[id].peer \in dedup
  BY <1>1 DEF DiallingInv, OnePlace, Placed
<1> QED
  BY <1>1, <1>2 DEF DiallingInv, TypeOK, OnePlace, Apart

-----------------------------------------------------------------------------
(* The steps.                                                              *)

LEMMA InitDialling == Init => DiallingInv
<1> SUFFICES ASSUME Init PROVE DiallingInv
  OBVIOUS
<1>1. /\ channel \in Seq(Peers) /\ fresh \in Seq(Peers) /\ retry \in Seq(Peers)
      /\ Len(channel) = 0 /\ DOMAIN channel = {} /\ DOMAIN fresh = {} /\ DOMAIN retry = {}
  BY DEF Init
<1>2. live \in Lives
  BY DEF Init, NoTask, Lives, States
<1>3. Live = {}
  BY DEF Init, NoTask, Live, Free
<1>4. TypeOK
  <2>1. 0 <= ChannelSize /\ active_peers \in Nat
    BY DEF Init
  <2>2. forwarding \in Peers \cup {NoPeer} /\ popped \in Peers \cup {NoPeer} /\ dedup \in SUBSET Peers
    BY DEF Init
  <2>3. /\ answer \in {"none", "yes", "no"} /\ download_completed \in BOOLEAN
        /\ verified \in BOOLEAN /\ finalizing \in BOOLEAN
    BY DEF Init
  <2> QED
    BY <1>1, <1>2, <2>1, <2>2, <2>3 DEF TypeOK, Lives
<1>5. ActiveIsExact
  BY <1>3, FS_EmptySet DEF Init, ActiveIsExact
<1>6. /\ InForward = {} /\ InPopped = {} /\ Elements(channel) = {} /\ Elements(fresh) = {}
      /\ Elements(retry) = {} /\ Outbound = {} /\ OnConnection = {}
  BY <1>1, <1>3 DEF Init, InForward, InPopped, Elements, Outbound, OnConnection
<1>7. OnePlace
  BY <1>1, <1>6 DEF Init, OnePlace, Apart, NoRepeat, Placed
<1> QED
  BY <1>4, <1>5, <1>7 DEF Init, DiallingInv, AnswerFits

LEMMA NextKeepsType == DiallingInv /\ [Next]_vars => TypeOK' /\ AnswerFits'
<1> SUFFICES ASSUME DiallingInv, [Next]_vars PROVE TypeOK' /\ AnswerFits'
  OBVIOUS
<1>a. TypeOK /\ AnswerFits /\ live \in Lives
  BY DEF DiallingInv, TypeOK, Lives
<1>b. /\ fresh \in Seq(Peers) /\ retry \in Seq(Peers) /\ NoRepeat(fresh) /\ NoRepeat(retry)
      /\ Len(channel) \in Nat
  BY LenProperties DEF DiallingInv, TypeOK, OnePlace
<1> USE DEF TypeOK, AnswerFits, Lives, manager, queue, explorer
<1>1. ASSUME NEW p \in Peers, PeerNamed(p) PROVE TypeOK' /\ AnswerFits'
  BY <1>1, <1>a DEF PeerNamed
<1>2. CASE Forward
  <2>1. channel' \in Seq(Peers) /\ Len(channel') <= ChannelSize
    BY <1>2, <1>a, <1>b, AppendElements DEF Forward, HasRoom
  <2> QED
    BY <1>2, <1>a, <2>1 DEF Forward
<1>3. CASE Receive
  <2>1. /\ channel' \in Seq(Peers) /\ Len(channel') <= ChannelSize
        /\ fresh' \in Seq(Peers) /\ retry' \in Seq(Peers)
    <3>1. channel' \in Seq(Peers) /\ Len(channel') <= Len(channel)
      BY <1>3, ReceivedIsNew
    <3>2. Len(channel') \in Nat
      BY <3>1, LenProperties
    <3>3. fresh' \in Seq(Peers) /\ retry' \in Seq(Peers)
      BY <1>3, ReceivedIsNew, PushElements DEF DiallingInv
    <3> QED
      BY <1>a, <1>b, <3>1, <3>2, <3>3
  <2> QED
    BY <1>3, <1>a, <2>1 DEF Receive
<1>4. ASSUME NEW id \in Tasks, Join(id) PROVE TypeOK' /\ AnswerFits'
  <2>1. live' \in Lives /\ (live[id].outbound <=> id \in Outbound)
    BY <1>4, <1>a, JoinTakes DEF Join
  <2>2. active_peers' \in Nat
    BY <1>4, <1>a DEF Join
  <2>3. fresh' \in Seq(Peers) /\ retry' \in Seq(Peers)
    BY <1>4, <1>a, <1>b, <2>1, JoinedIsNew, PushElements DEF DiallingInv, Join
  <2> QED
    BY <1>4, <1>a, <2>1, <2>2, <2>3 DEF Join
<1>5. ASSUME NEW id \in Tasks, NEW caller \in Callers, Accept(id, caller)
      PROVE  TypeOK' /\ AnswerFits'
  <2>1. live' \in Lives
    BY <1>5, <1>a, SpawnAdds DEF Accept
  <2>2. active_peers' \in Nat
    BY <1>5, <1>a DEF Accept
  <2> QED
    BY <1>5, <1>a, <2>1, <2>2 DEF Accept
<1>6. ASSUME NEW p \in Peers, Pop(p) PROVE TypeOK' /\ AnswerFits'
  <2>1. fresh' \in Seq(Peers) /\ retry' \in Seq(Peers)
    <3>1. CASE fresh # <<>> /\ fresh' = Tail(fresh) /\ UNCHANGED retry
      BY <1>b, <3>1, TailElements
    <3>2. CASE retry # <<>> /\ retry' = Tail(retry) /\ UNCHANGED fresh
      BY <1>b, <3>2, TailElements
    <3> QED
      BY <1>6, <3>1, <3>2 DEF Pop, pop
  <2> QED
    BY <1>6, <1>a, <2>1 DEF Pop, Selecting
<1>7. CASE AnswerIsCompleted
  BY <1>7, <1>a DEF AnswerIsCompleted
<1>8. CASE GiveUpDialling
  BY <1>8, <1>a DEF GiveUpDialling
<1>9. ASSUME NEW id \in Tasks, Dial(id) PROVE TypeOK' /\ AnswerFits'
  <2>1. live' \in Lives
    BY <1>9, <1>a, SpawnAdds DEF Dial
  <2> QED
    BY <1>9, <1>a, <2>1 DEF Dial
<1>10. ASSUME NEW id \in Tasks, NEW how \in {"returned", "panicked"}, TaskEnds(id, how)
       PROVE  TypeOK' /\ AnswerFits'
  <2>1. live' \in Lives
    BY <1>10, <1>a, EndingStays DEF TaskEnds
  <2> QED
    BY <1>10, <1>a, <2>1 DEF TaskEnds
<1>11. CASE LastPieceVerified \/ FinalizeReturns
  BY <1>11, <1>a DEF LastPieceVerified, FinalizeReturns
<1>12. CASE UNCHANGED vars
  BY <1>12, <1>a DEF vars
<1> QED
  BY <1>1, <1>2, <1>3, <1>4, <1>5, <1>6, <1>7, <1>8, <1>9, <1>10, <1>11, <1>12
     DEF Next, Loop, Environment

LEMMA NextKeepsCounter == DiallingInv /\ [Next]_vars => ActiveIsExact'
<1> SUFFICES ASSUME DiallingInv, [Next]_vars PROVE ActiveIsExact'
  OBVIOUS
<1>a. /\ live \in Lives /\ active_peers = Cardinality(Live) /\ Cardinality(Live) \in Nat
      /\ IsFiniteSet(Live) /\ popped \in Peers \cup {NoPeer} /\ AnswerFits
  BY LiveIsFinite DEF DiallingInv, TypeOK, ActiveIsExact, Lives
<1>1. CASE UNCHANGED <<live, active_peers>>
  BY <1>1, <1>a DEF ActiveIsExact, Live, Free
<1>2. ASSUME NEW id \in Free, NEW p \in Peers \cup Callers, NEW outbound \in BOOLEAN,
             Spawn(id, p, outbound), active_peers' = active_peers + 1
      PROVE  ActiveIsExact'
  <2>1. id \notin Live /\ Live' = Live \cup {id}
    BY <1>2, <1>a, SpawnAdds
  <2>2. Cardinality(Live \cup {id}) = Cardinality(Live) + 1
    BY <1>a, <2>1, FS_AddElement
  <2> QED
    BY <1>2, <1>a, <2>1, <2>2 DEF ActiveIsExact
<1>3. ASSUME NEW id \in Tasks, Join(id) PROVE ActiveIsExact'
  <2>1. id \in Live /\ Live' = Live \ {id}
    BY <1>3, <1>a, JoinTakes DEF Join
  <2>2. Cardinality(Live \ {id}) = Cardinality(Live) - 1
    BY <1>a, <2>1, FS_RemoveElement
  <2>3. IsFiniteSet(Live \ {id})
    BY <1>a, FS_RemoveElement
  <2>4. Cardinality(Live \ {id}) \in Nat
    BY <2>3, FS_CardinalityType
  <2>5. active_peers # 0 /\ active_peers' = active_peers - 1
    BY <1>3, <1>a, <2>2, <2>4 DEF Join
  <2> QED
    BY <1>a, <2>1, <2>2, <2>5 DEF ActiveIsExact
<1>4. ASSUME NEW id \in Tasks, NEW caller \in Callers, Accept(id, caller)
      PROVE  ActiveIsExact'
  BY <1>2, <1>4 DEF Accept
<1>5. ASSUME NEW id \in Tasks, Dial(id) PROVE ActiveIsExact'
  BY <1>2, <1>5, <1>a DEF Dial, AnswerFits
<1>6. ASSUME NEW id \in Tasks, NEW how \in {"returned", "panicked"}, TaskEnds(id, how)
      PROVE  ActiveIsExact'
  <2>1. Live' = Live /\ active_peers' = active_peers
    BY <1>6, <1>a, EndingStays DEF TaskEnds
  <2> QED
    BY <1>a, <2>1 DEF ActiveIsExact
<1>7. CASE \E p \in Peers : PeerNamed(p) \/ Pop(p)
  BY <1>1, <1>7 DEF PeerNamed, Pop
<1>8. CASE Forward \/ Receive \/ AnswerIsCompleted \/ GiveUpDialling \/ LastPieceVerified
           \/ FinalizeReturns \/ UNCHANGED vars
  BY <1>1, <1>8 DEF Forward, Receive, AnswerIsCompleted, GiveUpDialling, LastPieceVerified,
     FinalizeReturns, vars
<1> QED
  BY <1>3, <1>4, <1>5, <1>6, <1>7, <1>8 DEF Next, Loop, Environment

(* What is left to show of a step once it is known what became of the six  *)
(* places.                                                                 *)
LEMMA PlacesMove ==
  ASSUME DiallingInv,
         Apart(InForward', InPopped', Elements(channel'), Elements(fresh'), Elements(retry'),
               OnConnection'),
         NoRepeat(channel') /\ NoRepeat(fresh') /\ NoRepeat(retry'),
         \A id, jd \in Outbound' : live'[id].peer = live'[jd].peer => id = jd,
         Placed' \subseteq dedup', ~download_completed' => dedup' \subseteq Placed'
  PROVE  OnePlace'
  BY DEF OnePlace, NoRepeat, Elements, Outbound, Live, Free

LEMMA NextKeepsPlaces == DiallingInv /\ [Next]_vars => OnePlace'
<1> SUFFICES ASSUME DiallingInv, [Next]_vars PROVE OnePlace'
  OBVIOUS
<1>a. /\ channel \in Seq(Peers) /\ fresh \in Seq(Peers) /\ retry \in Seq(Peers)
      /\ live \in Lives /\ dedup \subseteq Peers
      /\ forwarding \in Peers \cup {NoPeer} /\ popped \in Peers \cup {NoPeer}
      /\ AnswerFits
  BY DEF DiallingInv, TypeOK, Lives
<1>b. /\ Apart(InForward, InPopped, Elements(channel), Elements(fresh), Elements(retry),
              OnConnection)
      /\ NoRepeat(channel) /\ NoRepeat(fresh) /\ NoRepeat(retry)
      /\ \A id, jd \in Outbound : live[id].peer = live[jd].peer => id = jd
      /\ Placed \subseteq dedup
      /\ ~download_completed => dedup \subseteq Placed
  BY DEF DiallingInv, OnePlace
<1> DEFINE SameLive == Outbound' = Outbound /\ OnConnection' = OnConnection
                       /\ \A id \in Outbound : live'[id].peer = live[id].peer
<1>c. ASSUME UNCHANGED live PROVE SameLive
  BY <1>c DEF Outbound, Live, Free, OnConnection
<1> USE DEF Apart, Placed, manager, queue, explorer
<1>1. ASSUME NEW p \in Peers, PeerNamed(p) PROVE OnePlace'
  <2>1. InForward' = {p} /\ InForward = {} /\ dedup' = dedup \cup {p} /\ p \notin dedup
    BY <1>1 DEF PeerNamed, InForward, Unseen
  <2>2. SameLive /\ InPopped' = InPopped
        /\ UNCHANGED <<channel, fresh, retry, download_completed>>
    BY <1>1, <1>c DEF PeerNamed, InPopped
  <2> QED
    BY <1>b, <2>1, <2>2, PlacesMove
<1>2. CASE Forward
  <2>1. /\ forwarding \in Peers /\ InForward = {forwarding} /\ InForward' = {}
        /\ channel' = Append(channel, forwarding)
    BY <1>2, <1>a DEF Forward, InForward
  <2>2. forwarding \notin Elements(channel)
    BY <1>b, <2>1
  <2>3. Elements(channel') = Elements(channel) \cup {forwarding} /\ NoRepeat(channel')
    BY <1>a, <1>b, <2>1, <2>2, AppendElements
  <2>4. SameLive /\ InPopped' = InPopped
        /\ UNCHANGED <<dedup, fresh, retry, download_completed>>
    BY <1>2, <1>c DEF Forward, InPopped
  <2> QED
    BY <1>b, <2>1, <2>3, <2>4, PlacesMove
<1>3. CASE Receive
  <2> DEFINE h == Head(channel)
  <2>1. /\ h \in Peers \cap Elements(channel)
        /\ h \notin Elements(fresh) /\ h \notin Elements(retry)
        /\ push(h, FALSE) /\ NoRepeat(channel')
        /\ Elements(channel') = Elements(channel) \ {h}
    BY <1>3, ReceivedIsNew
  <2>2. /\ NoRepeat(fresh') /\ NoRepeat(retry')
        /\ Elements(fresh') = Elements(fresh) \cup {h} /\ Elements(retry') = Elements(retry)
    BY <2>1, PushElements DEF DiallingInv
  <2>3. SameLive /\ InForward' = InForward /\ InPopped' = InPopped
        /\ UNCHANGED <<dedup, download_completed>>
    BY <1>3, <1>c DEF Receive, InForward, InPopped
  <2> HIDE DEF h
  <2> QED
    BY <1>b, <2>1, <2>2, <2>3, PlacesMove
<1>4. ASSUME NEW id \in Tasks, Join(id) PROVE OnePlace'
  <2>1. /\ Outbound' = Outbound \ {id} /\ (live[id].outbound <=> id \in Outbound)
        /\ \A jd \in Outbound' : live'[jd] = live[jd]
    BY <1>4, <1>a, JoinTakes DEF Join
  <2>2. InForward' = InForward /\ InPopped' = InPopped
        /\ UNCHANGED <<channel, dedup, download_completed>>
    BY <1>4 DEF Join, InForward, InPopped
  <2>3. CASE id \notin Outbound
    <3>1. SameLive
      <4>1. Outbound' = Outbound /\ \A jd \in Outbound : live'[jd] = live[jd]
        BY <2>1, <2>3
      <4> QED
        BY <4>1 DEF OnConnection
    <3>2. UNCHANGED queue
      BY <1>4, <2>1, <2>3 DEF Join
    <3> QED
      BY <1>b, <2>2, <3>1, <3>2, PlacesMove
  <2>4. CASE id \in Outbound
    <3> DEFINE p == live[id].peer
    <3>1. /\ p \in Peers \cap OnConnection
          /\ p \notin Elements(fresh) /\ p \notin Elements(retry)
      BY <2>4, JoinedIsNew
    <3>2. push(p, TRUE)
      BY <1>4, <2>1, <2>4 DEF Join
    <3>3. /\ NoRepeat(fresh') /\ NoRepeat(retry')
          /\ Elements(fresh') = Elements(fresh) /\ Elements(retry') = Elements(retry) \cup {p}
      <4> HIDE DEF p
      <4>1. TypeOK /\ OnePlace /\ p \in Peers
        BY <3>1 DEF DiallingInv
      <4> QED
        BY <3>1, <3>2, <4>1, PushElements
    <3>4. OnConnection' = OnConnection \ {p}
      BY <1>b, <2>1, <2>4 DEF OnConnection
    <3>5. \A jd, kd \in Outbound' : live'[jd].peer = live'[kd].peer => jd = kd
      BY <1>b, <2>1
    <3> HIDE DEF p
    <3> QED
      BY <1>b, <2>2, <3>1, <3>3, <3>4, <3>5, PlacesMove
  <2> QED
    BY <2>3, <2>4
<1>5. ASSUME NEW id \in Tasks, NEW caller \in Callers, Accept(id, caller) PROVE OnePlace'
  <2>1. Outbound' = Outbound /\ \A jd \in Outbound : live'[jd] = live[jd]
    BY <1>5, <1>a, SpawnAdds DEF Accept
  <2>2. SameLive /\ InForward' = InForward /\ InPopped' = InPopped
        /\ UNCHANGED <<channel, fresh, retry, dedup, download_completed>>
    BY <1>5, <2>1 DEF Accept, InForward, InPopped, OnConnection
  <2> QED
    BY <1>b, <2>2, PlacesMove
<1>6. ASSUME NEW p \in Peers, Pop(p) PROVE OnePlace'
  <2>1. InPopped = {} /\ InPopped' = {p}
    BY <1>6 DEF Pop, Selecting, InPopped
  <2>2. SameLive /\ InForward' = InForward
        /\ UNCHANGED <<channel, dedup, download_completed>>
    BY <1>6, <1>c DEF Pop, InForward
  <2>3. CASE fresh # <<>> /\ p = Head(fresh) /\ fresh' = Tail(fresh) /\ UNCHANGED retry
    <3>1. /\ p \in Elements(fresh) /\ Elements(fresh') = Elements(fresh) \ {p}
          /\ NoRepeat(fresh')
      BY <1>a, <1>b, <2>3, TailElements
    <3> QED
      BY <1>b, <2>1, <2>2, <2>3, <3>1, PlacesMove
  <2>4. CASE retry # <<>> /\ p = Head(retry) /\ retry' = Tail(retry) /\ UNCHANGED fresh
    <3>1. /\ p \in Elements(retry) /\ Elements(retry') = Elements(retry) \ {p}
          /\ NoRepeat(retry')
      BY <1>a, <1>b, <2>4, TailElements
    <3> QED
      BY <1>b, <2>1, <2>2, <2>4, <3>1, PlacesMove
  <2> QED
    BY <1>6, <2>3, <2>4 DEF Pop, pop
<1>7. CASE GiveUpDialling
  <2>1. InPopped' = {} /\ download_completed' = TRUE
    BY <1>7 DEF GiveUpDialling, InPopped
  <2>2. SameLive /\ InForward' = InForward /\ UNCHANGED <<channel, fresh, retry, dedup>>
    BY <1>7, <1>c DEF GiveUpDialling, InForward
  <2> QED
    BY <1>b, <2>1, <2>2, PlacesMove
<1>8. ASSUME NEW id \in Tasks, Dial(id) PROVE OnePlace'
  <2>1. popped \in Peers /\ InPopped = {popped} /\ InPopped' = {}
    BY <1>8, <1>a DEF Dial, AnswerFits, InPopped
  <2>2. /\ id \notin Live /\ Outbound' = Outbound \cup {id}
        /\ \A jd \in Outbound : live'[jd] = live[jd]
        /\ live'[id].peer = popped
    BY <1>8, <1>a, <2>1, SpawnAdds DEF Dial
  <2>3. id \notin Outbound
    BY <2>2 DEF Outbound
  <2>4. OnConnection' = OnConnection \cup {popped}
    BY <2>2 DEF OnConnection
  <2>5. \A jd \in Outbound : live[jd].peer # popped
    BY <1>b, <2>1 DEF OnConnection
  <2>6. \A jd, kd \in Outbound' : live'[jd].peer = live'[kd].peer => jd = kd
    BY <1>b, <2>2, <2>3, <2>5
  <2>7. InForward' = InForward /\ UNCHANGED <<channel, fresh, retry, dedup, download_completed>>
    BY <1>8 DEF Dial, InForward
  <2> QED
    BY <1>b, <2>1, <2>4, <2>6, <2>7, PlacesMove
<1>9. ASSUME NEW id \in Tasks, NEW how \in {"returned", "panicked"}, TaskEnds(id, how)
      PROVE  OnePlace'
  <2>1. Outbound' = Outbound /\ \A jd \in Tasks : live'[jd].peer = live[jd].peer
    BY <1>9, <1>a, EndingStays DEF TaskEnds
  <2>2. Outbound \subseteq Tasks
    BY DEF Outbound, Live
  <2>3. SameLive /\ InForward' = InForward /\ InPopped' = InPopped
        /\ UNCHANGED <<channel, fresh, retry, dedup, download_completed>>
    BY <1>9, <2>1, <2>2 DEF TaskEnds, InForward, InPopped, OnConnection
  <2> QED
    BY <1>b, <2>3, PlacesMove
<1>10. CASE AnswerIsCompleted \/ LastPieceVerified \/ FinalizeReturns \/ UNCHANGED vars
  <2>1. SameLive /\ InForward' = InForward /\ InPopped' = InPopped
        /\ UNCHANGED <<channel, fresh, retry, dedup, download_completed>>
    BY <1>10, <1>c DEF AnswerIsCompleted, LastPieceVerified, FinalizeReturns, vars, InForward,
       InPopped
  <2> QED
    BY <1>b, <2>1, PlacesMove
<1> QED
  BY <1>1, <1>2, <1>3, <1>4, <1>5, <1>6, <1>7, <1>8, <1>9, <1>10 DEF Next, Loop, Environment

(* The inductive invariant holds of every run.                             *)
THEOREM DiallingInvariant == Spec => []DiallingInv
<1>1. DiallingInv /\ [Next]_vars => DiallingInv'
  BY NextKeepsType, NextKeepsCounter, NextKeepsPlaces DEF DiallingInv
<1> QED
  BY <1>1, InitDialling, PTL DEF Spec

(* Type correctness of the explorer, the candidates and the supervision.   *)
THEOREM DiallingTypeCorrect == Spec => []TypeOK
<1>1. DiallingInv => TypeOK
  BY DEF DiallingInv
<1> QED
  BY <1>1, DiallingInvariant, PTL

(* No slot leaks: the counter is the number of connections, however they   *)
(* came about and however they end.                                        *)
THEOREM CounterIsExact == Spec => []ActiveIsExact
<1>1. DiallingInv => ActiveIsExact
  BY DEF DiallingInv
<1> QED
  BY <1>1, DiallingInvariant, PTL

(* A peer passed on once is in exactly one place until dialling is given   *)
(* up, and never in two.                                                   *)
THEOREM PeersInOnePlace == Spec => []EachPeerInOnePlace
<1>1. DiallingInv => EachPeerInOnePlace
  <2> SUFFICES ASSUME DiallingInv, NEW p \in dedup
               PROVE  /\ Cardinality(Marks(p)) <= 1
                      /\ ~download_completed => Cardinality(Marks(p)) = 1
    BY DEF EachPeerInOnePlace
  <2>a. p # NoPeer /\ OnePlace
    BY DEF DiallingInv, TypeOK
  <2>1. Marks(p) = {} \/ \E m : Marks(p) = {m}
    <3>1. ASSUME NEW m \in Marks(p), NEW n \in Marks(p) PROVE m = n
      <4>1. ASSUME NEW x \in Marks(p)
            PROVE  \/ x = <<"forwarding", p>> /\ p \in InForward
                   \/ x = <<"popped", p>> /\ p \in InPopped
                   \/ \E i \in DOMAIN channel : x = <<"channel", i>> /\ channel[i] = p
                   \/ \E i \in DOMAIN fresh : x = <<"fresh", i>> /\ fresh[i] = p
                   \/ \E i \in DOMAIN retry : x = <<"retry", i>> /\ retry[i] = p
                   \/ \E id \in Outbound : x = <<"live", id>> /\ live[id].peer = p
        BY <2>a DEF Marks, InForward, InPopped
      <4>2. /\ \A i \in DOMAIN channel : channel[i] = p => p \in Elements(channel)
            /\ \A i \in DOMAIN fresh : fresh[i] = p => p \in Elements(fresh)
            /\ \A i \in DOMAIN retry : retry[i] = p => p \in Elements(retry)
            /\ \A id \in Outbound : live[id].peer = p => p \in OnConnection
        BY DEF Elements, OnConnection
      <4> QED
        BY <2>a, <4>1, <4>2 DEF OnePlace, Apart, NoRepeat
    <3> QED
      BY <3>1
  <2>2. ASSUME ~download_completed PROVE Marks(p) # {}
    <3>1. p \in Placed
      BY <2>a, <2>2 DEF OnePlace
    <3>2. CASE p \in InForward
      <4>1. <<"forwarding", p>> \in Marks(p)
        BY <3>2 DEF InForward, Marks
      <4> QED
        BY <4>1
    <3>3. CASE p \in InPopped
      <4>1. <<"popped", p>> \in Marks(p)
        BY <3>3 DEF InPopped, Marks
      <4> QED
        BY <4>1
    <3>4. CASE p \in Elements(channel)
      <4>1. PICK i \in DOMAIN channel : channel[i] = p
        BY <3>4 DEF Elements
      <4>2. <<"channel", i>> \in Marks(p)
        BY <4>1 DEF Marks
      <4> QED
        BY <4>2
    <3>5. CASE p \in Elements(fresh)
      <4>1. PICK i \in DOMAIN fresh : fresh[i] = p
        BY <3>5 DEF Elements
      <4>2. <<"fresh", i>> \in Marks(p)
        BY <4>1 DEF Marks
      <4> QED
        BY <4>2
    <3>6. CASE p \in Elements(retry)
      <4>1. PICK i \in DOMAIN retry : retry[i] = p
        BY <3>6 DEF Elements
      <4>2. <<"retry", i>> \in Marks(p)
        BY <4>1 DEF Marks
      <4> QED
        BY <4>2
    <3>7. CASE p \in OnConnection
      <4>1. PICK id \in Outbound : live[id].peer = p
        BY <3>7 DEF OnConnection
      <4>2. <<"live", id>> \in Marks(p)
        BY <4>1 DEF Marks
      <4> QED
        BY <4>2
    <3> QED
      BY <3>1, <3>2, <3>3, <3>4, <3>5, <3>6, <3>7 DEF Placed
  <2>3. Cardinality(Marks(p)) = 0 \/ Cardinality(Marks(p)) = 1
    BY <2>1, FS_EmptySet, FS_Singleton
  <2>4. Marks(p) # {} => Cardinality(Marks(p)) = 1
    BY <2>1, FS_Singleton
  <2> QED
    BY <2>2, <2>3, <2>4
<1> QED
  BY <1>1, DiallingInvariant, PTL
=============================================================================
