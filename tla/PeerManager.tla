----------------------------- MODULE PeerManager -----------------------------
(***************************************************************************)
(* Who is dialled and when: the peer explorer's dedup (peer_explorer/      *)
(* mod.rs), the selection strategy's queue, and the peer manager's select  *)
(* loop supervising one task per connection (peer_manager/mod.rs).         *)
(*                                                                         *)
(* A peer is its address, which is what Peer's equality compares.  The     *)
(* heap of candidates is two queues: peers pushed as fresh are due at      *)
(* once, peers pushed as failed RETRY_DELAY later, and each kind is due in *)
(* the order it was pushed.  Which of the two heads is due first is left   *)
(* open.  What a connection does while it lasts is Connection's subject:   *)
(* here it runs and then returns, fails to dial, or panics.                *)
(***************************************************************************)
EXTENDS Integers, Sequences, FiniteSets

CONSTANTS
  Peers,         (* addresses the trackers name                             *)
  Callers,       (* addresses that dial us; a tracker may name them too     *)
  Tasks,         (* ids of connection tasks: the bound on how many are live *)
  MaxPeers,      (* MAX_PEERS                                               *)
  ChannelSize,   (* CHANNEL_SIZE of peer_explorer/channel.rs                *)
  NoPeer         (* no peer in hand                                         *)

ASSUME MaxPeersAssumption == MaxPeers \in Nat \ {0}
ASSUME ChannelAssumption == ChannelSize \in Nat \ {0}
ASSUME TasksAssumption == IsFiniteSet(Tasks)
ASSUME NoPeerAssumption == NoPeer \notin Peers \cup Callers

VARIABLES
  dedup,               (* every peer the explorer has passed on             *)
  forwarding,          (* the peer it is sending, or NoPeer                 *)
  channel,             (* peers sent to the manager and not yet received    *)
  fresh, retry,        (* the strategy's candidates                         *)
  popped,              (* the attempt the loop is asking about, or NoPeer   *)
  answer,              (* the oneshot of IsCompleted: none, yes or no       *)
  live,                (* id -> the connection under supervision            *)
  active_peers,        (* the counter in DownloadStats                      *)
  download_completed,  (* the cached answer                                 *)
  verified,            (* the piece manager holds every piece               *)
  finalizing           (* its turn of copying them out goes on              *)

vars == <<dedup, forwarding, channel, fresh, retry, popped, answer, live,
          active_peers, download_completed, verified, finalizing>>

manager == <<verified, finalizing>>
queue == <<fresh, retry>>
explorer == <<dedup, forwarding>>

Elements(s) == {s[i] : i \in DOMAIN s}

-----------------------------------------------------------------------------
(* Connections under supervision.                                          *)

NoTask == [peer |-> NoPeer, outbound |-> FALSE, state |-> "free"]

Free == {id \in Tasks : live[id].state = "free"}
Live == Tasks \ Free
Outbound == {id \in Live : live[id].outbound}

Spawn(id, peer, outbound) ==
  live' = [live EXCEPT ![id] =
             [peer |-> peer, outbound |-> outbound, state |-> "running"]]

-----------------------------------------------------------------------------
Init ==
  /\ dedup = {}
  /\ forwarding = NoPeer
  /\ channel = <<>>
  /\ fresh = <<>> /\ retry = <<>>
  /\ popped = NoPeer
  /\ answer = "none"
  /\ live = [id \in Tasks |-> NoTask]
  /\ active_peers = 0
  /\ download_completed = FALSE
  /\ verified \in BOOLEAN
  /\ finalizing = verified

-----------------------------------------------------------------------------
(* The explorer.                                                           *)

(* dedup.insert says whether the peer is new.                              *)
Unseen(p) == p \notin dedup

(* A source names a peer, again and again with every announce.             *)
PeerNamed(p) ==
  /\ forwarding = NoPeer
  /\ Unseen(p)
  /\ dedup' = dedup \cup {p}
  /\ forwarding' = p
  /\ UNCHANGED <<channel, queue, popped, answer, live, active_peers,
                 download_completed, manager>>

HasRoom == Len(channel) < ChannelSize

Forward ==
  /\ forwarding # NoPeer
  /\ HasRoom
  /\ channel' = Append(channel, forwarding)
  /\ forwarding' = NoPeer
  /\ UNCHANGED <<dedup, queue, popped, answer, live, active_peers,
                 download_completed, manager>>

-----------------------------------------------------------------------------
(* The selection strategy.                                                 *)

(* retain, which leaves a queue without p as it is.                        *)
Without(s, p) == IF p \in Elements(s) THEN SelectSeq(s, LAMBDA q : q # p) ELSE s

(* Mutant: a failed peer is not put back.                                  *)
push_fresh_only(p, failed) ==
  /\ fresh' = IF failed THEN fresh ELSE Append(Without(fresh, p), p)
  /\ UNCHANGED retry

(* push keeps at most one candidate per peer.                              *)
push(p, failed) ==
  IF failed
  THEN fresh' = Without(fresh, p) /\ retry' = Append(Without(retry, p), p)
  ELSE fresh' = Append(Without(fresh, p), p) /\ retry' = Without(retry, p)

pop(p) ==
  \/ fresh # <<>> /\ p = Head(fresh) /\ fresh' = Tail(fresh) /\ UNCHANGED retry
  \/ retry # <<>> /\ p = Head(retry) /\ retry' = Tail(retry) /\ UNCHANGED fresh

-----------------------------------------------------------------------------
(* The select loop of PeerManager::start.  While it waits for the answer   *)
(* to IsCompleted no other arm runs.                                       *)

Selecting == popped = NoPeer

(* Mutant: news is dropped while candidates are waiting.                   *)
Receive_drops_newcomer ==
  /\ Selecting
  /\ channel # <<>>
  /\ IF fresh = <<>> THEN push(Head(channel), FALSE) ELSE UNCHANGED queue
  /\ channel' = Tail(channel)
  /\ UNCHANGED <<explorer, popped, answer, live, active_peers,
                 download_completed, manager>>

Receive ==
  /\ Selecting
  /\ channel # <<>>
  /\ push(Head(channel), FALSE)
  /\ channel' = Tail(channel)
  /\ UNCHANGED <<explorer, popped, answer, live, active_peers,
                 download_completed, manager>>

(* Mutant: only the peers we dialled give their slot back.                 *)
Join_outbound_only(id) ==
  /\ Selecting
  /\ live[id].state \in {"returned", "panicked"}
  /\ live' = [live EXCEPT ![id] = NoTask]
  /\ IF live[id].outbound
     THEN active_peers' = active_peers - 1 /\ push(live[id].peer, TRUE)
     ELSE UNCHANGED <<active_peers, queue>>
  /\ UNCHANGED <<explorer, channel, popped, answer, download_completed, manager>>

(* join_next_with_id: a task that panicked is treated as one that returned.*)
(* The counter saturates at zero.                                          *)
Join(id) ==
  /\ Selecting
  /\ live[id].state \in {"returned", "panicked"}
  /\ live' = [live EXCEPT ![id] = NoTask]
  /\ active_peers' = IF active_peers = 0 THEN 0 ELSE active_peers - 1
  /\ IF live[id].outbound THEN push(live[id].peer, TRUE) ELSE UNCHANGED queue
  /\ UNCHANGED <<explorer, channel, popped, answer, download_completed, manager>>

Accept(id, caller) ==
  /\ Selecting
  /\ id \in Free
  /\ Spawn(id, caller, FALSE)
  /\ active_peers' = active_peers + 1
  /\ UNCHANGED <<explorer, channel, queue, popped, answer, download_completed,
                 manager>>

HasSlot == active_peers < MaxPeers

(* A candidate is due; the loop asks the manager before dialling it.       *)
Pop(p) ==
  /\ Selecting
  /\ ~download_completed
  /\ HasSlot
  /\ pop(p)
  /\ popped' = p
  /\ UNCHANGED <<explorer, channel, answer, live, active_peers,
                 download_completed, manager>>

(* The manager's turn, once it is not copying: it says what is so when it  *)
(* gets to the question.                                                   *)
AnswerIsCompleted ==
  /\ ~finalizing
  /\ popped # NoPeer
  /\ answer = "none"
  /\ answer' = IF verified THEN "yes" ELSE "no"
  /\ UNCHANGED <<explorer, channel, queue, popped, live, active_peers,
                 download_completed, manager>>

(* Mutant: the attempt is kept in hand.                                    *)
GiveUpDialling_keeps ==
  /\ answer = "yes"
  /\ download_completed' = TRUE
  /\ answer' = "none"
  /\ UNCHANGED <<explorer, channel, queue, popped, live, active_peers, manager>>

(* Nothing left to download: the attempt is dropped.                       *)
GiveUpDialling ==
  /\ answer = "yes"
  /\ download_completed' = TRUE
  /\ popped' = NoPeer
  /\ answer' = "none"
  /\ UNCHANGED <<explorer, channel, queue, live, active_peers, manager>>

Dial(id) ==
  /\ answer = "no"
  /\ id \in Free
  /\ Spawn(id, popped, TRUE)
  /\ active_peers' = active_peers + 1
  /\ popped' = NoPeer
  /\ answer' = "none"
  /\ UNCHANGED <<explorer, channel, queue, download_completed, manager>>

-----------------------------------------------------------------------------
(* A connection task ends: it returned, could not connect, or panicked.    *)
TaskEnds(id, how) ==
  /\ live[id].state = "running"
  /\ live' = [live EXCEPT ![id].state = how]
  /\ UNCHANGED <<explorer, channel, queue, popped, answer, active_peers,
                 download_completed, manager>>

(* The last piece is verified, and finalize begins in the same turn;       *)
(* is_completed never goes back to false.                                  *)
LastPieceVerified ==
  /\ ~verified
  /\ verified' = TRUE
  /\ finalizing' = TRUE
  /\ UNCHANGED <<explorer, channel, queue, popped, answer, live, active_peers,
                 download_completed>>

(* The copy is over, done or failed.                                       *)
FinalizeReturns ==
  /\ finalizing
  /\ finalizing' = FALSE
  /\ UNCHANGED <<explorer, channel, queue, popped, answer, live, active_peers,
                 download_completed, verified>>

Loop ==
  \/ Receive
  \/ \E id \in Tasks : Join(id)
  \/ \E p \in Peers : Pop(p)
  \/ AnswerIsCompleted
  \/ GiveUpDialling
  \/ \E id \in Tasks : Dial(id)

Environment ==
  \/ \E p \in Peers : PeerNamed(p)
  \/ Forward
  \/ \E id \in Tasks, caller \in Callers : Accept(id, caller)
  \/ \E id \in Tasks, how \in {"returned", "panicked"} : TaskEnds(id, how)
  \/ LastPieceVerified
  \/ FinalizeReturns

Next == Loop \/ Environment

Spec == Init /\ [][Next]_vars

(* select! polls its arms in random order, so an arm that stays or keeps   *)
(* becoming ready is taken, a retry's time comes, and the copy of finalize *)
(* ends.  Nothing is assumed of connections or callers: a connection may   *)
(* last for ever and keep its slot.                                        *)
FairSpec ==
  /\ Spec
  /\ WF_vars(FinalizeReturns)
  /\ WF_vars(Forward)
  /\ SF_vars(Receive)
  /\ WF_vars(AnswerIsCompleted)
  /\ WF_vars(GiveUpDialling)
  /\ WF_vars(\E id \in Tasks : Dial(id))
  /\ SF_vars(\E p \in Peers : fresh # <<>> /\ p = Head(fresh) /\ Pop(p))
  /\ SF_vars(\E p \in Peers : retry # <<>> /\ p = Head(retry) /\ Pop(p))
  /\ \A id \in Tasks : SF_vars(Join(id))

-----------------------------------------------------------------------------
(* Properties.                                                             *)

States == {"free", "running", "returned", "panicked"}

TypeOK ==
  /\ dedup \in SUBSET Peers
  /\ forwarding \in Peers \cup {NoPeer}
  /\ channel \in Seq(Peers) /\ Len(channel) <= ChannelSize
  /\ fresh \in Seq(Peers) /\ retry \in Seq(Peers)
  /\ popped \in Peers \cup {NoPeer}
  /\ answer \in {"none", "yes", "no"}
  /\ live \in [Tasks -> [peer : Peers \cup Callers \cup {NoPeer},
                         outbound : BOOLEAN, state : States]]
  /\ active_peers \in Nat
  /\ download_completed \in BOOLEAN
  /\ verified \in BOOLEAN /\ finalizing \in BOOLEAN

(* The marks a peer the trackers named can have: with the explorer, in the *)
(* channel, a candidate, asked about, or on a connection we dialled.       *)
Marks(p) ==
  ({"forwarding"} \X ({forwarding} \cap {p}))
  \cup ({"popped"} \X ({popped} \cap {p}))
  \cup ({"channel"} \X {i \in DOMAIN channel : channel[i] = p})
  \cup ({"fresh"} \X {i \in DOMAIN fresh : fresh[i] = p})
  \cup ({"retry"} \X {i \in DOMAIN retry : retry[i] = p})
  \cup ({"live"} \X {id \in Outbound : live[id].peer = p})

(* The explorer passes a peer on once, so nobody would ever name again one *)
(* the manager let go of; and a peer in two places would be dialled twice. *)
(* Whatever fails or panics, a peer is in exactly one place until there is *)
(* nothing left to download.                                               *)
EachPeerInOnePlace ==
  \A p \in dedup :
    /\ Cardinality(Marks(p)) <= 1
    /\ ~download_completed => Cardinality(Marks(p)) = 1

(* The counter the loop decides on is the number of tasks it supervises,   *)
(* whichever side dialled and however they end: no slot leaks.             *)
ActiveIsExact == active_peers = Cardinality(Live)

Dialled(p) == \E id \in Outbound : live[id].peer = p

(* As long as slots keep coming free, every peer named is dialled, and     *)
(* dialled again whenever its connection failed or ended (it stays in      *)
(* dedup), unless the download is over, however the callers and the        *)
(* failures interleave.                                                    *)
EveryPeerIsDialled ==
  []<>HasSlot => \A p \in Peers : p \in dedup ~> Dialled(p) \/ verified

(* While the loop asks IsCompleted nothing else of it runs, and the answer *)
(* may be as far off as the end of the copy: the channel fills, and the    *)
(* explorer and the tracker's task behind it stand still.  None of it is   *)
(* for good: whatever is on its way gets through to the loop.  (Sources    *)
(* name finitely many peers, and the explorer passes each on once: that an *)
(* endless stream of names would be kept up with is not said.)             *)
NewsIsTakenIn == []<>(forwarding = NoPeer /\ channel = <<>>)
=============================================================================
