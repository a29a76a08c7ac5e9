------------------------------ MODULE Trackers -------------------------------
(***************************************************************************)
(* The announce loop (peer_explorer/tracker/tracker_manager.rs): one task  *)
(* takes the tracker due next off a heap, sleeps until it is due, builds   *)
(* the query from the shared counters, announces and waits for the answer, *)
(* and puts the tracker back: after its interval, or after five seconds if *)
(* it failed.  An answer cut off inside a string is neither: reading it    *)
(* slices past its end, and the panic takes the one task, and with it the  *)
(* announcing to every tracker, down.                                      *)
(*                                                                         *)
(* Time is a clock of ticks.  due[t] counts the ticks until tracker t is   *)
(* due, negative when it is overdue, which is all the heap's order looks   *)
(* at.  Of the counters only two facts matter: whether the pieces counted  *)
(* make the torrent complete, and whether the bytes counted leave none     *)
(* missing.  They are separate atomics written without ordering, so either *)
(* may be seen first.                                                      *)
(***************************************************************************)
EXTENDS Integers, FiniteSets

CONSTANTS
  Trackers,        (* every tracker there is                                *)
  Healthy,         (* those that answer every announce                      *)
  MinInterval,     (* ticks a tracker asks us to wait                       *)
  RetryDelay,      (* the five seconds after a failure                      *)
  Latency,         (* most ticks an answer takes                            *)
  Overdue,         (* bound: how far a tracker falls behind before the      *)
                   (* model stops counting                                  *)
  NoTracker

ASSUME HealthyAssumption == Healthy \subseteq Trackers
ASSUME DelaysAssumption ==
  MinInterval \in Nat \ {0} /\ RetryDelay \in Nat \ {0} /\ Latency \in Nat
ASSUME OverdueAssumption == Overdue \in Nat
ASSUME NoTrackerAssumption == NoTracker \notin Trackers

Events == {"started", "completed", "none"}

VARIABLES
  due,                   (* next_instance - now, of each announce URL       *)
  next,                  (* the tracker popped off the heap                 *)
  step,                  (* where the loop is, or how it ended              *)
  waited,                (* ticks the announce has taken                    *)
  query,                 (* event, whether it counted us complete, and      *)
                         (* whether it said nothing is left                 *)
  announced_start,       (* announced_start                                 *)
  announced_completion,  (* announced_completion                            *)
  pieces_in, bytes_in,   (* is_complete(), and remaining_bytes() = 0        *)
  told                   (* ghost: <<tracker, event>> of accepted announces *)

vars == <<due, next, step, waited, query, announced_start, announced_completion,
          pieces_in, bytes_in, told>>

flags == <<announced_start, announced_completion>>
counters == <<pieces_in, bytes_in>>

NoQuery == [event |-> "none", complete |-> FALSE, nothing_left |-> FALSE]

-----------------------------------------------------------------------------
Init ==
  /\ \E urls \in SUBSET Trackers : due = [t \in urls |-> 0]
  /\ next = NoTracker
  /\ step = "popping"
  /\ waited = 0
  /\ query = NoQuery
  /\ announced_start = FALSE /\ announced_completion = FALSE
  /\ pieces_in = FALSE /\ bytes_in = FALSE
  /\ told = {}

(* The counters reach the torrent's totals: a store resumed whole, or the  *)
(* last piece verified.                                                    *)
CountersMove ==
  /\ \/ ~pieces_in /\ pieces_in' = TRUE /\ UNCHANGED bytes_in
     \/ ~bytes_in /\ bytes_in' = TRUE /\ UNCHANGED pieces_in
  /\ UNCHANGED <<due, next, step, waited, query, flags, told>>

(* Ticks pass while the loop waits for a due time or an answer.            *)
Tick ==
  /\ \/ step = "sleeping" /\ due[next] > 0
     \/ step = "announcing" /\ waited < Latency
  /\ due' = [t \in DOMAIN due |-> IF due[t] > -Overdue THEN due[t] - 1 ELSE due[t]]
  /\ waited' = IF step = "announcing" THEN waited + 1 ELSE waited
  /\ UNCHANGED <<next, step, query, flags, counters, told>>

-----------------------------------------------------------------------------
(* scheduler_heap.pop(): the tracker with the least next_instance.         *)
PopTracker(t) ==
  /\ step = "popping"
  /\ t \in DOMAIN due
  /\ \A u \in DOMAIN due : due[t] <= due[u]
  /\ next' = t
  /\ step' = "sleeping"
  /\ UNCHANGED <<due, waited, query, flags, counters, told>>

(* No tracker at all: the task is over.                                    *)
NothingToAnnounceTo ==
  /\ step = "popping" /\ DOMAIN due = {}
  /\ step' = "over"
  /\ UNCHANGED <<due, next, waited, query, flags, counters, told>>

(* Mutant: completion is announced again and again.                        *)
Event_repeats(complete) ==
  IF ~announced_start THEN "started" ELSE IF complete THEN "completed" ELSE "none"

(* Built per announce from the flags all trackers share.                   *)
Event(complete) ==
  IF ~announced_start THEN "started"
  ELSE IF complete /\ ~announced_completion THEN "completed" ELSE "none"

(* Mutant: completeness is looked at until the first announce only.        *)
ReadComplete_once ==
  /\ step = "sleeping"
  /\ due[next] <= 0
  /\ step' = "building"
  /\ query' = [NoQuery EXCEPT !.complete = pieces_in /\ ~announced_start]
  /\ UNCHANGED <<due, next, waited, flags, counters, told>>

(* is_complete() is read first, the bytes after it.                        *)
ReadComplete ==
  /\ step = "sleeping"
  /\ due[next] <= 0
  /\ step' = "building"
  /\ query' = [NoQuery EXCEPT !.complete = pieces_in]
  /\ UNCHANGED <<due, next, waited, flags, counters, told>>

Announce ==
  /\ step = "building"
  /\ step' = "announcing"
  /\ waited' = 0
  /\ query' = [query EXCEPT !.event = Event(query.complete),
                            !.nothing_left = bytes_in]
  /\ UNCHANGED <<due, next, flags, counters, told>>

(* The tracker goes back on the heap, `delay` from now.                    *)
PutBack(delay) ==
  /\ due' = [due EXCEPT ![next] = delay]
  /\ next' = NoTracker
  /\ step' = "popping"
  /\ waited' = 0
  /\ query' = NoQuery

Accepted ==
  /\ step = "announcing"
  /\ told' = told \cup {<<next, query.event>>}
  /\ announced_start' = TRUE
  /\ announced_completion' = (announced_completion \/ query.complete)
  /\ PutBack(MinInterval)
  /\ UNCHANGED counters

(* Mutant: a failed tracker is tried again at once.                        *)
Failed_retries_at_once ==
  /\ step = "announcing"
  /\ next \notin Healthy
  /\ PutBack(due[next])
  /\ UNCHANGED <<flags, counters, told>>

Failed ==
  /\ step = "announcing"
  /\ next \notin Healthy
  /\ PutBack(RetryDelay)
  /\ UNCHANGED <<flags, counters, told>>

(* parse_bytes takes `length` bytes of the answer without asking whether   *)
(* there are so many; nobody joins the task it unwinds.                    *)
Panics ==
  /\ step = "announcing"
  /\ next \notin Healthy
  /\ step' = "panicked"
  /\ UNCHANGED <<due, next, waited, query, flags, counters, told>>

AnnounceLoop ==
  \/ \E t \in Trackers : PopTracker(t)
  \/ NothingToAnnounceTo
  \/ ReadComplete
  \/ Announce
  \/ Accepted
  \/ Failed
  \/ Panics

Next == CountersMove \/ Tick \/ AnnounceLoop

Spec == Init /\ [][Next]_vars

(* Time passes and the task is polled, and a healthy tracker accepts what  *)
(* it is sent.  Nothing bounds an HTTP request, so nothing is assumed of   *)
(* the others: they may answer, fail, bring the loop down, or leave it     *)
(* waiting.                                                                *)
AnnouncingIsFair ==
  /\ WF_vars(Tick)
  /\ WF_vars(\E t \in Trackers : PopTracker(t))
  /\ WF_vars(ReadComplete)
  /\ WF_vars(Announce)
  /\ WF_vars(next \in Healthy /\ Accepted)

-----------------------------------------------------------------------------
(* Properties.                                                             *)

TypeOK ==
  /\ DOMAIN due \subseteq Trackers
  /\ due \in [DOMAIN due -> (-Overdue) .. MinInterval + RetryDelay]
  /\ next \in DOMAIN due \cup {NoTracker}
  /\ step \in {"popping", "sleeping", "building", "announcing",
              "over", "panicked"}
  /\ next = NoTracker <=> step \in {"popping", "over"}
  /\ waited \in 0 .. Latency
  /\ query \in [event : Events, complete : BOOLEAN, nothing_left : BOOLEAN]
  /\ announced_start \in BOOLEAN /\ announced_completion \in BOOLEAN
  /\ pieces_in \in BOOLEAN /\ bytes_in \in BOOLEAN
  /\ told \in SUBSET (Trackers \X Events)

(* One run announces `started` and `completed` once each: the flags are    *)
(* shared, so exactly one tracker is ever told either.  `completed` is     *)
(* never the first thing the trackers hear, and never heard while pieces   *)
(* are missing.                                                            *)
EventsAreToldOnce ==
  /\ \A e \in {"started", "completed"} :
       Cardinality({t \in Trackers : <<t, e>> \in told}) <= 1
  /\ (\E t \in Trackers : <<t, "completed">> \in told) =>
       pieces_in /\ \E t \in Trackers : <<t, "started">> \in told

(* What the loop is owed: every announce comes to an end (no HTTP request  *)
(* has a timeout), and none of the answers makes the task panic.           *)
LoopGoesOn == []<>(step # "announcing") /\ [](step # "panicked")

(* While the loop goes on, a tracker that answers is announced to again    *)
(* and again: those that refuse the connection, answer with an error or    *)
(* with what is no bencode are retried without holding up the rest.  Not   *)
(* so one whose answer never ends, or ends inside a string: either one     *)
(* silences us towards every tracker.                                      *)
HealthyIsAnnounced ==
  LoopGoesOn =>
    \A t \in Healthy : t \in DOMAIN due ~> next = t /\ step = "announcing"

(* While the loop goes on, a torrent that is complete, resumed from disk   *)
(* or downloaded, is announced as complete: some tracker accepts an        *)
(* announce that carried `completed`, or the `started` one already counted *)
(* us complete; and although the pieces and the bytes are counted apart,   *)
(* every tracker that answers hears of nothing left in the end, which is   *)
(* how it learns that we became a seeder.                                  *)
CompletionIsAnnounced ==
  LoopGoesOn =>
    /\ pieces_in /\ Healthy \cap DOMAIN due # {} ~> announced_completion
    /\ \A t \in Healthy :
         bytes_in /\ t \in DOMAIN due
           ~> next = t /\ step = "announcing" /\ query.nothing_left
=============================================================================
