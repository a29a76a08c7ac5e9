-------------------------- MODULE Reporting_proofs --------------------------
(***************************************************************************)
(* What the client reads of a torrent file and tells others of a download, *)
(* for any file, trackers, delays and answers and any number of pieces:    *)
(* the announce loop tells trackers, the status feed its callers, and the  *)
(* loop announces to the trackers a file names, under the hash of the      *)
(* file's info.  Loop and feed share nothing but the counters of           *)
(* status.rs, which neither writes.                                        *)
(*                                                                         *)
(* The announce loop.  One task announces to one tracker at a time, so the *)
(* flags an announce was built from are still as they were when its answer *)
(* comes (QueryFitsFlags), and the flags tell what was told before         *)
(* (FlagsFitTold).  An accepted `started` or `completed` is thus the first *)
(* of its kind.                                                            *)
(*                                                                         *)
(* The status feed.  A piece is marked, counted and published in that      *)
(* order, and a sample borrows the published progress before it reads the  *)
(* counters (StatusInv), so whatever mixture it catches, the counters that *)
(* supported the last state shown support the next one.                    *)
(*                                                                         *)
(* The torrent file.  What is read at a place hangs on what is read behind *)
(* it alone, so the walks over a file are compared place by place from its *)
(* end (Downward): the one that skips ends where the one that decodes      *)
(* does.  What is written is built from its parts, and each of them is     *)
(* read back wherever it stands (ReadsBack), so that proof goes the other  *)
(* way (Upward).  The library's induction theorems take an operator, which *)
(* no prover here instantiates; these two are stated over sets instead.    *)
(***************************************************************************)
EXTENDS Loading, Status, FiniteSetTheorems, SequenceTheorems, NaturalsInduction,
        WellFoundedInduction, TLAPS

-----------------------------------------------------------------------------
(* The announce loop.                                                      *)

QueryFitsFlags ==
  /\ query.complete => pieces_in
  /\ step = "announcing" =>
       /\ query.event = "started" <=> ~announced_start
       /\ query.event = "completed" => query.complete /\ ~announced_completion

FlagsFitTold ==
  /\ announced_start <=> \E t \in Trackers : <<t, "started">> \in told
  /\ (\E t \in Trackers : <<t, "completed">> \in told) =>
       announced_completion /\ announced_start /\ pieces_in

ToldOnce ==
  \A e \in {"started", "completed"} : \A t, u \in Trackers :
    <<t, e>> \in told /\ <<u, e>> \in told => t = u

LoopInv == TypeOK /\ QueryFitsFlags /\ FlagsFitTold /\ ToldOnce

Queries == [event : Events, complete : BOOLEAN, nothing_left : BOOLEAN]

LEMMA NoQueryIsQuery == NoQuery \in Queries
  BY DEF NoQuery, Queries, Events

LEMMA InitLoopInv == Init => LoopInv
<1> SUFFICES ASSUME Init PROVE LoopInv
  OBVIOUS
<1> USE HealthyAssumption, DelaysAssumption, OverdueAssumption, NoTrackerAssumption
<1>1. TypeOK
  <2>1. PICK tracked \in SUBSET Trackers : due = [t \in tracked |-> 0]
    BY DEF Init
  <2>2. /\ DOMAIN due \subseteq Trackers
        /\ due \in [DOMAIN due -> (-Overdue) .. MinInterval + RetryDelay]
    BY <2>1
  <2>3. query \in Queries
    BY NoQueryIsQuery DEF Init
  <2>4. next \in DOMAIN due \cup {NoTracker} /\ waited \in 0 .. Latency
    BY DEF Init
  <2>5. /\ step \in {"popping", "sleeping", "building", "announcing", "over",
                   "panicked"}
        /\ next = NoTracker <=> step \in {"popping", "over"}
    BY DEF Init
  <2>6. /\ announced_start \in BOOLEAN /\ announced_completion \in BOOLEAN
        /\ pieces_in \in BOOLEAN /\ bytes_in \in BOOLEAN
        /\ told \in SUBSET (Trackers \X Events)
    BY DEF Init
  <2> QED
    BY <2>2, <2>3, <2>4, <2>5, <2>6 DEF TypeOK, Queries
<1>2. QueryFitsFlags /\ FlagsFitTold /\ ToldOnce
  BY DEF Init, NoQuery, QueryFitsFlags, FlagsFitTold, ToldOnce
<1> QED
  BY <1>1, <1>2 DEF LoopInv

LEMMA NextKeepsType == TypeOK /\ [Next]_vars => TypeOK'
<1> SUFFICES ASSUME TypeOK, [Next]_vars PROVE TypeOK'
  OBVIOUS
<1> USE HealthyAssumption, DelaysAssumption, OverdueAssumption, NoTrackerAssumption
    DEF TypeOK, Events, flags, counters
<1>1. CASE CountersMove
  BY <1>1, ZenonT(40) DEF CountersMove
<1>2. CASE Tick
  <2>1. /\ DOMAIN due' = DOMAIN due
        /\ due' \in [DOMAIN due -> (-Overdue) .. MinInterval + RetryDelay]
    BY <1>2 DEF Tick
  <2>2. waited' \in 0 .. Latency
    BY <1>2 DEF Tick
  <2> QED
    BY <1>2, <2>1, <2>2 DEF Tick
<1>3. ASSUME NEW t \in Trackers, PopTracker(t) PROVE TypeOK'
  BY <1>3 DEF PopTracker
<1>4. CASE NothingToAnnounceTo
  BY <1>4 DEF NothingToAnnounceTo
<1>5. CASE ReadComplete
  BY <1>5 DEF ReadComplete, NoQuery
<1>6. CASE Announce
  <2>1. query' \in [event : Events, complete : BOOLEAN, nothing_left : BOOLEAN]
    BY <1>6 DEF Announce, Event
  <2> QED
    BY <1>6, <2>1 DEF Announce
<1>7. ASSUME NEW delay \in {MinInterval, RetryDelay}, next \in DOMAIN due, PutBack(delay)
      PROVE  /\ DOMAIN due' \subseteq Trackers
             /\ due' \in [DOMAIN due' -> (-Overdue) .. MinInterval + RetryDelay]
             /\ next' = NoTracker /\ step' = "popping" /\ waited' \in 0 .. Latency
             /\ query' \in Queries
  <2>1. /\ DOMAIN due' = DOMAIN due
        /\ due' \in [DOMAIN due -> (-Overdue) .. MinInterval + RetryDelay]
    BY <1>7 DEF PutBack
  <2> QED
    BY <1>7, <2>1, NoQueryIsQuery DEF PutBack
<1>8. CASE Accepted
  <2>1. next \in DOMAIN due
    BY <1>8 DEF Accepted
  <2>2. told' \in SUBSET (Trackers \X Events)
    BY <1>8, <2>1 DEF Accepted
  <2>3. announced_start' \in BOOLEAN /\ announced_completion' \in BOOLEAN
    BY <1>8 DEF Accepted
  <2> QED
    BY <1>7, <1>8, <2>1, <2>2, <2>3 DEF Accepted, Queries
<1>9. CASE Failed
  <2>1. next \in DOMAIN due
    BY <1>9 DEF Failed
  <2> QED
    BY <1>7, <1>9, <2>1 DEF Failed, Queries
<1>10. CASE Panics
  BY <1>10 DEF Panics
<1>11. CASE UNCHANGED vars
  BY <1>11 DEF vars
<1> QED
  BY <1>1, <1>2, <1>3, <1>4, <1>5, <1>6, <1>8, <1>9, <1>10, <1>11 DEF Next, AnnounceLoop

(* The answer to an announce is the only step that tells anybody anything. *)
LEMMA AcceptedKeepsLoop ==
  ASSUME LoopInv, Accepted
  PROVE  QueryFitsFlags' /\ FlagsFitTold' /\ ToldOnce'
<1> USE NoTrackerAssumption DEF LoopInv, TypeOK, counters, Events
<1>1. next \in Trackers /\ query'.complete = FALSE /\ step' = "popping"
  BY DEF Accepted, PutBack, NoQuery
<1>2. QueryFitsFlags'
  BY <1>1 DEF QueryFitsFlags
<1>3. FlagsFitTold'
  BY <1>1 DEF Accepted, QueryFitsFlags, FlagsFitTold
<1>4. ToldOnce'
  BY <1>1 DEF Accepted, QueryFitsFlags, FlagsFitTold, ToldOnce
<1> QED
  BY <1>2, <1>3, <1>4

LEMMA NextKeepsLoop == LoopInv /\ [Next]_vars => LoopInv'
<1> SUFFICES ASSUME LoopInv, [Next]_vars PROVE LoopInv'
  OBVIOUS
<1>1. TypeOK'
  BY NextKeepsType DEF LoopInv
<1>2. QueryFitsFlags' /\ FlagsFitTold' /\ ToldOnce'
  <2> USE DEF LoopInv, TypeOK, QueryFitsFlags, FlagsFitTold, ToldOnce, flags, counters
  <2>1. CASE CountersMove
    BY <2>1 DEF CountersMove
  <2>2. CASE Tick
    BY <2>2 DEF Tick
  <2>3. ASSUME NEW t \in Trackers, PopTracker(t)
        PROVE  QueryFitsFlags' /\ FlagsFitTold' /\ ToldOnce'
    BY <2>3 DEF PopTracker
  <2>4. CASE NothingToAnnounceTo
    BY <2>4 DEF NothingToAnnounceTo
  <2>5. CASE ReadComplete
    BY <2>5 DEF ReadComplete, NoQuery
  <2>6. CASE Announce
    BY <2>6 DEF Announce, Event, Events
  <2>7. CASE Accepted
    BY <2>7, AcceptedKeepsLoop
  <2>8. CASE Failed
    BY <2>8 DEF Failed, PutBack, NoQuery
  <2>9. CASE Panics
    BY <2>9 DEF Panics
  <2>10. CASE UNCHANGED vars
    BY <2>10 DEF vars
  <2> QED
    BY <2>1, <2>2, <2>3, <2>4, <2>5, <2>6, <2>7, <2>8, <2>9, <2>10 DEF Next, AnnounceLoop
<1> QED
  BY <1>1, <1>2 DEF LoopInv

(* The inductive invariant holds of every run of the announce loop.        *)
THEOREM LoopInvariant == Spec => []LoopInv
  BY InitLoopInv, NextKeepsLoop, PTL DEF Spec

(* Type correctness of the announce loop.                                  *)
THEOREM TrackersTypeCorrect == Spec => []TypeOK
<1>1. LoopInv => TypeOK
  BY DEF LoopInv
<1> QED
  BY <1>1, LoopInvariant, PTL

LEMMA LoopInvTellsOnce == LoopInv => EventsAreToldOnce
<1> SUFFICES ASSUME LoopInv PROVE EventsAreToldOnce
  OBVIOUS
<1>1. ASSUME NEW e \in {"started", "completed"}
      PROVE  Cardinality({t \in Trackers : <<t, e>> \in told}) <= 1
  <2> DEFINE T == {t \in Trackers : <<t, e>> \in told}
  <2>1. T = {} \/ \E t \in Trackers : T = {t}
    BY DEF LoopInv, ToldOnce
  <2> HIDE DEF T
  <2>2. Cardinality(T) = 0 \/ Cardinality(T) = 1
    BY <2>1, FS_EmptySet, FS_Singleton
  <2>3. Cardinality(T) <= 1
    BY <2>2
  <2> QED
    BY <2>3 DEF T
<1> QED
  BY <1>1 DEF LoopInv, FlagsFitTold, EventsAreToldOnce

(* However many trackers and however they answer or fail, at most one is   *)
(* told `started` and at most one `completed`, in that order, the second   *)
(* never while pieces are missing.                                         *)
THEOREM EventsToldOnce == Spec => []EventsAreToldOnce
  BY LoopInvTellsOnce, LoopInvariant, PTL

-----------------------------------------------------------------------------
(* The status feed.                                                        *)

LEMMA InitStatusInv == FeedInit => StatusInv
<1> SUFFICES ASSUME FeedInit
             PROVE  StatusInv
  OBVIOUS
<1> USE TotalAssumption DEF FeedInit
<1>1. FeedTypeOK
  <2>1. 0 \in 0 .. TotalPieces
    OBVIOUS
  <2>2. /\ progress \in [completed_pieces : 0 .. TotalPieces, extracted : BOOLEAN]
        /\ seen \in [completed_pieces : 0 .. TotalPieces, extracted : BOOLEAN]
    BY <2>1, Zenon
  <2>3. extracted \in BOOLEAN /\ sampling \in BOOLEAN
    BY Zenon
  <2>4. resumed \in 0 .. held /\ state \in States
    BY DEF States
  <2> QED
    BY <2>1, <2>2, <2>3, <2>4, Zenon DEF FeedTypeOK
<1>2. CountsFollowHeld
  BY DEF CountsFollowHeld
<1>3. ProgressIsPast
  BY DEF ProgressIsPast
<1>4. StateIsSupported
  BY DEF StateIsSupported
<1> QED
  BY <1>1, <1>2, <1>3, <1>4 DEF StatusInv

(* The counters only grow, so a torrent counted whole stays so.            *)
LEMMA ManagerKeepsInv ==
  ASSUME StatusInv, Manager
  PROVE  StatusInv'
<1> USE TotalAssumption DEF StatusInv, FeedTypeOK, CountsFollowHeld, ProgressIsPast,
                            StateIsSupported, is_complete, Publish, samplerVars,
                            sharedVars
<1>1. ASSUME NEW n \in 0 .. TotalPieces, Initialize(n)
      PROVE  StatusInv'
  BY <1>1 DEF Initialize
<1>2. CASE SetTotals
  BY <1>2 DEF SetTotals
<1>3. CASE SetResumed
  BY <1>3 DEF SetResumed
<1>4. CASE PublishResumed
  BY <1>4 DEF PublishResumed
<1>5. CASE PieceVerified
  BY <1>5 DEF PieceVerified
<1>6. CASE CountPiece
  BY <1>6 DEF CountPiece
<1>7. CASE PublishPiece
  BY <1>7 DEF PublishPiece
<1>8. ASSUME NEW ok \in BOOLEAN, FinalizeReturns(ok)
      PROVE  StatusInv'
  BY <1>8 DEF FinalizeReturns
<1> QED
  BY <1>1, <1>2, <1>3, <1>4, <1>5, <1>6, <1>7, <1>8 DEF Manager

LEMMA SamplerKeepsInv ==
  ASSUME StatusInv, Sampler
  PROVE  StatusInv'
<1> USE TotalAssumption DEF StatusInv, FeedTypeOK, CountsFollowHeld, ProgressIsPast,
                            StateIsSupported, is_complete, managerVars, sharedVars
<1>1. CASE BorrowProgress
  BY <1>1 DEF BorrowProgress
<1>2. CASE PublishStatus
  <2>1. FeedTypeOK'
    BY <1>2 DEF PublishStatus, SampledState, States
  <2>2. CountsFollowHeld' /\ ProgressIsPast'
    BY <1>2 DEF PublishStatus
  <2>3. StateIsSupported'
    BY <1>2 DEF PublishStatus, SampledState
  <2> QED
    BY <2>1, <2>2, <2>3
<1> QED
  BY <1>1, <1>2 DEF Sampler

LEMMA NextKeepsStatus == StatusInv /\ [FeedNext]_feedVars => StatusInv'
<1> SUFFICES ASSUME StatusInv, [FeedNext]_feedVars
             PROVE  StatusInv'
  OBVIOUS
<1>1. CASE UNCHANGED feedVars
  BY <1>1
     DEF StatusInv, FeedTypeOK, CountsFollowHeld, ProgressIsPast, StateIsSupported,
         is_complete, feedVars, managerVars, sharedVars, samplerVars
<1> QED
  BY <1>1, ManagerKeepsInv, SamplerKeepsInv DEF FeedNext

(* Counts, progress, the sample in hand and the state shown stay in step,  *)
(* wherever between two stores of the manager a sample is taken.           *)
THEOREM StatusInvHolds == FeedSpec => []StatusInv
  BY InitStatusInv, NextKeepsStatus, PTL DEF FeedSpec

(* Type correctness of the manager, the shared progress and the sampler.   *)
THEOREM StatusTypeCorrect == FeedSpec => []FeedTypeOK
<1>1. StatusInv => FeedTypeOK
  BY DEF StatusInv
<1> QED
  BY <1>1, StatusInvHolds, PTL

(* Nobody is told of a payload that is not there: `Finalizing` is only     *)
(* shown of a torrent held whole, `Seeding` of one that was copied out.    *)
THEOREM StateTrue == FeedSpec => []StateIsTrue
<1>1. StatusInv => StateIsTrue
  BY TotalAssumption
     DEF StatusInv, FeedTypeOK, CountsFollowHeld, ProgressIsPast, StateIsSupported,
         is_complete, StateIsTrue
<1> QED
  BY <1>1, StatusInvHolds, PTL

(* The state shown only moves forward: what supported the last sample      *)
(* still holds at the next one.                                            *)
THEOREM StateForward == FeedSpec => StateNeverGoesBack
<1>1. ASSUME StatusInv, [FeedNext]_feedVars
      PROVE  [Rank[state'] >= Rank[state]]_feedVars
  <2>1. CASE state' = state
    BY <1>1, <2>1 DEF StatusInv, FeedTypeOK, States, Rank
  <2>2. CASE PublishStatus
    BY <1>1, <2>2
       DEF PublishStatus, SampledState, StatusInv, FeedTypeOK, States, StateIsSupported,
           Rank
  <2> QED
    BY <1>1, <2>1, <2>2
       DEF FeedNext, Manager, Sampler, Initialize, SetTotals, SetResumed, PublishResumed,
           PieceVerified, CountPiece, PublishPiece, FinalizeReturns, BorrowProgress,
           feedVars, samplerVars
<1> QED
  BY <1>1, StatusInvHolds, PTL DEF FeedSpec, StateNeverGoesBack

(* is_complete, false at first, is never taken back once it holds: what    *)
(* the announce loop relies on, whose CountersMove only ever sets          *)
(* pieces_in.                                                              *)
THEOREM CompletionStays ==
  FeedSpec => ~is_complete /\ [][is_complete => is_complete']_feedVars
<1>1. FeedInit => ~is_complete
  BY DEF FeedInit, is_complete
<1>2. ASSUME StatusInv, [FeedNext]_feedVars
      PROVE  [is_complete => is_complete']_feedVars
  <2> SUFFICES ASSUME FeedNext, is_complete
               PROVE  is_complete'
    BY <1>2
  <2>1. /\ TotalPieces \in Nat /\ total_pieces = TotalPieces
        /\ pc \notin {"initializing", "set_totals"}
    BY <1>2, TotalAssumption
       DEF StatusInv, FeedTypeOK, CountsFollowHeld, is_complete
  <2>2. completed_pieces \in Nat /\ resumed_pieces \in Nat
    BY <1>2, TotalAssumption DEF StatusInv, FeedTypeOK
  <2>3. total_pieces' = total_pieces /\ completed_pieces' >= completed_pieces
    BY <2>1, <2>2
       DEF FeedNext, Manager, Sampler, Initialize, SetTotals, SetResumed,
           PublishResumed, PieceVerified, CountPiece, PublishPiece, FinalizeReturns,
           BorrowProgress, PublishStatus, sharedVars
  <2>4. resumed_pieces' = resumed_pieces \/ pc = "set_resumed"
    BY <2>1
       DEF FeedNext, Manager, Sampler, Initialize, SetTotals, SetResumed,
           PublishResumed, PieceVerified, CountPiece, PublishPiece, FinalizeReturns,
           BorrowProgress, PublishStatus, sharedVars
  <2>5. pc = "set_resumed" => ~is_complete
    BY <1>2, <2>1, TotalAssumption
       DEF StatusInv, FeedTypeOK, CountsFollowHeld, is_complete
  <2>6. completed_pieces' \in Nat
    BY <1>2, NextKeepsStatus, TotalAssumption DEF StatusInv, FeedTypeOK
  <2> QED
    BY <2>1, <2>2, <2>3, <2>4, <2>5, <2>6 DEF is_complete
<1> QED
  BY <1>1, <1>2, StatusInvHolds, PTL DEF FeedSpec

-----------------------------------------------------------------------------
(* The torrent file: what the walks over it read.                          *)

(* Every nonempty set of natural numbers has a least element.              *)
LEMMA LeastNumber ==
  ASSUME NEW S \in SUBSET Nat, S # {}
  PROVE  \E p \in S : \A q \in S : p <= q
<1> DEFINE Below == {pair \in Nat \X Nat : pair[1] < pair[2]}
<1>1. IsWellFoundedOn(Below, Nat)
  BY NatLessThanWellFounded DEF OpToRel
<1>2. PICK p \in S : \A q \in S : <<q, p>> \notin Below
  <2> HIDE DEF Below
  <2> QED  BY <1>1, WFMin
<1>3. ASSUME NEW q \in S
      PROVE  p <= q
  <2>1. p \in Nat /\ q \in Nat
    OBVIOUS
  <2>2. <<q, p>> \in Below <=> q < p
    BY <2>1
  <2> QED
    BY <1>2, <2>1, <2>2
<1> QED
  BY <1>3

(* A set that has every number whose lower numbers it has, has them all.   *)
LEMMA Upward ==
  ASSUME NEW S, \A m \in Nat : (\A k \in 0 .. m - 1 : k \in S) => m \in S
  PROVE  \A m \in Nat : m \in S
<1> DEFINE Out == {m \in Nat : m \notin S}
<1> SUFFICES ASSUME Out # {} PROVE FALSE
  OBVIOUS
<1>1. PICK m \in Out : \A k \in Out : m <= k
  <2>1. Out \in SUBSET Nat
    OBVIOUS
  <2> HIDE DEF Out
  <2> QED  BY <2>1, LeastNumber
<1>2. \A k \in 0 .. m - 1 : k \in S
  BY <1>1
<1> QED
  BY <1>2

(* A set that has every number up to n whose higher numbers it has.        *)
LEMMA Downward ==
  ASSUME NEW n \in Nat, NEW S,
         \A m \in 1 .. n : (\A k \in m + 1 .. n : k \in S) => m \in S
  PROVE  \A m \in 1 .. n : m \in S
<1> DEFINE T == {d \in Nat : d < n => n - d \in S}
<1>1. ASSUME NEW d \in Nat, \A k \in 0 .. d - 1 : k \in T
      PROVE  d \in T
  <2> SUFFICES ASSUME d < n PROVE n - d \in S
    OBVIOUS
  <2>1. ASSUME NEW k \in (n - d) + 1 .. n PROVE k \in S
    <3>1. n - k \in 0 .. d - 1
      OBVIOUS
    <3>2. n - (n - k) = k /\ n - k < n
      OBVIOUS
    <3> QED  BY <1>1, <3>1, <3>2
  <2> QED  BY <2>1
<1>2. \A d \in Nat : d \in T
  <2> HIDE DEF T
  <2> QED  BY <1>1, Upward
<1>3. ASSUME NEW m \in 1 .. n PROVE m \in S
  <2>1. n - m \in Nat /\ n - m < n /\ n - (n - m) = m
    OBVIOUS
  <2> QED  BY <1>2, <2>1
<1> QED  BY <1>3

-----------------------------------------------------------------------------
(* The next place one of `bytes` is at, or the end.                        *)
LEMMA UntilIs ==
  ASSUME NEW input \in Seq(Bytes), NEW at \in 1 .. Len(input) + 1, NEW bytes
  PROVE  LET j == Until(input, at, bytes) IN
         /\ j \in at .. Len(input) + 1
         /\ j <= Len(input) => input[j] \in bytes
         /\ \A k \in at .. j - 1 : input[k] \notin bytes
<1> DEFINE n == Len(input)
           Stops == {j \in at .. n + 1 : j > n \/ input[j] \in bytes}
           Is(j) == /\ j > n \/ input[j] \in bytes
                    /\ \A k \in at .. j - 1 : input[k] \notin bytes
<1>1. PICK j \in Stops : \A k \in Stops : j <= k
  <2>1. n + 1 \in Stops /\ Stops \in SUBSET Nat
    OBVIOUS
  <2> HIDE DEF Stops
  <2> QED  BY <2>1, LeastNumber
<1>2. \E i \in at .. n + 1 : Is(i)
  <2>1. \A k \in at .. j - 1 : k \notin Stops
    BY <1>1
  <2>2. \A k \in at .. j - 1 : input[k] \notin bytes
    BY <2>1
  <2> QED  BY <2>2
<1>3. Until(input, at, bytes) = CHOOSE i \in at .. n + 1 : Is(i)
  BY DEF Until
<1> DEFINE u == Until(input, at, bytes)
<1>4. u \in at .. n + 1 /\ Is(u)
  <2> HIDE DEF Is
  <2> QED  BY <1>2, <1>3
<1>5. u <= n => input[u] \in bytes
  BY <1>4
<1> QED
  BY <1>4, <1>5

(* A digit stands for a number below ten.                                  *)
LEMMA DigitIs ==
  ASSUME NEW byte, IsDigit(byte)
  PROVE  DigitOf(byte) \in 0 .. 9 /\ Digits[DigitOf(byte) + 1] = byte
<1>1. DOMAIN Digits = 1 .. 10 /\ Len(Digits) = 10
  BY DEF Digits
<1>2. \E i \in 1 .. 10 : Digits[i] = byte
  BY <1>1 DEF IsDigit, ToSet
<1> DEFINE i == CHOOSE i \in DOMAIN Digits : Digits[i] = byte
<1>3. i \in 1 .. 10 /\ Digits[i] = byte
  BY <1>1, <1>2
<1> HIDE DEF i
<1>4. DigitOf(byte) = i - 1
  BY DEF DigitOf, i
<1> QED  BY <1>3, <1>4

(* What NumberOf counts up to each digit.                                  *)
LEMMA NumberOfUnfolds ==
  ASSUME NEW digits \in Seq(Bytes)
  PROVE  \E number :
           /\ number = [i \in 0 .. Len(digits) |->
                          IF i = 0 THEN 0 ELSE 10 * number[i - 1] + DigitOf(digits[i])]
           /\ NumberOf(digits) = number[Len(digits)]
<1> DEFINE n == Len(digits)
           Counts(g, m) == g = [i \in 0 .. m |->
                                  IF i = 0 THEN 0 ELSE 10 * g[i - 1] + DigitOf(digits[i])]
           S == {m \in Nat : \E g : Counts(g, m)}
<1>1. ASSUME NEW m \in Nat, \A k \in 0 .. m - 1 : k \in S
      PROVE  \E g : Counts(g, m)
  <2>1. CASE m = 0
    <3>1. Counts([i \in 0 .. 0 |-> 0], 0)
      OBVIOUS
    <3> QED  BY <2>1, <3>1
  <2>2. CASE m # 0
    <3>1. m - 1 \in S
      <4>1. m - 1 \in 0 .. m - 1
        BY <2>2
      <4> HIDE DEF S
      <4> QED  BY <1>1, <4>1
    <3>2. PICK g : Counts(g, m - 1)
      BY <3>1
    <3> DEFINE h == [i \in 0 .. m |->
                       IF i = m THEN 10 * g[m - 1] + DigitOf(digits[m]) ELSE g[i]]
    <3>3. ASSUME NEW i \in 0 .. m
          PROVE  h[i] = IF i = 0 THEN 0 ELSE 10 * h[i - 1] + DigitOf(digits[i])
      <4>1. i # 0 => i - 1 \in 0 .. m - 1 /\ i - 1 # m
        OBVIOUS
      <4>2. i # 0 => h[i - 1] = g[i - 1]
        BY <4>1
      <4>3. i # m => i \in 0 .. m - 1
        OBVIOUS
      <4>4. i # m => g[i] = IF i = 0 THEN 0 ELSE 10 * g[i - 1] + DigitOf(digits[i])
        BY <3>2, <4>3
      <4> QED  BY <2>2, <4>2, <4>4
    <3>4. Counts(h, m)
      <4> HIDE DEF h
      <4>1. h = [i \in 0 .. m |-> h[i]]
        BY DEF h
      <4> QED  BY <3>3, <4>1
    <3> QED
      <4> HIDE DEF h, Counts
      <4> QED  BY <3>4
  <2> QED  BY <2>1, <2>2
<1>2. \A m \in Nat : m \in S
  <2>1. \A m \in Nat : (\A k \in 0 .. m - 1 : k \in S) => m \in S
    <3> HIDE DEF Counts
    <3> QED  BY <1>1
  <2> HIDE DEF S
  <2> QED  BY <2>1, Upward
<1>3. \E g : Counts(g, n)
  <2> HIDE DEF Counts
  <2> QED  BY <1>2
<1> QED
  BY <1>3 DEF NumberOf

(* The digits up to any place count a natural number.                      *)
LEMMA NumberOfIsNumber ==
  ASSUME NEW digits \in Seq(Bytes), AllDigits(digits)
  PROVE  NumberOf(digits) \in Nat
<1> DEFINE n == Len(digits)
<1>1. PICK number :
        /\ number = [i \in 0 .. n |->
                       IF i = 0 THEN 0 ELSE 10 * number[i - 1] + DigitOf(digits[i])]
        /\ NumberOf(digits) = number[n]
  BY NumberOfUnfolds
<1> DEFINE S == {m \in Nat : m <= n => number[m] \in Nat}
<1>2. \A i \in 1 .. n : DigitOf(digits[i]) \in 0 .. 9
  BY DigitIs DEF AllDigits
<1>3. ASSUME NEW m \in Nat, \A k \in 0 .. m - 1 : k \in S
      PROVE  m \in S
  <2> SUFFICES ASSUME m <= n PROVE number[m] \in Nat
    OBVIOUS
  <2>1. number[m] = IF m = 0 THEN 0 ELSE 10 * number[m - 1] + DigitOf(digits[m])
    BY <1>1
  <2>2. CASE m = 0
    BY <2>1, <2>2
  <2>3. CASE m # 0
    <3>1. m - 1 \in 0 .. m - 1 /\ m - 1 <= n /\ m \in 1 .. n
      BY <2>3
    <3>2. number[m - 1] \in Nat
      BY <1>3, <3>1
    <3> QED  BY <1>2, <2>1, <2>3, <3>1, <3>2, SMTT(20)
  <2> QED  BY <2>2, <2>3
<1>4. \A m \in Nat : m \in S
  <2> HIDE DEF S
  <2> QED  BY <1>3, Upward
<1> QED  BY <1>1, <1>4

(* Strings end behind where they begin, and within the input.              *)
LEMMA BytesEndBehind ==
  ASSUME NEW input \in Seq(Bytes), NEW at \in 1 .. Len(input) + 1,
         ReadBytes(input, at).ok
  PROVE  ReadBytes(input, at).at \in at + 1 .. Len(input) + 1
<1> DEFINE colon  == Until(input, at, {":"})
           length == SubSeq(input, at, colon - 1)
           end    == colon + NumberOf(length)
<1>1. colon \in at .. Len(input) + 1
  BY UntilIs
<1>2. length \in Seq(Bytes)
  <2> HIDE DEF colon
  <2>1. colon - 1 \in at - 1 .. Len(input)
    BY <1>1
  <2> QED  BY <1>1, <2>1, SubSeqProperties
<1> HIDE DEF colon, length
<1>3. /\ AllDigits(length) /\ ~(end > Len(input))
      /\ ReadBytes(input, at).at = end + 1
  BY DEF ReadBytes, Fails, Reads, colon, length
<1>4. NumberOf(length) \in Nat
  BY <1>2, <1>3, NumberOfIsNumber
<1> QED  BY <1>1, <1>3, <1>4

LEMMA IntegersEndBehind ==
  ASSUME NEW input \in Seq(Bytes), NEW at \in 1 .. Len(input) + 1
  PROVE  /\ ReadInteger(input, at).ok =>
              ReadInteger(input, at).at \in at + 1 .. Len(input) + 1
         /\ SkipInteger(input, at).ok =>
              SkipInteger(input, at).at \in at + 1 .. Len(input) + 1
<1> DEFINE end == Until(input, at, {"e"})
<1>1. end \in at .. Len(input) + 1
  BY UntilIs
<1> HIDE DEF end
<1>2. /\ ReadInteger(input, at).ok =>
           ReadInteger(input, at).at = end + 1 /\ ~(end > Len(input))
      /\ SkipInteger(input, at).ok =>
           SkipInteger(input, at).at = end + 1 /\ ~(end > Len(input))
  BY DEF ReadInteger, SkipInteger, Fails, Reads, end
<1> QED  BY <1>1, <1>2

(* An integer that is read is skipped, to the same place.                  *)
LEMMA IntegersAgree ==
  ASSUME NEW input \in Seq(Bytes), NEW at \in 1 .. Len(input),
         ReadInteger(input, at).ok
  PROVE  /\ SkipInteger(input, at).ok
         /\ SkipInteger(input, at).at = ReadInteger(input, at).at
<1> DEFINE end    == Until(input, at, {"e"})
           signed == at < Len(input) /\ input[at + 1] = "-"
           first  == IF signed THEN at + 2 ELSE at + 1
           digits == SubSeq(input, first, end - 1)
<1>1. end \in at .. Len(input) + 1
  BY UntilIs
<1> HIDE DEF end
<1>2. /\ ~(end > Len(input)) /\ AllDigits(digits)
      /\ ReadInteger(input, at).at = end + 1
  BY DEF ReadInteger, Fails, Reads, end
<1>3. ASSUME NEW k \in at + 1 .. end - 1
      PROVE  IsDigit(input[k]) \/ input[k] = "-"
  <2>1. CASE k < first
    <3>1. k = at + 1 /\ signed
      BY <2>1
    <3> QED  BY <3>1
  <2>2. CASE k >= first
    <3> HIDE DEF signed
    <3>0. first \in Nat /\ first >= 1
      OBVIOUS
    <3> HIDE DEF first
    <3>1. /\ k - first + 1 \in 1 .. Len(digits)
          /\ digits[k - first + 1] = input[k]
      BY <1>1, <1>2, <2>2, <3>0
    <3>2. IsDigit(digits[k - first + 1])
      <4> HIDE DEF digits
      <4> QED  BY <1>2, <3>1 DEF AllDigits
    <3> QED  BY <3>1, <3>2
  <2> QED  BY <1>1, <2>1, <2>2
<1>4. SkipInteger(input, at) = Reads(end + 1, Number(0))
  BY <1>2, <1>3 DEF SkipInteger, end
<1> QED  BY <1>2, <1>4 DEF Reads

-----------------------------------------------------------------------------
(* The walk over lists and dictionaries.                                   *)

(* From p on, `rest` reads forward only.                                   *)
Forward(input, rest, p) ==
  \A at \in p .. Len(input) + 1 : \A of \in {"list", "dict"} :
    rest[at][of].ok => rest[at][of].at \in at + 1 .. Len(input) + 1

LEMMA ForwardLater ==
  ASSUME NEW input \in Seq(Bytes), NEW rest, NEW p \in Nat, Forward(input, rest, p),
         NEW q \in Nat, p <= q
  PROVE  Forward(input, rest, q)
  BY DEF Forward

(* What a value begins with tells what it is.                              *)
LEMMA ValueIs ==
  ASSUME NEW input, NEW how, NEW rest, NEW at, ~(at > Len(input))
  PROVE  LET r == ValueAt(input, how, rest, at) IN
         /\ input[at] = "i" =>
              r = IF how = "skip" THEN SkipInteger(input, at) ELSE ReadInteger(input, at)
         /\ input[at] = "l" => r = As("list", rest[at + 1]["list"])
         /\ input[at] = "d" => r = As("dict", rest[at + 1]["dict"])
         /\ input[at] \notin {"i", "l", "d"} /\ IsDigit(input[at]) =>
              r = As("str", ReadBytes(input, at))
         /\ input[at] \notin {"i", "l", "d"} /\ ~IsDigit(input[at]) => r = Fails
<1>0. ~IsDigit("i") /\ ~IsDigit("l") /\ ~IsDigit("d")
  <2>1. /\ DOMAIN Digits = 1 .. 10 /\ Digits[1] = "0" /\ Digits[2] = "1" /\ Digits[3] = "2"
        /\ Digits[4] = "3" /\ Digits[5] = "4" /\ Digits[6] = "5" /\ Digits[7] = "6"
        /\ Digits[8] = "7" /\ Digits[9] = "8" /\ Digits[10] = "9"
    BY DEF Digits
  <2>2. ASSUME NEW k \in 1 .. 10 PROVE Digits[k] \notin {"i", "l", "d"}
    BY <2>1
  <2> QED  BY <2>1, <2>2 DEF IsDigit, ToSet
<1>1. CASE input[at] = "i"
  <2>1. ~IsDigit(input[at])
    BY <1>0, <1>1
  <2> QED  BY <1>1, <2>1 DEF ValueAt
<1>2. CASE input[at] = "l"
  <2>1. ~IsDigit(input[at])
    BY <1>0, <1>2
  <2> QED  BY <1>2, <2>1 DEF ValueAt
<1>3. CASE input[at] = "d"
  <2>1. ~IsDigit(input[at])
    BY <1>0, <1>3
  <2> QED  BY <1>3, <2>1 DEF ValueAt
<1>4. CASE input[at] \notin {"i", "l", "d"} /\ IsDigit(input[at])
  BY <1>4 DEF ValueAt
<1>5. CASE input[at] \notin {"i", "l", "d"} /\ ~IsDigit(input[at])
  BY <1>5 DEF ValueAt
<1> QED  BY <1>0, <1>1, <1>2, <1>3, <1>4, <1>5

LEMMA ValueEndsBehind ==
  ASSUME NEW input \in Seq(Bytes), NEW how, NEW rest,
         NEW at \in 1 .. Len(input) + 1, Forward(input, rest, at + 1),
         ValueAt(input, how, rest, at).ok
  PROVE  /\ at \in 1 .. Len(input)
         /\ ValueAt(input, how, rest, at).at \in at + 1 .. Len(input) + 1
<1> DEFINE r == ValueAt(input, how, rest, at)
<1>0. ~(at > Len(input))
  BY DEF ValueAt, Fails
<1>1. at <= Len(input)
  BY <1>0
<1>2. at + 1 \in at + 1 .. Len(input) + 1
  BY <1>1
<1>3. \A of \in {"list", "dict"} :
        rest[at + 1][of].ok => rest[at + 1][of].at \in at + 2 .. Len(input) + 1
  BY <1>2 DEF Forward
<1>4. \/ r = SkipInteger(input, at) \/ r = ReadInteger(input, at)
      \/ r = As("list", rest[at + 1]["list"]) \/ r = As("dict", rest[at + 1]["dict"])
      \/ r = As("str", ReadBytes(input, at)) \/ r = Fails
  BY <1>0, ValueIs
<1>5. r.ok
  OBVIOUS
<1> HIDE DEF r
<1>6. CASE r = SkipInteger(input, at) \/ r = ReadInteger(input, at)
  BY <1>1, <1>5, <1>6, IntegersEndBehind DEF r
<1>7. CASE r = As("list", rest[at + 1]["list"]) \/ r = As("dict", rest[at + 1]["dict"])
  BY <1>1, <1>3, <1>5, <1>7 DEF As, Fails, Reads, r
<1>8. CASE r = As("str", ReadBytes(input, at))
  <2>1. ReadBytes(input, at).ok /\ r.at = ReadBytes(input, at).at
    BY <1>5, <1>8 DEF As, Fails, Reads
  <2> QED  BY <1>1, <2>1, BytesEndBehind DEF r
<1>9. CASE r = Fails
  BY <1>5, <1>9 DEF Fails
<1> QED  BY <1>4, <1>6, <1>7, <1>8, <1>9

LEMMA ValueDepends ==
  ASSUME NEW input \in Seq(Bytes), NEW how, NEW rest, NEW other,
         NEW at \in 1 .. Len(input) + 1,
         \A p \in at + 1 .. Len(input) + 1 : rest[p] = other[p]
  PROVE  ValueAt(input, how, rest, at) = ValueAt(input, how, other, at)
<1>1. CASE at > Len(input)
  BY <1>1 DEF ValueAt
<1>2. CASE ~(at > Len(input))
  <2>1. rest[at + 1] = other[at + 1]
    BY <1>2
  <2> QED  BY <1>2, <2>1 DEF ValueAt
<1> QED  BY <1>1, <1>2

(* What RestAt makes of an element and what comes after it.                *)
LEMMA RestEndsBehind ==
  ASSUME NEW input \in Seq(Bytes), NEW how, NEW rest,
         NEW at \in 1 .. Len(input) + 1, NEW of \in {"list", "dict"},
         Forward(input, rest, at + 1),
         RestAt(input, how, rest, of, at).ok
  PROVE  RestAt(input, how, rest, of, at).at \in at + 1 .. Len(input) + 1
<1> DEFINE n     == Len(input)
           key   == ReadBytes(input, at)
           from  == IF of = "dict" THEN key.at ELSE at
           value == ValueAt(input, how, rest, from)
           after == rest[value.at][of]
           r     == RestAt(input, how, rest, of, at)
<1>0. n \in Nat /\ r.ok
  BY SMTT(30)
<1>1. ~(at > n)
  BY DEF RestAt, Fails
<1>2. CASE input[at] = "e"
  <2>1. r.at = at + 1
    BY <1>1, <1>2 DEF RestAt, Reads
  <2> QED  BY <1>1, <2>1
<1>3. CASE input[at] # "e"
  <2>1. /\ of = "dict" => key.ok
        /\ value.ok /\ after.ok /\ r.at = after.at
    BY <1>0, <1>1, <1>3, Zenon DEF RestAt, Fails, Reads
  <2>2. from \in at .. n + 1
    BY <1>1, <2>1, BytesEndBehind
  <2> HIDE DEF from
  <2>3. Forward(input, rest, from + 1)
    BY <2>2 DEF Forward
  <2>4. value.at \in from + 1 .. n + 1
    BY <2>1, <2>2, <2>3, ValueEndsBehind
  <2> HIDE DEF value, r
  <2>5. value.at \in at + 1 .. n + 1
    BY <2>2, <2>4
  <2>6. after.at \in value.at + 1 .. n + 1
    BY <2>1, <2>5 DEF Forward
  <2>7. r.at \in at + 1 .. n + 1
    BY <2>1, <2>5, <2>6
  <2> QED  BY <2>7 DEF r
<1> QED  BY <1>2, <1>3

LEMMA RestDepends ==
  ASSUME NEW input \in Seq(Bytes), NEW how, NEW rest, NEW other,
         NEW at \in 1 .. Len(input) + 1, NEW of \in {"list", "dict"},
         Forward(input, rest, at + 1),
         \A p \in at + 1 .. Len(input) + 1 : rest[p] = other[p]
  PROVE  RestAt(input, how, rest, of, at) = RestAt(input, how, other, of, at)
<1> DEFINE n     == Len(input)
           key   == ReadBytes(input, at)
           from  == IF of = "dict" THEN key.at ELSE at
           value == ValueAt(input, how, rest, from)
           theirs == ValueAt(input, how, other, from)
<1>1. CASE at > n
  BY <1>1, Zenon DEF RestAt
<1>2. CASE ~(at > n) /\ input[at] = "e"
  BY <1>2, Zenon DEF RestAt
<1>3. CASE ~(at > n) /\ input[at] # "e" /\ of = "dict" /\ ~key.ok
  BY <1>3, Zenon DEF RestAt
<1>4. CASE ~(at > n) /\ input[at] # "e" /\ (of = "dict" => key.ok)
  <2>1. from \in at .. n + 1
    BY <1>4, BytesEndBehind
  <2> HIDE DEF from
  <2>2. \A p \in from + 1 .. n + 1 : rest[p] = other[p]
    BY <2>1
  <2>3. value = theirs
    BY <2>1, <2>2, ValueDepends
  <2>4. ~value.ok \/ rest[value.at] = other[value.at]
    <3> SUFFICES ASSUME value.ok PROVE rest[value.at] = other[value.at]
      OBVIOUS
    <3>1. Forward(input, rest, from + 1)
      BY <2>1 DEF Forward
    <3>2. value.at \in from + 1 .. n + 1
      BY <2>1, <3>1, ValueEndsBehind
    <3> HIDE DEF value
    <3>3. value.at \in at + 1 .. n + 1
      BY <2>1, <3>2
    <3> QED  BY <3>3
  <2>5. CASE value.ok
    <3>1. rest[value.at][of] = other[theirs.at][of]
      BY <2>3, <2>4, <2>5, Zenon
    <3> QED  BY <1>4, <2>3, <2>5, <3>1, Zenon DEF RestAt, from
  <2>6. CASE ~value.ok
    BY <1>4, <2>3, <2>6, Zenon DEF RestAt, from
  <2> QED  BY <2>5, <2>6
<1> QED  BY <1>1, <1>2, <1>3, <1>4

(* The walk is what its equation says, and reads forward only.             *)
LEMMA WalkUnfolds ==
  ASSUME NEW input \in Seq(Bytes), NEW how
  PROVE  /\ \A at \in 1 .. Len(input) + 1 : \A of \in {"list", "dict"} :
              Walk(input, how)[at][of] =
                RestAt(input, how, Walk(input, how), of, at)
         /\ Forward(input, Walk(input, how), 1)
<1> DEFINE n  == Len(input)
           Of == {"list", "dict"}
           Step(g, at) == [of \in Of |-> RestAt(input, how, g, of, at)]
           Follows(g, m) == \A at \in m .. n + 1 : g[at] = Step(g, at)
           Good(m) == \E g : Follows(g, m) /\ Forward(input, g, m)
           S == {m \in Nat : Good(m)}
<1>n. n \in Nat /\ Len(input) = n
  OBVIOUS
<1> HIDE DEF n, Step
<1>1. Good(n + 2)
  <2>1. \A g : Follows(g, n + 2) /\ Forward(input, g, n + 2)
    BY <1>n DEF Forward
  <2> QED  BY <2>1
<1>2. ASSUME NEW m \in 1 .. n + 1, Good(m + 1)
      PROVE  Good(m)
  <2>1. PICK g : Follows(g, m + 1) /\ Forward(input, g, m + 1)
    BY <1>2
  <2> DEFINE h == [at \in m .. n + 1 |-> IF at = m THEN Step(g, m) ELSE g[at]]
  <2>2. \A p \in m + 1 .. n + 1 : h[p] = g[p]
    BY <1>n
  <2>3. h[m] = Step(g, m)
    BY <1>n
  <2> HIDE DEF h
  <2>4. Forward(input, h, m + 1)
    <3>1. \A at \in m + 1 .. n + 1 : h[at] = g[at]
      BY <2>2
    <3> QED  BY <1>n, <2>1, <3>1, Zenon DEF Forward
  <2>5. ASSUME NEW at \in m .. n + 1 PROVE Step(h, at) = Step(g, at)
    <3>1. ASSUME NEW of \in Of
          PROVE  RestAt(input, how, h, of, at) = RestAt(input, how, g, of, at)
      <4>1. at \in 1 .. Len(input) + 1
        BY <1>n
      <4>2. Forward(input, h, at + 1)
        BY <1>n, <2>4 DEF Forward
      <4>3. \A p \in at + 1 .. Len(input) + 1 : h[p] = g[p]
        BY <1>n, <2>2
      <4>4. of \in {"list", "dict"}
        OBVIOUS
      <4> QED  BY <4>1, <4>2, <4>3, <4>4, RestDepends, ZenonT(40)
    <3> QED  BY <3>1, Zenon DEF Step
  <2>6. Follows(h, m)
    <3>1. ASSUME NEW at \in m .. n + 1 PROVE h[at] = Step(h, at)
      <4>1. CASE at = m
        BY <2>3, <2>5, <4>1
      <4>2. CASE at # m
        <5>1. at \in m + 1 .. n + 1
          BY <1>n, <4>2
        <5>2. g[at] = Step(g, at) /\ h[at] = g[at]
          BY <2>1, <2>2, <5>1
        <5> QED  BY <2>5, <5>2
      <4> QED  BY <4>1, <4>2
    <3> QED  BY <3>1
  <2>7. Forward(input, h, m)
    <3>1. ASSUME NEW of \in Of, h[m][of].ok PROVE h[m][of].at \in m + 1 .. n + 1
      <4>1. h[m][of] = RestAt(input, how, g, of, m)
        BY <2>3 DEF Step
      <4>2. m \in 1 .. Len(input) + 1
        BY <1>n
      <4>3. RestAt(input, how, g, of, m).ok
        BY <3>1, <4>1
      <4> QED  BY <1>n, <2>1, <4>1, <4>2, <4>3, RestEndsBehind
    <3> QED  BY <1>n, <2>4, <3>1 DEF Forward
  <2> QED  BY <2>6, <2>7
<1>3. Good(1)
  <2> HIDE DEF Good
  <2>1. ASSUME NEW m \in 1 .. n + 1, \A k \in m + 1 .. n + 1 : k \in S
        PROVE  m \in S
    <3>1. CASE m = n + 1
      BY <1>1, <1>2, <1>n, <3>1
    <3>2. CASE m # n + 1
      <4>1. m + 1 \in S
        <5>1. m + 1 \in m + 1 .. n + 1
          BY <1>n, <3>2
        <5> HIDE DEF S
        <5> QED  BY <2>1, <5>1
      <4> QED  BY <1>2, <4>1
    <3> QED  BY <3>1, <3>2
  <2>2. \A m \in 1 .. n + 1 : m \in S
    <3> HIDE DEF S
    <3>1. n + 1 \in Nat
      BY <1>n
    <3> QED  BY <2>1, <3>1, Downward
  <2> QED  BY <1>n, <2>2
<1>4. PICK g : Follows(g, 1) /\ Forward(input, g, 1)
  BY <1>3
<1> DEFINE w == [at \in 1 .. n + 1 |-> g[at]]
           IsWalk(f) == f = [at \in 1 .. n + 1 |-> Step(f, at)]
<1>5. \A at \in 1 .. n + 1 : w[at] = g[at]
  OBVIOUS
<1>6. ASSUME NEW at \in 1 .. n + 1 PROVE w[at] = Step(w, at)
  <2> HIDE DEF w
  <2>1. ASSUME NEW of \in Of
        PROVE  RestAt(input, how, g, of, at) = RestAt(input, how, w, of, at)
    <3>1. at \in 1 .. Len(input) + 1
      BY <1>n
    <3>2. Forward(input, g, at + 1)
      BY <1>n, <1>4 DEF Forward
    <3>3. \A p \in at + 1 .. Len(input) + 1 : g[p] = w[p]
      BY <1>n, <1>5
    <3>4. of \in {"list", "dict"}
      OBVIOUS
    <3> QED  BY <3>1, <3>2, <3>3, <3>4, RestDepends, ZenonT(40)
  <2>2. Step(g, at) = Step(w, at)
    BY <2>1, Zenon DEF Step
  <2> QED  BY <1>4, <1>5, <2>2
<1>7. IsWalk(w)
  <2>1. w = [at \in 1 .. n + 1 |-> w[at]]
    OBVIOUS
  <2> HIDE DEF w
  <2> QED  BY <1>6, <2>1
<1>8. IsWalk(Walk(input, how))
  <2>1. \E f : IsWalk(f)
    <3> HIDE DEF w, IsWalk
    <3> QED  BY <1>7
  <2>2. Walk(input, how) = CHOOSE f : IsWalk(f)
    BY DEF Walk, Step, n
  <2> HIDE DEF IsWalk
  <2> QED  BY <2>1, <2>2
<1> DEFINE walk == Walk(input, how)
<1>9. \A at \in 1 .. n + 1 : walk[at] = Step(walk, at)
  <2> HIDE DEF walk
  <2>1. walk = [at \in 1 .. n + 1 |-> Step(walk, at)]
    BY <1>8 DEF walk
  <2> QED  BY <2>1, Zenon
<1> HIDE DEF walk
<1>10. \A at \in 1 .. n + 1 : \A of \in Of :
         walk[at][of] = RestAt(input, how, walk, of, at)
  BY <1>9 DEF Step
<1>11. Forward(input, walk, 1)
  <2> DEFINE F == {m \in Nat : Forward(input, walk, m)}
  <2>1. ASSUME NEW m \in 1 .. n + 1, Forward(input, walk, m + 1)
        PROVE  Forward(input, walk, m)
    <3>1. ASSUME NEW of \in Of, walk[m][of].ok PROVE walk[m][of].at \in m + 1 .. n + 1
      <4>1. walk[m][of] = RestAt(input, how, walk, of, m)
        BY <1>10
      <4>2. m \in 1 .. Len(input) + 1
        BY <1>n
      <4>3. RestAt(input, how, walk, of, m).ok
        BY <3>1, <4>1
      <4> QED  BY <1>n, <2>1, <4>1, <4>2, <4>3, RestEndsBehind
    <3> QED  BY <1>n, <2>1, <3>1 DEF Forward
  <2>2. Forward(input, walk, n + 2)
    BY <1>n DEF Forward
  <2>3. ASSUME NEW m \in 1 .. n + 1, \A k \in m + 1 .. n + 1 : k \in F
        PROVE  m \in F
    <3>1. CASE m = n + 1
      BY <1>n, <2>1, <2>2, <3>1
    <3>2. CASE m # n + 1
      <4>1. m + 1 \in m + 1 .. n + 1
        BY <1>n, <3>2
      <4>2. m + 1 \in F
        <5> HIDE DEF F
        <5> QED  BY <2>3, <4>1
      <4> QED  BY <2>1, <4>2
    <3> QED  BY <3>1, <3>2
  <2>4. \A m \in 1 .. n + 1 : m \in F
    <3> HIDE DEF F
    <3>1. n + 1 \in Nat
      BY <1>n
    <3> QED  BY <2>3, <3>1, Downward
  <2> QED  BY <1>n, <2>4
<1> QED  BY <1>n, <1>10, <1>11 DEF walk

(* Where a value that is read ends, and where what is left of a list or a  *)
(* dictionary does.                                                        *)
LEMMA DecodeEndsBehind ==
  ASSUME NEW input \in Seq(Bytes), NEW at \in 1 .. Len(input) + 1, Decode(input, at).ok
  PROVE  at \in 1 .. Len(input) /\ Decode(input, at).at \in at + 1 .. Len(input) + 1
<1>1. Forward(input, Walk(input, "decode"), 1)
  BY WalkUnfolds, Zenon
<1>2. Forward(input, Walk(input, "decode"), at + 1)
  <2>1. 1 \in Nat /\ at + 1 \in Nat /\ 1 <= at + 1
    OBVIOUS
  <2> QED  BY <1>1, <2>1, ForwardLater, Zenon
<1> QED  BY <1>2, ValueEndsBehind DEF Decode

(* From p on, whatever is decoded is skipped too, to the same place.       *)
Agree(input, p) ==
  \A at \in p .. Len(input) + 1 : \A of \in {"list", "dict"} :
    Walk(input, "decode")[at][of].ok =>
      /\ Walk(input, "skip")[at][of].ok
      /\ Walk(input, "skip")[at][of].at = Walk(input, "decode")[at][of].at

LEMMA ValuesAgree ==
  ASSUME NEW input \in Seq(Bytes), NEW at \in 1 .. Len(input) + 1,
         Agree(input, at + 1), Decode(input, at).ok
  PROVE  Skip(input, at).ok /\ Skip(input, at).at = Decode(input, at).at
<1> DEFINE d == Decode(input, at)
           s == Skip(input, at)
           decoded == Walk(input, "decode")
           skipped == Walk(input, "skip")
<1>1. d.ok /\ d = ValueAt(input, "decode", decoded, at) /\ s = ValueAt(input, "skip", skipped, at)
  BY DEF Decode, Skip
<1> HIDE DEF d, s, decoded, skipped
<1>2. at \in 1 .. Len(input) /\ ~(at > Len(input))
  BY DecodeEndsBehind
<1>3. \A of \in {"list", "dict"} : decoded[at + 1][of].ok =>
        skipped[at + 1][of].ok /\ skipped[at + 1][of].at = decoded[at + 1][of].at
  <2>1. at + 1 \in at + 1 .. Len(input) + 1
    BY <1>2
  <2> QED  BY <2>1, Zenon DEF Agree, decoded, skipped
<1>4. CASE input[at] = "i"
  <2>1. d = ReadInteger(input, at) /\ s = SkipInteger(input, at)
    BY <1>1, <1>2, <1>4, ValueIs
  <2> QED  BY <1>1, <1>2, <2>1, IntegersAgree DEF d, s
<1>5. CASE input[at] = "l"
  <2>1. d = As("list", decoded[at + 1]["list"]) /\ s = As("list", skipped[at + 1]["list"])
    BY <1>1, <1>2, <1>5, ValueIs
  <2>2. d.at = s.at /\ s.ok
    BY <1>1, <1>3, <2>1 DEF As, Fails, Reads
  <2> QED  BY <2>2 DEF d, s
<1>6. CASE input[at] = "d"
  <2>1. d = As("dict", decoded[at + 1]["dict"]) /\ s = As("dict", skipped[at + 1]["dict"])
    BY <1>1, <1>2, <1>6, ValueIs
  <2>2. d.at = s.at /\ s.ok
    BY <1>1, <1>3, <2>1 DEF As, Fails, Reads
  <2> QED  BY <2>2 DEF d, s
<1>7. CASE input[at] \notin {"i", "l", "d"} /\ IsDigit(input[at])
  <2>1. d = As("str", ReadBytes(input, at)) /\ s = As("str", ReadBytes(input, at))
    BY <1>1, <1>2, <1>7, ValueIs
  <2> QED  BY <1>1, <2>1 DEF d, s
<1>8. CASE input[at] \notin {"i", "l", "d"} /\ ~IsDigit(input[at])
  <2>1. d = Fails
    BY <1>1, <1>2, <1>8, ValueIs
  <2> QED  BY <1>1, <2>1 DEF Fails
<1> QED  BY <1>4, <1>5, <1>6, <1>7, <1>8

(* How a list or a dictionary ends, and how it goes on.                    *)
LEMMA RestEnds ==
  ASSUME NEW input, NEW how, NEW rest, NEW at, NEW of, ~(at > Len(input)), input[at] = "e"
  PROVE  RestAt(input, how, rest, of, at) = Reads(at + 1, <<>>)
  BY Zenon DEF RestAt

(* Where an element or an entry of it begins.                              *)
ElementAt(input, of, at) == IF of = "dict" THEN ReadBytes(input, at).at ELSE at

LEMMA RestGoesOn ==
  ASSUME NEW input, NEW how, NEW rest, NEW at, NEW of, ~(at > Len(input)), input[at] # "e",
         NEW value, value = ValueAt(input, how, rest, ElementAt(input, of, at)),
         RestAt(input, how, rest, of, at).ok
  PROVE  /\ of = "dict" => ReadBytes(input, at).ok
         /\ value.ok /\ rest[value.at][of].ok
<1>1. ~Fails.ok
  BY DEF Fails
<1>2. /\ RestAt(input, how, rest, of, at).ok
      /\ value = ValueAt(input, how, rest,
                         IF of = "dict" THEN ReadBytes(input, at).at ELSE at)
  BY DEF ElementAt
<1> QED  BY <1>1, <1>2, Zenon DEF RestAt

LEMMA RestMade ==
  ASSUME NEW input, NEW how, NEW rest, NEW at, NEW of, ~(at > Len(input)), input[at] # "e",
         ~(of = "dict" /\ ~ReadBytes(input, at).ok),
         NEW value, value = ValueAt(input, how, rest, ElementAt(input, of, at)),
         value.ok, rest[value.at][of].ok
  PROVE  /\ RestAt(input, how, rest, of, at).ok
         /\ RestAt(input, how, rest, of, at).at = rest[value.at][of].at
         /\ RestAt(input, how, rest, of, at).val =
              <<IF of = "dict" THEN <<ReadBytes(input, at).val, value.val>> ELSE value.val>>
                \o rest[value.at][of].val
<1> DEFINE entry == IF of = "dict" THEN <<ReadBytes(input, at).val, value.val>>
                    ELSE value.val
           after == rest[value.at][of]
           val   == <<entry>> \o after.val
           r     == RestAt(input, how, rest, of, at)
<1>1. value = ValueAt(input, how, rest,
                      IF of = "dict" THEN ReadBytes(input, at).at ELSE at)
  BY DEF ElementAt
<1>2. r = Reads(after.at, val)
  BY <1>1, Zenon DEF RestAt
<1> HIDE DEF val, r
<1>4. r.ok /\ r.at = after.at /\ r.val = val
  BY <1>2 DEF Reads
<1> QED  BY <1>4 DEF val, r

LEMMA RestMadeAt ==
  ASSUME NEW input, NEW how, NEW rest, NEW at, NEW of, ~(at > Len(input)), input[at] # "e",
         ~(of = "dict" /\ ~ReadBytes(input, at).ok),
         NEW value, value = ValueAt(input, how, rest, ElementAt(input, of, at)),
         value.ok, rest[value.at][of].ok
  PROVE  /\ RestAt(input, how, rest, of, at).ok
         /\ RestAt(input, how, rest, of, at).at = rest[value.at][of].at
<1>1. value = ValueAt(input, how, rest,
                      IF of = "dict" THEN ReadBytes(input, at).at ELSE at)
  BY DEF ElementAt
<1>2. \E val : RestAt(input, how, rest, of, at) = Reads(rest[value.at][of].at, val)
  BY <1>1, Zenon DEF RestAt
<1> QED  BY <1>2 DEF Reads

LEMMA WalksAgree ==
  ASSUME NEW input \in Seq(Bytes)
  PROVE  Agree(input, 1)
<1> DEFINE n == Len(input)
           decoded == Walk(input, "decode")
           skipped == Walk(input, "skip")
           S == {m \in Nat : Agree(input, m)}
<1>n. n \in Nat /\ Len(input) = n
  OBVIOUS
<1> HIDE DEF n
<1>1. ASSUME NEW m \in 1 .. n + 1, Agree(input, m + 1)
      PROVE  Agree(input, m)
  <2>1. ASSUME NEW of \in {"list", "dict"}, decoded[m][of].ok
        PROVE  skipped[m][of].ok /\ skipped[m][of].at = decoded[m][of].at
    <3> DEFINE key   == ReadBytes(input, m)
               from  == ElementAt(input, of, m)
               value == Decode(input, from)
               over  == Skip(input, from)
    <3>m. m \in 1 .. Len(input) + 1
      BY <1>n
    <3>1. /\ decoded[m][of] = RestAt(input, "decode", decoded, of, m)
          /\ skipped[m][of] = RestAt(input, "skip", skipped, of, m)
      BY <3>m, WalkUnfolds, ZenonT(40)
    <3>2. RestAt(input, "decode", decoded, of, m).ok
      BY <2>1, <3>1, Zenon
    <3>3. ~(m > Len(input))
      BY <3>2 DEF RestAt, Fails
    <3>4. CASE input[m] = "e"
      <4>1. /\ RestAt(input, "decode", decoded, of, m) = Reads(m + 1, <<>>)
            /\ RestAt(input, "skip", skipped, of, m) = Reads(m + 1, <<>>)
        BY <3>3, <3>4, RestEnds
      <4> QED  BY <2>1, <3>1, <4>1, Zenon
    <3>5. CASE input[m] # "e"
      <4>1. /\ of = "dict" => key.ok
            /\ value.ok /\ decoded[value.at][of].ok
        <5>1. value = ValueAt(input, "decode", decoded, from)
          BY DEF Decode
        <5> HIDE DEF value
        <5> QED  BY <3>2, <3>3, <3>5, <5>1, RestGoesOn, Zenon
      <4>2. from \in m .. n + 1
        BY <1>n, <3>m, <4>1, BytesEndBehind DEF ElementAt
      <4> HIDE DEF from
      <4>3. Agree(input, from + 1)
        BY <1>1, <1>n, <4>2 DEF Agree
      <4>4. /\ over.ok /\ over.at = value.at
        BY <1>n, <4>1, <4>2, <4>3, ValuesAgree
      <4>5. value.at \in m + 1 .. n + 1
        <5>1. value.at \in from + 1 .. n + 1
          BY <1>n, <4>1, <4>2, DecodeEndsBehind
        <5> HIDE DEF value
        <5> QED  BY <4>2, <5>1
      <4>6. /\ skipped[value.at][of].ok
            /\ skipped[value.at][of].at = decoded[value.at][of].at
        BY <1>1, <1>n, <4>1, <4>5, Zenon DEF Agree
      <4>7. /\ RestAt(input, "decode", decoded, of, m).at = decoded[value.at][of].at
            /\ RestAt(input, "skip", skipped, of, m).ok
            /\ RestAt(input, "skip", skipped, of, m).at = skipped[over.at][of].at
        <5>1. /\ value = ValueAt(input, "decode", decoded, from)
              /\ over = ValueAt(input, "skip", skipped, from)
          BY DEF Decode, Skip
        <5>2. skipped[over.at][of].ok
          BY <4>4, <4>6
        <5> HIDE DEF value, over
        <5>3. /\ RestAt(input, "decode", decoded, of, m).ok
              /\ RestAt(input, "decode", decoded, of, m).at = decoded[value.at][of].at
          <6> HIDE DEF decoded, key, from
          <6>1. /\ ~(of = "dict" /\ ~ReadBytes(input, m).ok)
                /\ value = ValueAt(input, "decode", decoded, ElementAt(input, of, m))
            BY <4>1, <5>1 DEF from, key
          <6>2. /\ ~(m > Len(input)) /\ input[m] # "e"
                /\ value.ok /\ decoded[value.at][of].ok
            BY <3>3, <3>5, <4>1
          <6> QED  BY <6>1, <6>2, RestMadeAt
        <5>4. /\ RestAt(input, "skip", skipped, of, m).ok
              /\ RestAt(input, "skip", skipped, of, m).at = skipped[over.at][of].at
          <6> HIDE DEF skipped, key, from
          <6>1. /\ ~(of = "dict" /\ ~ReadBytes(input, m).ok)
                /\ over = ValueAt(input, "skip", skipped, ElementAt(input, of, m))
            BY <4>1, <5>1 DEF from, key
          <6>2. /\ ~(m > Len(input)) /\ input[m] # "e"
                /\ over.ok /\ skipped[over.at][of].ok
            BY <3>3, <3>5, <4>4, <5>2
          <6> QED  BY <6>1, <6>2, RestMadeAt
        <5> QED  BY <5>3, <5>4
      <4> QED  BY <3>1, <4>4, <4>6, <4>7, Zenon
    <3> QED  BY <3>4, <3>5
  <2>2. \A at \in m .. n + 1 : at = m \/ at \in m + 1 .. n + 1
    BY <1>n
  <2> QED  BY <1>1, <1>n, <2>1, <2>2, Zenon DEF Agree
<1>2. Agree(input, n + 2)
  BY <1>n DEF Agree
<1>3. ASSUME NEW m \in 1 .. n + 1, \A k \in m + 1 .. n + 1 : k \in S
      PROVE  m \in S
  <2>1. CASE m = n + 1
    BY <1>1, <1>2, <1>n, <2>1
  <2>2. CASE m # n + 1
    <3>1. m + 1 \in m + 1 .. n + 1
      BY <1>n, <2>2
    <3>2. m + 1 \in S
      <4> HIDE DEF S
      <4> QED  BY <1>3, <3>1
    <3> QED  BY <1>1, <3>2
  <2> QED  BY <2>1, <2>2
<1>4. \A m \in 1 .. n + 1 : m \in S
  <2> HIDE DEF S
  <2>1. n + 1 \in Nat
    BY <1>n
  <2> QED  BY <1>3, <2>1, Downward
<1> QED  BY <1>n, <1>4

(* The second reading of a value, which only steps over it, never fails    *)
(* where the first, which decodes it, succeeded, and ends where that ends: *)
(* what skip_value hands out is what was decoded, for every input.         *)
THEOREM SkipEndsWhereDecodeEnds ==
  \A input \in Seq(Bytes) : \A at \in 1 .. Len(input) + 1 :
    Decode(input, at).ok => Skip(input, at).ok /\ Skip(input, at).at = Decode(input, at).at
<1> SUFFICES ASSUME NEW input \in Seq(Bytes), NEW at \in 1 .. Len(input) + 1,
                    Decode(input, at).ok
             PROVE  Skip(input, at).ok /\ Skip(input, at).at = Decode(input, at).at
  OBVIOUS
<1>1. Agree(input, at + 1)
  BY WalksAgree DEF Agree
<1> QED  BY <1>1, ValuesAgree

-----------------------------------------------------------------------------
(* Where the value of `info` is found.                                     *)

(* One step of the walk over a file's entries.                             *)
InfoStep(input, g, at) ==
  IF ~ReadBytes(input, at).ok THEN 0
  ELSE IF ReadBytes(input, at).val = <<"i">> THEN ReadBytes(input, at).at
  ELSE IF Decode(input, ReadBytes(input, at).at).ok
       THEN g[Decode(input, ReadBytes(input, at).at).at] ELSE 0

LEMMA InfoStepDepends ==
  ASSUME NEW input \in Seq(Bytes), NEW g, NEW h, NEW at \in 1 .. Len(input) + 1,
         \A p \in at + 1 .. Len(input) + 1 : g[p] = h[p]
  PROVE  InfoStep(input, g, at) = InfoStep(input, h, at)
<1> DEFINE key   == ReadBytes(input, at)
           value == Decode(input, key.at)
<1>1. CASE key.ok /\ value.ok
  <2>1. key.at \in at + 1 .. Len(input) + 1
    BY <1>1, BytesEndBehind
  <2>2. value.at \in key.at + 1 .. Len(input) + 1
    <3>1. key.at \in 1 .. Len(input) + 1
      BY <2>1
    <3> HIDE DEF key
    <3> QED  BY <1>1, <3>1, DecodeEndsBehind
  <2> HIDE DEF key, value
  <2>3. value.at \in at + 1 .. Len(input) + 1
    BY <2>1, <2>2
  <2>4. g[value.at] = h[value.at]
    BY <2>3
  <2> QED  BY <2>4, Zenon DEF InfoStep, value, key
<1>2. CASE ~(key.ok /\ value.ok)
  BY <1>2, Zenon DEF InfoStep
<1> QED  BY <1>1, <1>2

LEMMA InfoUnfolds ==
  ASSUME NEW input \in Seq(Bytes)
  PROVE  \E behind :
           /\ \A at \in 1 .. Len(input) + 1 : behind[at] = InfoStep(input, behind, at)
           /\ InfoBehind(input) = behind[2]
<1> DEFINE n == Len(input)
           Follows(g, m) == \A at \in m .. n + 1 : g[at] = InfoStep(input, g, at)
           Good(m) == \E g : Follows(g, m)
           S == {m \in Nat : Good(m)}
<1>n. n \in Nat /\ Len(input) = n
  OBVIOUS
<1> HIDE DEF n
<1>1. Good(n + 2)
  <2>1. \A g : Follows(g, n + 2)
    BY <1>n
  <2> QED  BY <2>1
<1>2. ASSUME NEW m \in 1 .. n + 1, Good(m + 1)
      PROVE  Good(m)
  <2>1. PICK g : Follows(g, m + 1)
    BY <1>2
  <2> DEFINE h == [at \in m .. n + 1 |-> IF at = m THEN InfoStep(input, g, m) ELSE g[at]]
  <2>2. \A p \in m + 1 .. n + 1 : h[p] = g[p]
    BY <1>n
  <2>3. h[m] = InfoStep(input, g, m)
    BY <1>n
  <2> HIDE DEF h
  <2>4. ASSUME NEW at \in m .. n + 1 PROVE InfoStep(input, h, at) = InfoStep(input, g, at)
    <3>1. at \in 1 .. Len(input) + 1
      BY <1>n
    <3>2. \A p \in at + 1 .. Len(input) + 1 : h[p] = g[p]
      BY <1>n, <2>2
    <3> QED  BY <3>1, <3>2, InfoStepDepends, Zenon
  <2>5. ASSUME NEW at \in m .. n + 1 PROVE h[at] = InfoStep(input, h, at)
    <3>1. CASE at = m
      BY <2>3, <2>4, <3>1
    <3>2. CASE at # m
      <4>1. at \in m + 1 .. n + 1
        BY <1>n, <3>2
      <4>2. g[at] = InfoStep(input, g, at) /\ h[at] = g[at]
        BY <2>1, <2>2, <4>1
      <4> QED  BY <2>4, <4>2
    <3> QED  BY <3>1, <3>2
  <2> QED  BY <2>5
<1>3. Good(1)
  <2> HIDE DEF Good
  <2>1. ASSUME NEW m \in 1 .. n + 1, \A k \in m + 1 .. n + 1 : k \in S
        PROVE  m \in S
    <3>1. CASE m = n + 1
      BY <1>1, <1>2, <1>n, <3>1
    <3>2. CASE m # n + 1
      <4>1. m + 1 \in m + 1 .. n + 1
        BY <1>n, <3>2
      <4>2. m + 1 \in S
        <5> HIDE DEF S
        <5> QED  BY <2>1, <4>1
      <4> QED  BY <1>2, <4>2
    <3> QED  BY <3>1, <3>2
  <2>2. \A m \in 1 .. n + 1 : m \in S
    <3> HIDE DEF S
    <3>1. n + 1 \in Nat
      BY <1>n
    <3> QED  BY <2>1, <3>1, Downward
  <2> QED  BY <1>n, <2>2
<1>4. PICK g : Follows(g, 1)
  BY <1>3
<1> DEFINE w == [at \in 1 .. n + 1 |-> g[at]]
           IsBehind(f) == f = [at \in 1 .. n + 1 |-> InfoStep(input, f, at)]
<1>5. \A at \in 1 .. n + 1 : w[at] = g[at]
  OBVIOUS
<1>6. ASSUME NEW at \in 1 .. n + 1 PROVE w[at] = InfoStep(input, w, at)
  <2> HIDE DEF w
  <2>1. at \in 1 .. Len(input) + 1
    BY <1>n
  <2>2. \A p \in at + 1 .. Len(input) + 1 : g[p] = w[p]
    BY <1>n, <1>5
  <2>3. InfoStep(input, g, at) = InfoStep(input, w, at)
    BY <2>1, <2>2, InfoStepDepends, Zenon
  <2> QED  BY <1>4, <1>5, <2>3
<1>7. \E f : IsBehind(f)
  <2>1. w = [at \in 1 .. n + 1 |-> w[at]]
    OBVIOUS
  <2>2. IsBehind(w)
    <3> HIDE DEF w
    <3> QED  BY <1>6, <2>1
  <2> HIDE DEF w, IsBehind
  <2> QED  BY <2>2
<1> DEFINE behind == CHOOSE f : IsBehind(f)
<1>8. behind = [at \in 1 .. n + 1 |-> InfoStep(input, behind, at)]
  BY <1>7
<1>9. InfoBehind(input) = behind[2]
  BY Zenon DEF InfoBehind, InfoStep, n
<1> HIDE DEF behind
<1>10. \A at \in 1 .. n + 1 : behind[at] = InfoStep(input, behind, at)
  BY <1>8, Zenon
<1> QED  BY <1>n, <1>9, <1>10

-----------------------------------------------------------------------------
(* Sequences of any kind.                                                  *)

Sequence(s) == \E T : s \in Seq(T)

LEMMA OneMore ==
  ASSUME NEW e, NEW t, Sequence(t)
  PROVE  /\ Sequence(<<e>> \o t)
         /\ Len(<<e>> \o t) = Len(t) + 1 /\ Len(t) \in Nat
         /\ (<<e>> \o t)[1] = e
         /\ \A i \in 1 .. Len(t) : (<<e>> \o t)[i + 1] = t[i]
<1>1. PICK T : t \in Seq(T)
  BY DEF Sequence
<1> DEFINE U == T \cup {e}
           o == <<e>>
<1>2. t \in Seq(U) /\ o \in Seq(U) /\ Len(o) = 1 /\ o[1] = e /\ Len(t) \in Nat
  <2>1. t \in Seq(U)
    BY <1>1, SeqMonotonic
  <2> QED  BY <2>1, <1>1
<1> HIDE DEF o, U
<1>3. /\ o \o t \in Seq(U) /\ Len(o \o t) = Len(o) + Len(t)
      /\ \A i \in 1 .. Len(o) + Len(t) :
           (o \o t)[i] = IF i <= Len(o) THEN o[i] ELSE t[i - Len(o)]
  BY <1>2, ConcatProperties
<1> DEFINE c == o \o t
<1>4. c \in Seq(U) /\ Len(c) = Len(t) + 1
  BY <1>2, <1>3
<1>5. \A i \in 1 .. Len(t) + 1 : c[i] = IF i <= 1 THEN o[i] ELSE t[i - 1]
  BY <1>2, <1>3
<1> HIDE DEF c
<1>6. c[1] = e /\ \A i \in 1 .. Len(t) : c[i + 1] = t[i]
  <2>1. 1 \in 1 .. Len(t) + 1
    BY <1>2
  <2>2. ASSUME NEW i \in 1 .. Len(t) PROVE c[i + 1] = t[i]
    <3>1. i + 1 \in 1 .. Len(t) + 1 /\ ~(i + 1 <= 1) /\ (i + 1) - 1 = i
      BY <1>2
    <3> QED  BY <1>5, <3>1
  <2> QED  BY <1>2, <1>5, <2>1, <2>2
<1>7. Sequence(c)
  BY <1>4 DEF Sequence
<1> QED  BY <1>2, <1>4, <1>6, <1>7 DEF c, o

-----------------------------------------------------------------------------
(* A dictionary that goes on from p well has entries, and `behind` finds   *)
(* the value of the first that is called `info`.                           *)
InfoKnown(input, behind, p) ==
  LET entries == Walk(input, "decode")[p]["dict"] IN
  entries.ok =>
    /\ Sequence(entries.val)
    /\ (\E i \in 1 .. Len(entries.val) : entries.val[i][1] = <<"i">>) =>
         /\ behind[p] \in 1 .. Len(input) + 1
         /\ Decode(input, behind[p]).ok
         /\ \E i \in 1 .. Len(entries.val) :
              entries.val[i][1] = <<"i">> /\ entries.val[i][2] = Decode(input, behind[p]).val

LEMMA InfoStepKnown ==
  ASSUME NEW input \in Seq(Bytes), NEW behind, NEW m \in 1 .. Len(input) + 1,
         behind[m] = InfoStep(input, behind, m),
         \A p \in m + 1 .. Len(input) + 1 : InfoKnown(input, behind, p)
  PROVE  InfoKnown(input, behind, m)
<1> DEFINE n       == Len(input)
           walk    == Walk(input, "decode")
           entries == walk[m]["dict"]
           key     == ReadBytes(input, m)
           value   == Decode(input, key.at)
           after   == walk[value.at]["dict"]
           entry   == <<key.val, value.val>>
<1>n. n \in Nat /\ m \in 1 .. n + 1
  BY SMTT(30)
<1> SUFFICES ASSUME entries.ok
             PROVE  InfoKnown(input, behind, m)
  BY SMTT(30) DEF InfoKnown
<1>1. entries = RestAt(input, "decode", walk, "dict", m)
  BY WalkUnfolds, Zenon
<1>2. RestAt(input, "decode", walk, "dict", m).ok
  BY <1>1, Zenon
<1>3. ~(m > Len(input))
  BY <1>2, SMTT(30) DEF RestAt, Fails
<1>4. CASE input[m] = "e"
  <2>1. entries = Reads(m + 1, <<>>)
    BY <1>1, <1>3, <1>4, RestEnds
  <2>2. entries.val = <<>>
    BY <2>1 DEF Reads
  <2>3. Sequence(entries.val) /\ Len(entries.val) = 0
    <3>1. <<>> \in Seq({1})
      OBVIOUS
    <3> QED  BY <2>2, <3>1 DEF Sequence
  <2> HIDE DEF entries
  <2> QED  BY <2>3 DEF InfoKnown, entries
<1>5. CASE input[m] # "e"
  <2>0. value = ValueAt(input, "decode", walk, ElementAt(input, "dict", m))
    BY DEF ElementAt, Decode
  <2>1. key.ok /\ value.ok /\ after.ok
    <3> HIDE DEF value, walk
    <3> QED  BY <1>2, <1>3, <1>5, <2>0, RestGoesOn, ZenonT(40)
  <2>2. entries.val = <<entry>> \o after.val
    <3>0. ElementAt(input, "dict", m) = key.at
      BY DEF ElementAt
    <3> HIDE DEF walk
    <3>1. /\ ~(m > Len(input)) /\ input[m] # "e" /\ ReadBytes(input, m).ok
          /\ value = ValueAt(input, "decode", walk, key.at)
          /\ value.ok /\ walk[value.at]["dict"].ok
      BY <1>3, <1>5, <2>0, <2>1, <3>0
    <3> DEFINE val == <<entry>> \o after.val
               r   == RestAt(input, "decode", walk, "dict", m)
    <3>2. r = Reads(after.at, val)
      BY <3>1, Zenon DEF RestAt
    <3> HIDE DEF val, r
    <3>3. r.val = val
      BY <3>2 DEF Reads
    <3> QED  BY <1>1, <3>3 DEF val, r
  <2>3. key.at \in m + 1 .. n + 1
    BY <2>1, BytesEndBehind
  <2>4. value.at \in m + 1 .. n + 1
    <3>1. key.at \in 1 .. n + 1
      BY <1>n, <2>3
    <3> HIDE DEF key
    <3>2. value.at \in key.at + 1 .. n + 1
      BY <2>1, <3>1, DecodeEndsBehind
    <3> HIDE DEF value
    <3> QED  BY <1>n, <2>3, <3>2
  <2>5. InfoKnown(input, behind, value.at)
    BY <2>4
  <2>6. Sequence(after.val)
    BY <2>1, <2>5, Zenon DEF InfoKnown
  <2> HIDE DEF walk, value, key, entry, after, entries
  <2>7. /\ Sequence(entries.val)
        /\ Len(entries.val) = Len(after.val) + 1 /\ Len(after.val) \in Nat
        /\ entries.val[1] = entry
        /\ \A i \in 1 .. Len(after.val) : entries.val[i + 1] = after.val[i]
    BY <2>2, <2>6, OneMore
  <2>8. entry[1] = key.val /\ entry[2] = value.val
    BY DEF entry
  <2>9. ASSUME \E i \in 1 .. Len(entries.val) : entries.val[i][1] = <<"i">>
        PROVE  /\ behind[m] \in 1 .. n + 1
               /\ Decode(input, behind[m]).ok
               /\ \E i \in 1 .. Len(entries.val) :
                    entries.val[i][1] = <<"i">> /\ entries.val[i][2] = Decode(input, behind[m]).val
    <3>1. CASE key.val = <<"i">>
      <4>1. behind[m] = key.at
        BY <2>1, <3>1, Zenon DEF InfoStep, key
      <4>2. value = Decode(input, behind[m])
        BY <4>1 DEF value
      <4>3. 1 \in 1 .. Len(entries.val)
        BY <2>7
      <4>4. behind[m] \in 1 .. n + 1
        BY <1>n, <2>3, <4>1
      <4> QED  BY <2>1, <2>7, <2>8, <3>1, <4>2, <4>3, <4>4
    <3>2. CASE key.val # <<"i">>
      <4>1. behind[m] = behind[value.at]
        BY <2>1, <3>2, Zenon DEF InfoStep, key, value
      <4>2. \E j \in 1 .. Len(after.val) : after.val[j][1] = <<"i">>
        <5>1. PICK i \in 1 .. Len(entries.val) : entries.val[i][1] = <<"i">>
          BY <2>9
        <5>2. i # 1
          BY <2>7, <2>8, <3>2, <5>1
        <5>3. i - 1 \in 1 .. Len(after.val) /\ (i - 1) + 1 = i
          BY <2>7, <5>2
        <5>4. after.val[i - 1][1] = <<"i">>
          BY <2>7, <5>1, <5>3
        <5> QED  BY <5>3, <5>4
      <4>3. /\ behind[value.at] \in 1 .. Len(input) + 1
            /\ Decode(input, behind[value.at]).ok
            /\ \E j \in 1 .. Len(after.val) :
                 /\ after.val[j][1] = <<"i">>
                 /\ after.val[j][2] = Decode(input, behind[value.at]).val
        BY <2>1, <2>5, <4>2, Zenon DEF InfoKnown, walk, after
      <4>4. PICK j \in 1 .. Len(after.val) :
              /\ after.val[j][1] = <<"i">>
              /\ after.val[j][2] = Decode(input, behind[value.at]).val
        BY <4>3
      <4>5. j + 1 \in 1 .. Len(entries.val) /\ entries.val[j + 1] = after.val[j]
        BY <2>7
      <4> QED  BY <4>1, <4>3, <4>4, <4>5
    <3> QED  BY <3>1, <3>2
  <2> QED  BY <2>7, <2>9, Zenon DEF InfoKnown, entries, walk
<1> QED  BY <1>4, <1>5

(* In a file that parses, the walk comes to the value that was decoded as  *)
(* the file's info.                                                        *)
LEMMA InfoFound ==
  ASSUME NEW input \in Seq(Bytes), ParsesAsTorrent(input)
  PROVE  /\ InfoBehind(input) \in 1 .. Len(input) + 1
         /\ Decode(input, InfoBehind(input)).ok
         /\ Decode(input, InfoBehind(input)).val = Get(Torrent(input), <<"i">>)
<1> DEFINE n    == Len(input)
           r    == Decode(input, 1)
           walk == Walk(input, "decode")
           entries == walk[2]["dict"]
<1>n. n \in Nat
  OBVIOUS
<1>1. r.ok /\ IsTorrent(r.val) /\ Torrent(input) = r.val
  BY DEF ParsesAsTorrent, Torrent
<1>2. 1 \in 1 .. n
  BY <1>1, DecodeEndsBehind
<1>3. r.val.kind = "dict"
  BY <1>1 DEF IsTorrent
<1>4. r = ValueAt(input, "decode", walk, 1)
  BY DEF Decode
<1> HIDE DEF r, walk, entries
<1>5. r = As("dict", entries)
  <2>0. ~(1 > Len(input))
    BY <1>2
  <2>1. CASE input[1] = "i"
    <3>1. r = ReadInteger(input, 1)
      BY <1>4, <2>0, <2>1, ValueIs
    <3>2. r.val.kind = "int"
      BY <1>1, <3>1 DEF ReadInteger, Fails, Reads, Number
    <3> QED  BY <1>3, <3>2
  <2>2. CASE input[1] = "l"
    <3>1. r = As("list", walk[2]["list"])
      BY <1>4, <2>0, <2>2, ValueIs
    <3>2. r.val.kind = "list"
      BY <1>1, <3>1 DEF As, Fails, Reads
    <3> QED  BY <1>3, <3>2
  <2>3. CASE input[1] = "d"
    BY <1>4, <2>0, <2>3, ValueIs DEF entries
  <2>4. CASE input[1] \notin {"i", "l", "d"}
    <3>1. r = As("str", ReadBytes(input, 1)) \/ r = Fails
      BY <1>4, <2>0, <2>4, ValueIs
    <3>2. r.val.kind = "str"
      BY <1>1, <3>1 DEF As, Fails, Reads
    <3> QED  BY <1>3, <3>2
  <2> QED  BY <2>1, <2>2, <2>3, <2>4
<1>6. entries.ok /\ r.val.val = entries.val
  BY <1>1, <1>5 DEF As, Fails, Reads
<1>7. PICK behind : /\ \A at \in 1 .. n + 1 : behind[at] = InfoStep(input, behind, at)
                    /\ InfoBehind(input) = behind[2]
  BY InfoUnfolds
<1>8. InfoKnown(input, behind, 2)
  <2> DEFINE S == {m \in Nat : InfoKnown(input, behind, m)}
  <2>1. ASSUME NEW m \in 1 .. n + 1, \A k \in m + 1 .. n + 1 : k \in S
        PROVE  m \in S
    <3>1. \A k \in m + 1 .. n + 1 : InfoKnown(input, behind, k)
      BY <2>1
    <3>2. InfoKnown(input, behind, m)
      BY <1>7, <3>1, InfoStepKnown
    <3> QED  BY <3>2
  <2>2. \A m \in 1 .. n + 1 : m \in S
    <3> HIDE DEF S
    <3>1. n + 1 \in Nat
      OBVIOUS
    <3> HIDE DEF n
    <3> QED  BY <2>1, <3>1, Downward
  <2>3. 2 \in 1 .. n + 1
    BY <1>2
  <2> QED  BY <2>2, <2>3
<1>9. /\ Sequence(entries.val)
      /\ (\E i \in 1 .. Len(entries.val) : entries.val[i][1] = <<"i">>) =>
           /\ behind[2] \in 1 .. n + 1
           /\ Decode(input, behind[2]).ok
           /\ \E i \in 1 .. Len(entries.val) :
                /\ entries.val[i][1] = <<"i">>
                /\ entries.val[i][2] = Decode(input, behind[2]).val
  BY <1>6, <1>8, Zenon DEF InfoKnown, entries, walk
<1>10. DOMAIN entries.val = 1 .. Len(entries.val)
  BY <1>9 DEF Sequence
<1> DEFINE t == r.val
           fields == Field(t, <<"i">>)
<1>11. fields = {i \in 1 .. Len(entries.val) : entries.val[i][1] = <<"i">>}
  BY <1>6, <1>10 DEF Field
<1>12. fields # {} /\ \A i, j \in fields : i = j
  BY <1>1 DEF IsTorrent, Has, Once
<1>13. PICK i \in fields : entries.val[i][2] = Decode(input, behind[2]).val
  <2> HIDE DEF fields, t
  <2> QED  BY <1>9, <1>11, <1>12
<1>14. (CHOOSE j \in fields : TRUE) = i
  <2> HIDE DEF fields
  <2> QED  BY <1>12, <1>13
<1>15. Get(t, <<"i">>) = entries.val[i][2]
  <2>1. Get(t, <<"i">>) = t.val[CHOOSE j \in fields : TRUE][2]
    BY Zenon DEF Get
  <2> HIDE DEF fields, t
  <2> QED  BY <1>6, <1>14, <2>1 DEF t
<1> QED
  <2> HIDE DEF fields, t
  <2>1. \E k \in 1 .. Len(entries.val) : entries.val[k][1] = <<"i">>
    BY <1>11, <1>12
  <2> QED  BY <1>1, <1>7, <1>9, <1>13, <1>15, <2>1 DEF t

-----------------------------------------------------------------------------
(* A number's decimal digits are read back as the number.                  *)

LEMMA AppendIs ==
  ASSUME NEW T, NEW s \in Seq(T), NEW e \in T
  PROVE  /\ Len(s) \in Nat /\ Append(s, e) \in Seq(T) /\ Len(Append(s, e)) = Len(s) + 1
         /\ Append(s, e)[Len(s) + 1] = e /\ s \o <<e>> = Append(s, e)
         /\ \A i \in 1 .. Len(s) : Append(s, e)[i] = s[i]
  OBVIOUS

(* Digits are told apart from one another and from all that has a meaning. *)
LEMMA DigitsAre ==
  ASSUME NEW d \in 0 .. 9
  PROVE  /\ Digits[d + 1] \in Bytes /\ IsDigit(Digits[d + 1])
         /\ DigitOf(Digits[d + 1]) = d
<1>1. /\ DOMAIN Digits = 1 .. 10 /\ Digits[1] = "0" /\ Digits[2] = "1" /\ Digits[3] = "2"
      /\ Digits[4] = "3" /\ Digits[5] = "4" /\ Digits[6] = "5" /\ Digits[7] = "6"
      /\ Digits[8] = "7" /\ Digits[9] = "8" /\ Digits[10] = "9"
  BY DEF Digits
<1>2. \A i, j \in 1 .. 10 : Digits[i] = Digits[j] => i = j
  BY <1>1
<1>3. d + 1 \in 1 .. 10
  OBVIOUS
<1>4. Digits[d + 1] \in Bytes
  BY <1>1, <1>3, BytesAssumption DEF ToSet
<1>5. IsDigit(Digits[d + 1])
  BY <1>1, <1>3 DEF IsDigit, ToSet
<1>6. DigitOf(Digits[d + 1]) + 1 \in 1 .. 10 /\ Digits[DigitOf(Digits[d + 1]) + 1] = Digits[d + 1]
  BY <1>5, DigitIs
<1>7. DigitOf(Digits[d + 1]) + 1 = d + 1
  BY <1>2, <1>3, <1>6
<1>8. DigitOf(Digits[d + 1]) \in 0 .. 9
  BY <1>5, DigitIs
<1> QED  BY <1>4, <1>5, <1>7, <1>8

LEMMA DigitIsNone ==
  ASSUME NEW byte, IsDigit(byte)
  PROVE  byte \notin {"e", ":", "-", "i", "l", "d"}
<1>1. /\ DOMAIN Digits = 1 .. 10 /\ Digits[1] = "0" /\ Digits[2] = "1" /\ Digits[3] = "2"
      /\ Digits[4] = "3" /\ Digits[5] = "4" /\ Digits[6] = "5" /\ Digits[7] = "6"
      /\ Digits[8] = "7" /\ Digits[9] = "8" /\ Digits[10] = "9"
  BY DEF Digits
<1>2. PICK i \in 1 .. 10 : Digits[i] = byte
  BY <1>1 DEF IsDigit, ToSet
<1> QED  BY <1>1, <1>2

(* One more digit.                                                         *)
LEMMA NumberOfAppend ==
  ASSUME NEW digits \in Seq(Bytes), NEW byte \in Bytes
  PROVE  NumberOf(Append(digits, byte)) = 10 * NumberOf(digits) + DigitOf(byte)
<1> DEFINE n    == Len(digits)
           more == Append(digits, byte)
<1>1. /\ n \in Nat /\ more \in Seq(Bytes) /\ Len(more) = n + 1 /\ more[n + 1] = byte
      /\ \A i \in 1 .. n : more[i] = digits[i]
  BY AppendIs
<1> HIDE DEF n, more
<1>2. PICK f : /\ f = [i \in 0 .. n |-> IF i = 0 THEN 0 ELSE 10 * f[i - 1] + DigitOf(digits[i])]
               /\ NumberOf(digits) = f[n]
  BY NumberOfUnfolds DEF n
<1>3. PICK g : /\ g = [i \in 0 .. Len(more) |->
                         IF i = 0 THEN 0 ELSE 10 * g[i - 1] + DigitOf(more[i])]
               /\ NumberOf(more) = g[Len(more)]
  BY <1>1, NumberOfUnfolds
<1> DEFINE S == {i \in Nat : i <= n => g[i] = f[i]}
<1>4. ASSUME NEW m \in Nat, \A k \in 0 .. m - 1 : k \in S
      PROVE  m \in S
  <2> SUFFICES ASSUME m <= n PROVE g[m] = f[m]
    OBVIOUS
  <2>1. /\ f[m] = IF m = 0 THEN 0 ELSE 10 * f[m - 1] + DigitOf(digits[m])
        /\ g[m] = IF m = 0 THEN 0 ELSE 10 * g[m - 1] + DigitOf(more[m])
    <3>1. m \in 0 .. n /\ m \in 0 .. Len(more)
      BY <1>1
    <3> QED  BY <1>2, <1>3, <3>1
  <2>2. CASE m = 0
    BY <2>1, <2>2
  <2>3. CASE m # 0
    <3>1. m - 1 \in 0 .. m - 1 /\ m - 1 <= n /\ m \in 1 .. n
      BY <1>1, <2>3
    <3>2. g[m - 1] = f[m - 1] /\ more[m] = digits[m]
      BY <1>1, <1>4, <3>1
    <3> QED  BY <2>1, <3>2
  <2> QED  BY <2>2, <2>3
<1>5. \A m \in Nat : m \in S
  <2> HIDE DEF S
  <2> QED  BY <1>4, Upward
<1>6. g[n] = f[n]
  BY <1>1, <1>5
<1>7. g[n + 1] = 10 * g[n] + DigitOf(byte)
  <2>1. n + 1 \in 0 .. Len(more) /\ n + 1 # 0 /\ (n + 1) - 1 = n
    BY <1>1
  <2> QED  BY <1>1, <1>3, <2>1
<1> QED  BY <1>1, <1>2, <1>3, <1>6, <1>7 DEF more

(* What is written before the last digit of k, if anything is.             *)
DecimalStep(g, k) ==
  (IF k < 10 THEN <<>> ELSE g[k \div 10]) \o <<Digits[(k % 10) + 1]>>

LEMMA TenthIsLess ==
  ASSUME NEW k \in Nat
  PROVE  /\ k % 10 \in 0 .. 9 /\ k \div 10 \in Nat /\ k = 10 * (k \div 10) + (k % 10)
         /\ k >= 10 => k \div 10 \in 0 .. k - 1 /\ k \div 10 # 0
         /\ k < 10 => k % 10 = k
  OBVIOUS

(* The decimals up to n.                                                   *)
LEMMA DecimalUnfolds ==
  ASSUME NEW n \in Nat
  PROVE  \E digits : /\ \A k \in 0 .. n : digits[k] = DecimalStep(digits, k)
                     /\ Decimal(n) = digits[n]
<1> DEFINE Step(g, k) == DecimalStep(g, k)
           Writes(g, m) == g = [k \in 0 .. m |-> Step(g, k)]
           S == {m \in Nat : \E g : Writes(g, m)}
<1>0. \A g, h : \A k \in Nat :
        (k >= 10 => g[k \div 10] = h[k \div 10]) => Step(g, k) = Step(h, k)
  <2> SUFFICES ASSUME NEW g, NEW h, NEW k \in Nat, k >= 10 => g[k \div 10] = h[k \div 10]
               PROVE  DecimalStep(g, k) = DecimalStep(h, k)
    OBVIOUS
  <2>1. CASE k < 10
    BY <2>1, Zenon DEF DecimalStep
  <2>2. CASE ~(k < 10)
    <3>1. g[k \div 10] = h[k \div 10]
      BY <2>2
    <3> QED  BY <2>2, <3>1, Zenon DEF DecimalStep
  <2> QED  BY <2>1, <2>2
<1> HIDE DEF Step
<1>1. ASSUME NEW m \in Nat, \A k \in 0 .. m - 1 : k \in S
      PROVE  \E g : Writes(g, m)
  <2>1. CASE m = 0
    <3> DEFINE g == [k \in 0 .. 0 |-> Step(<<>>, 0)]
    <3>1. \A k \in 0 .. 0 : Step(g, k) = Step(<<>>, 0)
      <4>1. \A k \in 0 .. 0 : k = 0
        OBVIOUS
      <4>2. Step(g, 0) = Step(<<>>, 0)
        <5> HIDE DEF g
        <5> QED  BY <1>0
      <4> HIDE DEF g
      <4> QED  BY <4>1, <4>2
    <3>2. g = [k \in 0 .. 0 |-> g[k]] /\ \A k \in 0 .. 0 : g[k] = Step(<<>>, 0)
      OBVIOUS
    <3> HIDE DEF g
    <3>3. g = [k \in 0 .. 0 |-> Step(g, k)]
      BY <3>1, <3>2
    <3> QED  BY <2>1, <3>3
  <2>2. CASE m # 0
    <3>1. m - 1 \in S
      <4>1. m - 1 \in 0 .. m - 1
        BY <2>2
      <4> HIDE DEF S
      <4> QED  BY <1>1, <4>1
    <3>2. PICK g : Writes(g, m - 1)
      BY <3>1
    <3> DEFINE h == [k \in 0 .. m |-> IF k = m THEN Step(g, m) ELSE g[k]]
    <3>h. h = [k \in 0 .. m |-> h[k]] /\ h[m] = Step(g, m)
          /\ \A k \in 0 .. m - 1 : h[k] = g[k]
      OBVIOUS
    <3> HIDE DEF h
    <3>3. ASSUME NEW k \in 0 .. m PROVE Step(h, k) = Step(g, k)
      <4>1. k >= 10 => k \div 10 \in 0 .. m - 1
        BY TenthIsLess
      <4>2. k >= 10 => h[k \div 10] = g[k \div 10]
        BY <3>h, <4>1
      <4>3. k \in Nat
        OBVIOUS
      <4> QED  BY <1>0, <4>2, <4>3
    <3>4. ASSUME NEW k \in 0 .. m PROVE h[k] = Step(h, k)
      <4>1. CASE k = m
        BY <3>h, <3>3, <4>1
      <4>2. CASE k # m
        <5>1. k \in 0 .. m - 1
          BY <4>2
        <5>2. g[k] = Step(g, k)
          BY <3>2, <5>1
        <5> QED  BY <3>h, <3>3, <5>1, <5>2
      <4> QED  BY <4>1, <4>2
    <3>5. Writes(h, m)
      BY <3>h, <3>4
    <3> QED
      <4> HIDE DEF Writes
      <4> QED  BY <3>5
  <2> QED  BY <2>1, <2>2
<1>2. \A m \in Nat : m \in S
  <2>1. \A m \in Nat : (\A k \in 0 .. m - 1 : k \in S) => m \in S
    <3> HIDE DEF Writes
    <3> QED  BY <1>1
  <2> HIDE DEF S
  <2> QED  BY <2>1, Upward
<1>3. \E g : Writes(g, n)
  <2> HIDE DEF Writes
  <2> QED  BY <1>2
<1> DEFINE digits == CHOOSE g : Writes(g, n)
<1>4. digits = [k \in 0 .. n |-> Step(digits, k)]
  BY <1>3
<1>5. Decimal(n) = digits[n]
  <2>1. ~(n < 0)
    OBVIOUS
  <2> QED  BY <2>1, Zenon DEF Decimal, Step, DecimalStep
<1> HIDE DEF digits
<1>6. \A k \in 0 .. n : digits[k] = DecimalStep(digits, k)
  BY <1>4, Zenon DEF Step
<1> QED  BY <1>5, <1>6

(* A number's decimal is digits, at least one, and counts the number.      *)
LEMMA DecimalCounts ==
  ASSUME NEW n \in Nat
  PROVE  /\ Decimal(n) \in Seq(Bytes) /\ Len(Decimal(n)) >= 1
         /\ AllDigits(Decimal(n)) /\ NumberOf(Decimal(n)) = n
<1>1. PICK digits : /\ \A k \in 0 .. n : digits[k] = DecimalStep(digits, k)
                    /\ Decimal(n) = digits[n]
  BY DecimalUnfolds
<1> DEFINE Counts(k) == /\ digits[k] \in Seq(Bytes) /\ Len(digits[k]) >= 1
                        /\ AllDigits(digits[k]) /\ NumberOf(digits[k]) = k
           S == {k \in Nat : k <= n => Counts(k)}
<1>2. <<>> \in Seq(Bytes) /\ Len(<<>>) = 0 /\ NumberOf(<<>>) = 0
  <2>1. <<>> \in Seq(Bytes) /\ Len(<<>>) = 0
    OBVIOUS
  <2>2. PICK f : /\ f = [i \in 0 .. Len(<<>>) |->
                           IF i = 0 THEN 0 ELSE 10 * f[i - 1] + DigitOf(<<>>[i])]
                 /\ NumberOf(<<>>) = f[Len(<<>>)]
    BY <2>1, NumberOfUnfolds
  <2>3. f[0] = 0
    BY <2>1, <2>2
  <2> QED  BY <2>1, <2>2, <2>3
<1>3. ASSUME NEW m \in Nat, \A k \in 0 .. m - 1 : k \in S
      PROVE  m \in S
  <2> SUFFICES ASSUME m <= n PROVE Counts(m)
    OBVIOUS
  <2> DEFINE front == IF m < 10 THEN <<>> ELSE digits[m \div 10]
             last  == Digits[(m % 10) + 1]
             value == IF m < 10 THEN 0 ELSE m \div 10
  <2>1. digits[m] = front \o <<last>>
    <3>1. m \in 0 .. n
      OBVIOUS
    <3>2. digits[m] = DecimalStep(digits, m)
      BY <1>1, <3>1
    <3> QED  BY <3>2, Zenon DEF DecimalStep
  <2>2. /\ front \in Seq(Bytes) /\ (\A i \in 1 .. Len(front) : IsDigit(front[i]))
        /\ NumberOf(front) = value
    <3>1. CASE m < 10
      BY <1>2, <3>1
    <3>2. CASE ~(m < 10)
      <4>1. m \div 10 \in 0 .. m - 1 /\ m \div 10 <= n
        BY <3>2, TenthIsLess
      <4>2. Counts(m \div 10)
        BY <1>3, <4>1
      <4> QED  BY <3>2, <4>2 DEF AllDigits
    <3> QED  BY <3>1, <3>2
  <2>3. /\ last \in Bytes /\ IsDigit(last) /\ DigitOf(last) = m % 10
    BY TenthIsLess, DigitsAre
  <2>4. m = 10 * value + (m % 10) /\ value \in Nat /\ m % 10 \in 0 .. 9
    BY TenthIsLess
  <2> HIDE DEF front, last, value
  <2> DEFINE all == Append(front, last)
  <2>5. /\ Len(front) \in Nat /\ all \in Seq(Bytes) /\ Len(all) = Len(front) + 1
        /\ all[Len(front) + 1] = last /\ front \o <<last>> = all
        /\ \A i \in 1 .. Len(front) : all[i] = front[i]
    BY <2>2, <2>3, AppendIs
  <2> HIDE DEF all
  <2>6. /\ all \in Seq(Bytes) /\ Len(all) >= 1 /\ DOMAIN all = 1 .. Len(all)
        /\ \A i \in 1 .. Len(all) : IsDigit(all[i])
    <3>1. ASSUME NEW i \in 1 .. Len(all) PROVE IsDigit(all[i])
      <4>1. i \in 1 .. Len(front) \/ i = Len(front) + 1
        BY <2>5
      <4> QED  BY <2>2, <2>3, <2>5, <4>1
    <3> QED  BY <2>5, <3>1
  <2>7. NumberOf(all) = m
    <3>1. NumberOf(all) = 10 * NumberOf(front) + DigitOf(last)
      BY <2>2, <2>3, NumberOfAppend DEF all
    <3> QED  BY <2>2, <2>3, <2>4, <3>1
  <2> QED  BY <2>1, <2>5, <2>6, <2>7 DEF AllDigits
<1>4. \A m \in Nat : m \in S
  <2> HIDE DEF S
  <2> QED  BY <1>3, Upward
<1> QED  BY <1>1, <1>4

-----------------------------------------------------------------------------
(* Strings: a length, a colon and as many bytes.                           *)

(* `part` stands in the input at `at`.                                     *)
Stands(input, at, part) ==
  /\ at + Len(part) <= Len(input) + 1
  /\ \A k \in 1 .. Len(part) : input[at + k - 1] = part[k]

(* Wherever `bytes` stand, they are read as `value`, to their end.         *)
ReadsBack(bytes, value) ==
  \A input \in Seq(Bytes) : \A at \in 1 .. Len(input) + 1 :
    Stands(input, at, bytes) => Decode(input, at) = Reads(at + Len(bytes), value)

LEMMA ConcatIs ==
  ASSUME NEW s \in Seq(Bytes), NEW t \in Seq(Bytes)
  PROVE  /\ s \o t \in Seq(Bytes) /\ Len(s) \in Nat /\ Len(t) \in Nat
         /\ Len(s \o t) = Len(s) + Len(t)
         /\ \A k \in 1 .. Len(s) : (s \o t)[k] = s[k]
         /\ \A k \in 1 .. Len(t) : (s \o t)[Len(s) + k] = t[k]
  OBVIOUS

LEMMA DecimalOfLength ==
  ASSUME NEW s \in Seq(Bytes)
  PROVE  /\ Decimal(Len(s)) \in Seq(Bytes) /\ Len(Decimal(Len(s))) \in Nat
         /\ Len(Decimal(Len(s))) >= 1
         /\ AllDigits(Decimal(Len(s))) /\ NumberOf(Decimal(Len(s))) = Len(s)
<1> DEFINE n == Len(s)
<1>1. n \in Nat
  OBVIOUS
<1> HIDE DEF n
<1>2. /\ Decimal(n) \in Seq(Bytes) /\ Len(Decimal(n)) >= 1
      /\ AllDigits(Decimal(n)) /\ NumberOf(Decimal(n)) = n
  BY <1>1, DecimalCounts
<1>3. Len(Decimal(n)) \in Nat
  BY <1>2
<1> QED  BY <1>2, <1>3 DEF n

(* Where two parts stand one behind the other, each stands in its place.   *)
LEMMA StandsApart ==
  ASSUME NEW input, NEW s \in Seq(Bytes), NEW t \in Seq(Bytes), Len(input) \in Nat,
         NEW at \in Nat, Stands(input, at, s \o t)
  PROVE  Stands(input, at, s) /\ Stands(input, at + Len(s), t)
<1> DEFINE both == s \o t
<1>1. /\ Len(s) \in Nat /\ Len(t) \in Nat /\ Len(both) = Len(s) + Len(t)
      /\ \A k \in 1 .. Len(s) : both[k] = s[k]
      /\ \A k \in 1 .. Len(t) : both[Len(s) + k] = t[k]
  BY ConcatIs
<1>2. Stands(input, at, both)
  OBVIOUS
<1> HIDE DEF both
<1>3. /\ at + Len(both) <= Len(input) + 1
      /\ \A k \in 1 .. Len(both) : input[at + k - 1] = both[k]
  BY <1>2 DEF Stands
<1>4. Stands(input, at, s)
  <2>1. ASSUME NEW k \in 1 .. Len(s) PROVE input[at + k - 1] = s[k]
    <3>1. k \in 1 .. Len(both)
      BY <1>1
    <3> QED  BY <1>1, <1>3, <3>1
  <2> QED  BY <1>1, <1>3, <2>1 DEF Stands
<1>5. Stands(input, at + Len(s), t)
  <2>1. ASSUME NEW k \in 1 .. Len(t) PROVE input[(at + Len(s)) + k - 1] = t[k]
    <3>1. Len(s) + k \in 1 .. Len(both) /\ at + (Len(s) + k) - 1 = (at + Len(s)) + k - 1
      BY <1>1
    <3>2. input[at + (Len(s) + k) - 1] = both[Len(s) + k]
      BY <1>3, <3>1
    <3> QED  BY <1>1, <3>1, <3>2
  <2> QED  BY <1>1, <1>3, <2>1 DEF Stands
<1> QED  BY <1>4, <1>5

LEMMA StandsWhole ==
  ASSUME NEW input \in Seq(Bytes), NEW part \in Seq(Bytes),
         NEW at \in Nat \ {0}, Stands(input, at, part)
  PROVE  SubSeq(input, at, at + Len(part) - 1) = part
<1> DEFINE cut == SubSeq(input, at, at + Len(part) - 1)
<1>1. Len(part) \in Nat /\ Len(input) \in Nat /\ at + Len(part) <= Len(input) + 1
  BY DEF Stands
<1>2. /\ Len(cut) = Len(part) /\ cut \in Seq(Bytes)
      /\ \A k \in 1 .. Len(part) : cut[k] = input[at + k - 1]
  BY <1>1
<1>3. \A k \in 1 .. Len(part) : cut[k] = part[k]
  BY <1>2 DEF Stands
<1> HIDE DEF cut
<1> QED  BY <1>2, <1>3 DEF cut

(* The first place one of `bytes` is at is where Until ends.               *)
LEMMA UntilAt ==
  ASSUME NEW input \in Seq(Bytes), NEW at \in 1 .. Len(input) + 1, NEW bytes,
         NEW stop \in at .. Len(input), input[stop] \in bytes,
         \A k \in at .. stop - 1 : input[k] \notin bytes
  PROVE  Until(input, at, bytes) = stop
<1> DEFINE j == Until(input, at, bytes)
<1>1. /\ j \in at .. Len(input) + 1
      /\ j <= Len(input) => input[j] \in bytes
      /\ \A k \in at .. j - 1 : input[k] \notin bytes
  BY UntilIs
<1> HIDE DEF j
<1>2. ~(stop < j)
  <2>1. stop < j => stop \in at .. j - 1
    BY <1>1
  <2> QED  BY <1>1, <2>1
<1>3. ~(j < stop)
  <2>1. j < stop => j \in at .. stop - 1 /\ j <= Len(input)
    BY <1>1
  <2> QED  BY <1>1, <2>1
<1> QED  BY <1>1, <1>2, <1>3 DEF j

LEMMA OneByte ==
  ASSUME NEW byte \in Bytes
  PROVE  <<byte>> \in Seq(Bytes) /\ Len(<<byte>>) = 1 /\ <<byte>>[1] = byte
  OBVIOUS

LEMMA MarksAreBytes ==
  "i" \in Bytes /\ "l" \in Bytes /\ "d" \in Bytes /\ "e" \in Bytes /\ ":" \in Bytes /\ "-" \in Bytes
  BY BytesAssumption

(* One byte of the input.                                                  *)
LEMMA StandsOne ==
  ASSUME NEW input, NEW at \in Nat, NEW byte \in Bytes, Len(input) \in Nat,
         Stands(input, at, <<byte>>)
  PROVE  at <= Len(input) /\ input[at] = byte
<1>1. 1 \in 1 .. Len(<<byte>>) /\ Len(<<byte>>) = 1 /\ <<byte>>[1] = byte
  BY OneByte
<1>2. at + 1 - 1 = at
  OBVIOUS
<1>3. input[at + 1 - 1] = <<byte>>[1] /\ at + 1 <= Len(input) + 1
  BY <1>1 DEF Stands
<1> QED  BY <1>1, <1>2, <1>3

(* A string is read back, and begins with a digit.                         *)
LEMMA EncodedBytesAre ==
  ASSUME NEW s \in Seq(Bytes)
  PROVE  /\ EncodeBytes(s) \in Seq(Bytes)
         /\ Len(EncodeBytes(s)) = Len(Decimal(Len(s))) + 1 + Len(s)
<1> DEFINE digits == Decimal(Len(s))
           colon  == <<":">>
<1>1. Len(s) \in Nat
  OBVIOUS
<1>2. digits \in Seq(Bytes) /\ Len(digits) \in Nat
  BY DecimalOfLength
<1>3. colon \in Seq(Bytes) /\ Len(colon) = 1
  BY MarksAreBytes, OneByte
<1>4. EncodeBytes(s) = (digits \o colon) \o s
  BY Zenon DEF EncodeBytes
<1> HIDE DEF digits, colon
<1>5. digits \o colon \in Seq(Bytes) /\ Len(digits \o colon) = Len(digits) + 1
  <2>1. digits \o colon \in Seq(Bytes) /\ Len(digits \o colon) = Len(digits) + Len(colon)
    BY <1>2, <1>3, ConcatIs, Zenon
  <2> QED  BY <1>3, <2>1
<1> DEFINE front == digits \o colon
<1> HIDE DEF front
<1>6. front \in Seq(Bytes) /\ Len(front) = Len(digits) + 1
  BY <1>5 DEF front
<1>7. front \o s \in Seq(Bytes) /\ Len(front \o s) = Len(front) + Len(s)
  BY <1>6, ConcatIs
<1> QED  BY <1>4, <1>6, <1>7 DEF front, digits

LEMMA BytesReadBack ==
  ASSUME NEW s \in Seq(Bytes), NEW input \in Seq(Bytes), NEW at \in 1 .. Len(input) + 1,
         Stands(input, at, EncodeBytes(s))
  PROVE  /\ ReadBytes(input, at) = Reads(at + Len(EncodeBytes(s)), s)
         /\ at <= Len(input) /\ IsDigit(input[at])
<1> DEFINE digits == Decimal(Len(s))
           mark   == <<":">>
           front  == digits \o mark
           colon  == at + Len(digits)
           n      == Len(input)
<1>1. Len(s) \in Nat /\ n \in Nat /\ at \in Nat /\ at >= 1
  OBVIOUS
<1>2. /\ digits \in Seq(Bytes) /\ Len(digits) \in Nat /\ Len(digits) >= 1
      /\ AllDigits(digits) /\ NumberOf(digits) = Len(s)
  BY DecimalOfLength, Zenon
<1>3. mark \in Seq(Bytes) /\ Len(mark) = 1
  BY MarksAreBytes, OneByte
<1>4. EncodeBytes(s) = front \o s /\ Len(EncodeBytes(s)) = Len(digits) + 1 + Len(s)
  BY EncodedBytesAre, Zenon DEF EncodeBytes
<1> HIDE DEF digits, mark
<1>5. front \in Seq(Bytes) /\ Len(front) = Len(digits) + 1
  <2>1. front \in Seq(Bytes) /\ Len(front) = Len(digits) + Len(mark)
    BY <1>2, <1>3, ConcatIs, Zenon
  <2> HIDE DEF front
  <2> QED  BY <1>3, <2>1
<1>6. Stands(input, at, front) /\ Stands(input, at + Len(front), s)
  <2> HIDE DEF front
  <2>1. Stands(input, at, front \o s)
    BY <1>4, Zenon
  <2> QED  BY <1>1, <1>5, <2>1, StandsApart
<1>7. Stands(input, at, digits) /\ Stands(input, colon, mark)
  BY <1>1, <1>2, <1>3, <1>6, StandsApart
<1> HIDE DEF front
<1>8. colon <= n /\ input[colon] = ":"
  <2>1. colon \in Nat
    BY <1>1, <1>2
  <2> HIDE DEF colon
  <2> QED  BY <1>1, <1>7, <2>1, StandsOne, MarksAreBytes DEF mark
<1>9. ASSUME NEW k \in at .. colon - 1
      PROVE  IsDigit(input[k])
  <2>1. k - at + 1 \in 1 .. Len(digits) /\ at + (k - at + 1) - 1 = k
    BY <1>1, <1>2
  <2>2. input[k] = digits[k - at + 1]
    BY <1>7, <2>1 DEF Stands
  <2>3. DOMAIN digits = 1 .. Len(digits)
    BY <1>2
  <2> QED  BY <1>2, <2>1, <2>2, <2>3 DEF AllDigits
<1>10. Until(input, at, {":"}) = colon
  <2>1. \A k \in at .. colon - 1 : input[k] \notin {":"}
    BY <1>9, DigitIsNone
  <2>2. colon \in at .. Len(input) /\ input[colon] \in {":"}
    BY <1>1, <1>2, <1>8
  <2> HIDE DEF colon
  <2> QED  BY <2>1, <2>2, UntilAt
<1>11. SubSeq(input, at, colon - 1) = digits
  BY <1>1, <1>2, <1>7, StandsWhole
<1>12. SubSeq(input, colon + 1, colon + Len(s)) = s /\ colon + Len(s) <= n
  <2>1. Stands(input, colon + 1, s)
    <3>1. at + Len(front) = colon + 1
      BY <1>1, <1>2, <1>5
    <3> QED  BY <1>6, <3>1
  <2>2. colon + 1 \in Nat \ {0} /\ (colon + 1) + Len(s) - 1 = colon + Len(s)
    BY <1>1, <1>2
  <2>3. SubSeq(input, colon + 1, (colon + 1) + Len(s) - 1) = s
    <3> HIDE DEF colon
    <3> QED  BY <2>1, <2>2, StandsWhole
  <2>4. (colon + 1) + Len(s) <= n + 1
    BY <2>1 DEF Stands
  <2> QED  BY <1>1, <1>2, <2>2, <2>3, <2>4
<1>13. digits # <<>>
  BY <1>2
<1> DEFINE end == colon + Len(s)
<1>14. ReadBytes(input, at) = Reads(end + 1, SubSeq(input, colon + 1, end))
  <2>1. ~(end > Len(input))
    BY <1>1, <1>2, <1>12
  <2> HIDE DEF colon
  <2> QED  BY <1>2, <1>10, <1>11, <1>13, <2>1 DEF ReadBytes
<1>15. end + 1 = at + Len(EncodeBytes(s))
  BY <1>1, <1>2, <1>4
<1>16. at \in at .. colon - 1 /\ at <= n
  BY <1>1, <1>2, <1>8
<1>17. IsDigit(input[at])
  BY <1>9, <1>16
<1> QED  BY <1>12, <1>14, <1>15, <1>16, <1>17

-----------------------------------------------------------------------------
(* Integers: a sign, digits and an end.                                    *)

Magnitude(size) ==
  LET digits[k \in 0 .. size] ==
        (IF k < 10 THEN <<>> ELSE digits[k \div 10]) \o <<Digits[(k % 10) + 1]>>
  IN digits[size]

(* The digits of a number, behind its sign if it has one.                  *)
LEMMA DecimalSigned ==
  ASSUME NEW n \in Int
  PROVE  \E digits \in Seq(Bytes) :
           /\ Len(digits) >= 1 /\ AllDigits(digits)
           /\ n < 0 => Decimal(n) = <<"-">> \o digits /\ n = -NumberOf(digits)
           /\ ~(n < 0) => Decimal(n) = digits /\ n = NumberOf(digits)
<1>1. CASE n < 0
  <2>1. -n \in Nat /\ ~(-n < 0)
    BY <1>1
  <2>2. /\ Decimal(-n) \in Seq(Bytes) /\ Len(Decimal(-n)) >= 1
        /\ AllDigits(Decimal(-n)) /\ NumberOf(Decimal(-n)) = -n
    BY <2>1, DecimalCounts
  <2>3. Decimal(n) = <<"-">> \o Decimal(-n)
    <3>1. Decimal(n) = <<"-">> \o Magnitude(-n)
      BY <1>1, Zenon DEF Decimal, Magnitude
    <3>2. \A m : ~(m < 0) => Decimal(m) = Magnitude(m)
      BY Zenon DEF Decimal, Magnitude
    <3>3. Decimal(-n) = Magnitude(-n)
      BY <2>1, <3>2, Zenon
    <3> QED  BY <3>1, <3>3, Zenon
  <2>4. n = -(-n)
    OBVIOUS
  <2> QED  BY <1>1, <2>2, <2>3, <2>4
<1>2. CASE ~(n < 0)
  <2>1. n \in Nat
    BY <1>2
  <2> QED  BY <1>2, <2>1, DecimalCounts
<1> QED  BY <1>1, <1>2

LEMMA IntegerRead ==
  ASSUME NEW input \in Seq(Bytes), NEW at \in 1 .. Len(input), NEW first \in {at + 1, at + 2},
         NEW digits \in Seq(Bytes), AllDigits(digits), Len(digits) >= 1,
         input[at] = "i", first = at + 2 => input[at + 1] = "-",
         Stands(input, first, digits),
         first + Len(digits) <= Len(input), input[first + Len(digits)] = "e"
  PROVE  ReadInteger(input, at) =
           Reads(first + Len(digits) + 1,
                 Number(IF first = at + 2 THEN -NumberOf(digits) ELSE NumberOf(digits)))
<1> DEFINE end == first + Len(digits)
           signed == at < Len(input) /\ input[at + 1] = "-"
<1>1. Len(digits) \in Nat /\ Len(input) \in Nat /\ at \in Nat /\ first \in Nat \ {0}
  OBVIOUS
<1>2. ASSUME NEW k \in first .. end - 1
      PROVE  IsDigit(input[k])
  <2>1. k - first + 1 \in 1 .. Len(digits) /\ first + (k - first + 1) - 1 = k
    BY <1>1
  <2>2. input[k] = digits[k - first + 1]
    BY <2>1 DEF Stands
  <2>3. DOMAIN digits = 1 .. Len(digits)
    OBVIOUS
  <2> QED  BY <2>1, <2>2, <2>3 DEF AllDigits
<1>3. Until(input, at, {"e"}) = end
  <2>1. ASSUME NEW k \in at .. end - 1 PROVE input[k] \notin {"e"}
    <3>1. CASE k \in first .. end - 1
      BY <1>2, <3>1, DigitIsNone
    <3>2. CASE k = at
      BY <3>2
    <3>3. CASE k = at + 1 /\ first = at + 2
      BY <3>3
    <3> QED  BY <1>1, <3>1, <3>2, <3>3
  <2>2. end \in at .. Len(input) /\ input[end] \in {"e"} /\ at \in 1 .. Len(input) + 1
    BY <1>1
  <2> HIDE DEF end
  <2> QED  BY <2>1, <2>2, UntilAt
<1>4. SubSeq(input, first, end - 1) = digits
  BY <1>1, StandsWhole
<1>5. signed <=> first = at + 2
  <2>1. CASE first = at + 2
    BY <1>1, <2>1
  <2>2. CASE first = at + 1
    <3>1. first \in first .. end - 1
      BY <1>1
    <3>2. input[at + 1] # "-"
      BY <1>2, <2>2, <3>1, DigitIsNone
    <3> QED  BY <1>1, <2>2, <3>2
  <2> QED  BY <2>1, <2>2
<1>6. first = IF signed THEN at + 2 ELSE at + 1
  BY <1>1, <1>5
<1>7. ~(end > Len(input)) /\ digits # <<>>
  BY <1>1
<1> HIDE DEF end, signed
<1>8. ReadInteger(input, at) =
        Reads(end + 1, Number(IF signed THEN -NumberOf(digits) ELSE NumberOf(digits)))
  <2> DEFINE cut == SubSeq(input, IF signed THEN at + 2 ELSE at + 1, end - 1)
  <2>1. cut = digits
    BY <1>4, <1>6, Zenon
  <2>2. ~(end > Len(input) \/ cut = <<>> \/ ~AllDigits(cut))
    BY <1>7, <2>1, Zenon
  <2> HIDE DEF cut
  <2>3. ReadInteger(input, at) =
          IF end > Len(input) \/ cut = <<>> \/ ~AllDigits(cut) THEN Fails
          ELSE Reads(end + 1, Number(IF signed THEN -NumberOf(cut) ELSE NumberOf(cut)))
    BY <1>3, Zenon DEF ReadInteger, signed, cut
  <2> QED  BY <2>1, <2>2, <2>3, Zenon
<1> QED  BY <1>5, <1>8, Zenon DEF end

(* Every integer is read back.                                             *)
LEMMA IntegersReadBack ==
  ASSUME NEW n \in Int
  PROVE  LET bytes == <<"i">> \o Decimal(n) \o <<"e">>
         IN  bytes \in Seq(Bytes) /\ ReadsBack(bytes, Number(n))
<1> DEFINE i == <<"i">>
           e == <<"e">>
           minus == <<"-">>
           dec == Decimal(n)
           bytes == i \o dec \o e
<1>1. PICK digits \in Seq(Bytes) :
        /\ Len(digits) >= 1 /\ AllDigits(digits)
        /\ n < 0 => dec = minus \o digits /\ n = -NumberOf(digits)
        /\ ~(n < 0) => dec = digits /\ n = NumberOf(digits)
  BY DecimalSigned
<1>2. /\ i \in Seq(Bytes) /\ Len(i) = 1 /\ e \in Seq(Bytes) /\ Len(e) = 1
      /\ minus \in Seq(Bytes) /\ Len(minus) = 1
  BY MarksAreBytes, OneByte
<1> HIDE DEF dec
<1>3. /\ dec \in Seq(Bytes) /\ Len(digits) \in Nat
      /\ Len(dec) = IF n < 0 THEN Len(digits) + 1 ELSE Len(digits)
  <2>1. CASE n < 0
    <3> HIDE DEF minus
    <3>0. dec = minus \o digits
      BY <1>1, <2>1
    <3>1. /\ minus \o digits \in Seq(Bytes) /\ Len(digits) \in Nat
          /\ Len(minus \o digits) = Len(minus) + Len(digits)
      BY <1>2, ConcatIs, Zenon
    <3>2. dec \in Seq(Bytes) /\ Len(digits) \in Nat /\ Len(dec) = Len(minus) + Len(digits)
      BY <3>0, <3>1, Zenon
    <3> QED  BY <1>2, <2>1, <3>2
  <2>2. CASE ~(n < 0)
    BY <1>1, <2>2
  <2> QED  BY <2>1, <2>2
<1> DEFINE front == i \o dec
<1>4. front \in Seq(Bytes) /\ Len(front) = 1 + Len(dec)
  <2> HIDE DEF i
  <2>1. i \o dec \in Seq(Bytes) /\ Len(i \o dec) = Len(i) + Len(dec)
    BY <1>2, <1>3, ConcatIs, Zenon
  <2> HIDE DEF front
  <2>2. front \in Seq(Bytes) /\ Len(front) = Len(i) + Len(dec)
    BY <2>1, Zenon DEF front
  <2> QED  BY <1>2, <2>2
<1>5. bytes \in Seq(Bytes) /\ Len(bytes) = Len(dec) + 2
  <2> HIDE DEF front, e
  <2>1. front \o e \in Seq(Bytes) /\ Len(front \o e) = Len(front) + Len(e)
    BY <1>2, <1>4, ConcatIs, Zenon
  <2>2. bytes = front \o e
    BY Zenon DEF front
  <2> HIDE DEF bytes
  <2>3. bytes \in Seq(Bytes) /\ Len(bytes) = Len(front) + Len(e)
    BY <2>1, <2>2, Zenon
  <2> QED  BY <1>2, <1>3, <1>4, <2>3
<1>6. ASSUME NEW input \in Seq(Bytes), NEW at \in 1 .. Len(input) + 1,
             Stands(input, at, bytes)
      PROVE  Decode(input, at) = Reads(at + Len(bytes), Number(n))
  <2> DEFINE first == IF n < 0 THEN at + 2 ELSE at + 1
             end   == first + Len(digits)
  <2>1. at \in Nat /\ at >= 1 /\ Len(input) \in Nat /\ Len(dec) \in Nat
    BY <1>3
  <2>2. Stands(input, at, front) /\ Stands(input, at + Len(front), e)
    <3> HIDE DEF front, e
    <3>1. Stands(input, at, front \o e)
      BY <1>6, Zenon DEF front
    <3> QED  BY <1>2, <1>4, <2>1, <3>1, StandsApart
  <2>3. Stands(input, at, i) /\ Stands(input, at + Len(i), dec)
    BY <1>2, <1>3, <2>1, <2>2, StandsApart
  <2>4. at <= Len(input) /\ input[at] = "i"
    BY <2>1, <2>3, MarksAreBytes, StandsOne
  <2>5. end <= Len(input) /\ input[end] = "e"
    <3>1. at + Len(front) = end /\ end \in Nat
      <4> HIDE DEF front
      <4> QED  BY <1>1, <1>3, <1>4, <2>1
    <3>2. Stands(input, end, e)
      BY <2>2, <3>1
    <3> HIDE DEF end
    <3> QED  BY <2>1, <3>1, <3>2, MarksAreBytes, StandsOne
  <2>6. Stands(input, first, digits) /\ (first = at + 2 => input[at + 1] = "-")
    <3>1. CASE n < 0
      <4>1. Stands(input, at + 1, minus \o digits)
        BY <1>1, <1>2, <2>3, <3>1
      <4>2. at + 1 \in Nat
        BY <2>1
      <4>3. Stands(input, at + 1, minus) /\ Stands(input, (at + 1) + Len(minus), digits)
        BY <1>2, <2>1, <4>1, <4>2, StandsApart
      <4>4. (at + 1) + Len(minus) = first
        BY <1>2, <2>1, <3>1
      <4>5. input[at + 1] = "-"
        BY <2>1, <4>2, <4>3, MarksAreBytes, StandsOne
      <4> QED  BY <4>3, <4>4, <4>5
    <3>2. CASE ~(n < 0)
      BY <1>1, <1>2, <2>1, <2>3, <3>2
    <3> QED  BY <3>1, <3>2
  <2>7. first \in {at + 1, at + 2} /\ at \in 1 .. Len(input)
    BY <2>1, <2>4
  <2>8. (first = at + 2) <=> n < 0
    BY <2>1
  <2>9. ReadInteger(input, at) =
          Reads(first + Len(digits) + 1,
                Number(IF first = at + 2 THEN -NumberOf(digits) ELSE NumberOf(digits)))
    <3> HIDE DEF first
    <3> QED  BY <1>1, <2>4, <2>5, <2>6, <2>7, IntegerRead
  <2>10. Decode(input, at) = ReadInteger(input, at)
    <3>1. ~(at > Len(input)) /\ "decode" # "skip"
      BY <2>1, <2>4
    <3> QED  BY <2>4, <3>1, ValueIs DEF Decode
  <2>11. first + Len(digits) + 1 = at + Len(bytes)
    BY <1>3, <1>5, <2>1, SMTT(30)
  <2>12. n = IF first = at + 2 THEN -NumberOf(digits) ELSE NumberOf(digits)
    BY <1>1, <2>8
  <2> QED  BY <2>9, <2>10, <2>11, <2>12, Zenon
<1> QED  BY <1>5, <1>6, Zenon DEF ReadsBack, dec

(* So is every string.                                                     *)
LEMMA StringsReadBack ==
  ASSUME NEW s \in Seq(Bytes)
  PROVE  EncodeBytes(s) \in Seq(Bytes) /\ ReadsBack(EncodeBytes(s), Str(s))
<1>1. ASSUME NEW input \in Seq(Bytes), NEW at \in 1 .. Len(input) + 1,
             Stands(input, at, EncodeBytes(s))
      PROVE  Decode(input, at) = Reads(at + Len(EncodeBytes(s)), Str(s))
  <2>1. /\ ReadBytes(input, at) = Reads(at + Len(EncodeBytes(s)), s)
        /\ at <= Len(input) /\ IsDigit(input[at])
    BY <1>1, BytesReadBack
  <2>2. ~(at > Len(input)) /\ input[at] \notin {"i", "l", "d"}
    BY <2>1, DigitIsNone
  <2>3. Decode(input, at) = As("str", ReadBytes(input, at))
    BY <2>1, <2>2, ValueIs DEF Decode
  <2> QED  BY <2>1, <2>3 DEF As, Reads, Str
<1> QED  BY <1>1, EncodedBytesAre DEF ReadsBack

-----------------------------------------------------------------------------
(* What was put together of parts.                                         *)

(* What has been put together of some parts, up to each.                   *)
LEMMA FlattenUnfolds ==
  ASSUME NEW parts \in Seq(Seq(Bytes)), Len(parts) >= 1
  PROVE  \E whole :
           /\ whole[1] = parts[1]
           /\ \A i \in 2 .. Len(parts) : whole[i] = whole[i - 1] \o parts[i]
           /\ FlattenSeq(parts) = whole[Len(parts)]
<1> DEFINE n == Len(parts)
           Step(g, i) == IF i = 1 THEN parts[i] ELSE g[i - 1] \o parts[i]
           Joins(g, m) == g = [i \in 1 .. m |-> Step(g, i)]
           S == {m \in Nat : \E g : Joins(g, m)}
<1>n. n \in Nat /\ ~(Len(parts) = 0)
  OBVIOUS
<1>0. \A g, h : \A i : (i # 1 => g[i - 1] = h[i - 1]) => Step(g, i) = Step(h, i)
  BY Zenon
<1> HIDE DEF n, Step
<1>1. ASSUME NEW m \in Nat, \A k \in 0 .. m - 1 : k \in S
      PROVE  \E g : Joins(g, m)
  <2>1. CASE m = 0
    <3>1. Joins([i \in 1 .. 0 |-> 0], 0)
      <4>1. \A i \in 1 .. 0 : FALSE
        OBVIOUS
      <4> QED  BY <4>1
    <3> HIDE DEF Joins
    <3> QED  BY <2>1, <3>1
  <2>2. CASE m # 0
    <3>1. m - 1 \in S
      <4>1. m - 1 \in 0 .. m - 1
        BY <2>2
      <4> HIDE DEF S
      <4> QED  BY <1>1, <4>1
    <3>2. PICK g : Joins(g, m - 1)
      BY <3>1
    <3> DEFINE h == [i \in 1 .. m |-> IF i = m THEN Step(g, m) ELSE g[i]]
    <3>h. h = [i \in 1 .. m |-> h[i]] /\ h[m] = Step(g, m)
          /\ \A i \in 1 .. m - 1 : h[i] = g[i]
      BY <2>2
    <3> HIDE DEF h
    <3>3. ASSUME NEW i \in 1 .. m PROVE Step(h, i) = Step(g, i)
      <4>1. i # 1 => i - 1 \in 1 .. m - 1
        OBVIOUS
      <4>2. i # 1 => h[i - 1] = g[i - 1]
        BY <3>h, <4>1
      <4> QED  BY <1>0, <4>2, Zenon
    <3>4. ASSUME NEW i \in 1 .. m PROVE h[i] = Step(h, i)
      <4>1. CASE i = m
        BY <3>h, <3>3, <4>1
      <4>2. CASE i # m
        <5>1. i \in 1 .. m - 1
          BY <4>2
        <5>2. g[i] = Step(g, i)
          BY <3>2, <5>1
        <5> QED  BY <3>h, <3>3, <5>1, <5>2
      <4> QED  BY <4>1, <4>2
    <3>5. Joins(h, m)
      BY <3>h, <3>4
    <3> QED
      <4> HIDE DEF Joins
      <4> QED  BY <3>5
  <2> QED  BY <2>1, <2>2
<1>2. \A m \in Nat : m \in S
  <2>1. \A m \in Nat : (\A k \in 0 .. m - 1 : k \in S) => m \in S
    <3> HIDE DEF Joins
    <3> QED  BY <1>1
  <2> HIDE DEF S
  <2> QED  BY <2>1, Upward
<1>3. \E g : Joins(g, n)
  <2> HIDE DEF Joins
  <2> QED  BY <1>n, <1>2
<1> DEFINE whole == CHOOSE g : Joins(g, n)
<1>4. whole = [i \in 1 .. n |-> Step(whole, i)]
  BY <1>3
<1>5. FlattenSeq(parts) = whole[n]
  BY <1>n, Zenon DEF FlattenSeq, Step, n
<1> HIDE DEF whole
<1>6. \A i \in 1 .. n : whole[i] = Step(whole, i)
  BY <1>4, Zenon
<1>7. whole[1] = parts[1]
  <2>1. 1 \in 1 .. n
    BY <1>n DEF n
  <2> QED  BY <1>6, <2>1 DEF Step
<1>8. ASSUME NEW i \in 2 .. n PROVE whole[i] = whole[i - 1] \o parts[i]
  <2>1. i \in 1 .. n /\ i # 1
    BY <1>n
  <2> QED  BY <1>6, <2>1, Zenon DEF Step
<1> QED  BY <1>5, <1>7, <1>8 DEF n

LEMMA FlattenIsBytes ==
  ASSUME NEW parts \in Seq(Seq(Bytes)), NEW whole, Len(parts) >= 1,
         whole[1] = parts[1],
         \A i \in 2 .. Len(parts) : whole[i] = whole[i - 1] \o parts[i]
  PROVE  \A i \in 1 .. Len(parts) : whole[i] \in Seq(Bytes)
<1> DEFINE n == Len(parts)
           S == {m \in Nat : m \in 1 .. n => whole[m] \in Seq(Bytes)}
<1>n. n \in Nat /\ n >= 1 /\ \A i \in 1 .. n : parts[i] \in Seq(Bytes)
  OBVIOUS
<1> HIDE DEF n
<1>1. ASSUME NEW m \in Nat, \A k \in 0 .. m - 1 : k \in S
      PROVE  m \in S
  <2> SUFFICES ASSUME m \in 1 .. n PROVE whole[m] \in Seq(Bytes)
    OBVIOUS
  <2>1. CASE m = 1
    BY <1>n, <2>1
  <2>2. CASE m # 1
    <3>1. m - 1 \in 0 .. m - 1 /\ m - 1 \in 1 .. n /\ m \in 2 .. Len(parts)
      BY <1>n, <2>2 DEF n
    <3>2. whole[m - 1] \in Seq(Bytes) /\ parts[m] \in Seq(Bytes)
      BY <1>1, <1>n, <3>1
    <3>3. whole[m - 1] \o parts[m] \in Seq(Bytes)
      BY <3>2, ConcatIs, Zenon
    <3> QED  BY <3>1, <3>3
  <2> QED  BY <2>1, <2>2
<1>2. \A m \in Nat : m \in S
  <2> HIDE DEF S
  <2> QED  BY <1>1, Upward
<1> QED  BY <1>n, <1>2 DEF n

LEMMA FlattenBytes ==
  ASSUME NEW parts \in Seq(Seq(Bytes))
  PROVE  FlattenSeq(parts) \in Seq(Bytes)
<1>1. CASE Len(parts) = 0
  BY <1>1 DEF FlattenSeq
<1>2. CASE Len(parts) # 0
  <2>1. Len(parts) >= 1 /\ Len(parts) \in 1 .. Len(parts)
    BY <1>2
  <2>2. PICK whole : /\ whole[1] = parts[1]
                     /\ \A i \in 2 .. Len(parts) : whole[i] = whole[i - 1] \o parts[i]
                     /\ FlattenSeq(parts) = whole[Len(parts)]
    BY <2>1, FlattenUnfolds
  <2>3. \A i \in 1 .. Len(parts) : whole[i] \in Seq(Bytes)
    BY <2>1, <2>2, FlattenIsBytes
  <2> QED  BY <2>1, <2>2, <2>3
<1> QED  BY <1>1, <1>2

(* Where parts that were put together stand, each stands in its place.     *)
LEMMA PartsStand ==
  ASSUME NEW input \in Seq(Bytes), NEW at \in Nat \ {0},
         NEW parts \in Seq(Seq(Bytes)), Stands(input, at, FlattenSeq(parts))
  PROVE  \E place \in [1 .. Len(parts) + 1 -> Nat \ {0}] :
           /\ place[1] = at /\ place[Len(parts) + 1] = at + Len(FlattenSeq(parts))
           /\ \A i \in 1 .. Len(parts) :
                /\ Stands(input, place[i], parts[i])
                /\ place[i + 1] = place[i] + Len(parts[i])
<1> DEFINE n == Len(parts)
<1>n. n \in Nat /\ Len(input) \in Nat /\ \A i \in 1 .. n : parts[i] \in Seq(Bytes)
  OBVIOUS
<1>1. CASE n = 0
  <2>2. FlattenSeq(parts) = parts /\ Len(FlattenSeq(parts)) = 0
    BY <1>1 DEF FlattenSeq
  <2> DEFINE place == [i \in 1 .. Len(parts) + 1 |-> at]
  <2>3. /\ place \in [1 .. Len(parts) + 1 -> Nat \ {0}]
        /\ place[1] = at /\ place[Len(parts) + 1] = at
    BY <1>1
  <2>4. \A i \in 1 .. Len(parts) : FALSE
    BY <1>1
  <2>5. at = at + Len(FlattenSeq(parts))
    BY <2>2
  <2> HIDE DEF place
  <2> QED  BY <2>2, <2>3, <2>4, <2>5, Zenon
<1>2. CASE n # 0
  <2>0. n >= 1 /\ Len(parts) >= 1
    BY <1>n, <1>2
  <2>1. PICK whole : /\ whole[1] = parts[1]
                     /\ \A i \in 2 .. Len(parts) : whole[i] = whole[i - 1] \o parts[i]
                     /\ FlattenSeq(parts) = whole[Len(parts)]
    BY <2>0, FlattenUnfolds
  <2>2. \A i \in 1 .. n : whole[i] \in Seq(Bytes)
    BY <2>0, <2>1, FlattenIsBytes
  <2> HIDE DEF n
  <2>3. \A i \in 1 .. n : Len(whole[i]) \in Nat
    BY <2>2
  <2> DEFINE S == {m \in Nat : m \in 1 .. n => Stands(input, at, whole[m])}
  <2>4. ASSUME NEW m \in 1 .. n, \A k \in m + 1 .. n : k \in S
        PROVE  m \in S
    <3>0. m \in Nat
      OBVIOUS
    <3>1. CASE m = n
      <4>1. Stands(input, at, whole[n])
        BY <2>1, Zenon DEF n
      <4> QED  BY <3>0, <3>1, <4>1
    <3>2. CASE m # n
      <4>1. m + 1 \in m + 1 .. n /\ m + 1 \in 2 .. Len(parts) /\ m + 1 \in 1 .. n /\ (m + 1) - 1 = m
        BY <1>n, <3>2 DEF n
      <4>2. Stands(input, at, whole[m + 1])
        BY <2>4, <4>1
      <4>3. whole[m + 1] = whole[m] \o parts[m + 1]
        BY <2>1, <4>1
      <4>4. Stands(input, at, whole[m] \o parts[m + 1])
        BY <4>2, <4>3, Zenon
      <4>5. whole[m] \in Seq(Bytes) /\ parts[m + 1] \in Seq(Bytes) /\ at \in Nat
        BY <1>n, <2>2, <4>1
      <4>6. Stands(input, at, whole[m])
        BY <1>n, <4>4, <4>5, StandsApart
      <4> QED  BY <3>0, <4>6
    <3> QED  BY <3>1, <3>2
  <2>5. \A m \in 1 .. n : Stands(input, at, whole[m])
    <3>1. \A m \in 1 .. n : m \in S
      <4> HIDE DEF S
      <4> QED  BY <1>n, <2>4, Downward
    <3> QED  BY <1>n, <3>1
  <2> DEFINE place == [i \in 1 .. Len(parts) + 1 |-> at + (IF i = 1 THEN 0 ELSE Len(whole[i - 1]))]
  <2>6. /\ place \in [1 .. Len(parts) + 1 -> Nat \ {0}] /\ place[1] = at
        /\ \A i \in 1 .. n : place[i + 1] = at + Len(whole[i])
    <3>1. ASSUME NEW i \in 1 .. Len(parts) + 1
          PROVE  at + (IF i = 1 THEN 0 ELSE Len(whole[i - 1])) \in Nat \ {0}
      <4>1. i # 1 => i - 1 \in 1 .. n
        BY <1>n DEF n
      <4> QED  BY <2>3, <4>1
    <3>2. place \in [1 .. Len(parts) + 1 -> Nat \ {0}]
      BY <3>1
    <3>3. place[1] = at
      BY <1>n DEF n
    <3>4. ASSUME NEW i \in 1 .. n PROVE place[i + 1] = at + Len(whole[i])
      <4>1. i + 1 \in 1 .. Len(parts) + 1 /\ i + 1 # 1 /\ (i + 1) - 1 = i
        BY <1>n DEF n
      <4> QED  BY <4>1
    <3> QED  BY <3>2, <3>3, <3>4
  <2> HIDE DEF place
  <2>7. ASSUME NEW i \in 1 .. n
        PROVE  Stands(input, place[i], parts[i]) /\ place[i + 1] = place[i] + Len(parts[i])
    <3>1. CASE i = 1
      <4>1. Stands(input, at, parts[1]) /\ place[1 + 1] = at + Len(parts[1])
        BY <2>1, <2>5, <2>6, <3>1
      <4> QED  BY <2>6, <3>1, <4>1
    <3>2. CASE i # 1
      <4>1. i - 1 \in 1 .. n /\ (i - 1) + 1 = i /\ i \in 2 .. Len(parts)
        BY <1>n, <3>2 DEF n
      <4>2. whole[i] = whole[i - 1] \o parts[i]
        BY <2>1, <4>1
      <4>3. whole[i - 1] \in Seq(Bytes) /\ parts[i] \in Seq(Bytes) /\ at \in Nat
        BY <1>n, <2>2, <4>1
      <4>4. Len(whole[i - 1] \o parts[i]) = Len(whole[i - 1]) + Len(parts[i])
        BY <4>3, ConcatIs, Zenon
      <4>5. Stands(input, at, whole[i - 1] \o parts[i])
        BY <2>5, <4>2, Zenon
      <4>6. Stands(input, at + Len(whole[i - 1]), parts[i])
        BY <1>n, <4>3, <4>5, StandsApart
      <4>7. place[i] = at + Len(whole[i - 1]) /\ place[i + 1] = at + Len(whole[i])
        BY <2>6, <4>1
      <4>8. Len(whole[i]) = Len(whole[i - 1]) + Len(parts[i])
        BY <4>2, <4>4, Zenon
      <4>9. Len(whole[i - 1]) \in Nat /\ Len(parts[i]) \in Nat
        BY <4>3
      <4>10. Stands(input, place[i], parts[i])
        BY <4>6, <4>7, Zenon
      <4>11. place[i + 1] = place[i] + Len(parts[i])
        <5> DEFINE a == Len(whole[i - 1])
                   b == Len(whole[i])
                   c == Len(parts[i])
        <5>1. a \in Nat /\ c \in Nat /\ b = a + c /\ place[i] = at + a /\ place[i + 1] = at + b
          BY <4>7, <4>8, <4>9
        <5> HIDE DEF a, b, c
        <5>2. place[i + 1] = place[i] + c
          BY <5>1
        <5> QED  BY <5>2 DEF c
      <4> QED  BY <4>10, <4>11
    <3> QED  BY <3>1, <3>2
  <2>8. place[Len(parts) + 1] = at + Len(FlattenSeq(parts))
    <3>1. n \in 1 .. n
      BY <1>n, <2>0
    <3> QED  BY <2>1, <2>2, <2>6, <3>1 DEF n
  <2> QED  BY <2>6, <2>7, <2>8, Zenon DEF n
<1> QED  BY <1>1, <1>2

-----------------------------------------------------------------------------
(* Lists and dictionaries.                                                 *)

(* What is read at one place of a list or a dictionary.                    *)
EntryAt(input, of, at) ==
  IF of = "dict"
  THEN <<ReadBytes(input, at).val, Decode(input, ReadBytes(input, at).at).val>>
  ELSE Decode(input, at).val

LEMMA CutFront ==
  ASSUME NEW T, NEW s \in Seq(T), NEW i \in 1 .. Len(s)
  PROVE  <<s[i]>> \o SubSeq(s, i + 1, Len(s)) = SubSeq(s, i, Len(s))
<1> DEFINE n    == Len(s)
           tail == SubSeq(s, i + 1, n)
           cut  == SubSeq(s, i, n)
           e    == s[i]
<1>1. /\ n \in Nat /\ i \in Nat /\ i >= 1 /\ i <= n /\ s \in Seq(T)
  OBVIOUS
<1>2. /\ tail \in Seq(T) /\ Len(tail) = n - i
      /\ \A k \in 1 .. n - i : tail[k] = s[i + k]
  <2>1. tail = [k \in 1 .. n - i |-> s[i + k]]
    BY <1>1
  <2> QED  BY <1>1, <2>1
<1>3. /\ cut \in Seq(T) /\ Len(cut) = n - i + 1
      /\ \A k \in 1 .. n - i + 1 : cut[k] = s[i + k - 1]
  BY <1>1
<1>4. Sequence(tail)
  BY <1>2 DEF Sequence
<1> HIDE DEF tail, cut, e
<1> DEFINE all == <<e>> \o tail
<1>5. /\ Sequence(all) /\ Len(all) = Len(tail) + 1 /\ all[1] = e
      /\ \A k \in 1 .. Len(tail) : all[k + 1] = tail[k]
  BY <1>4, OneMore
<1> HIDE DEF all
<1>6. DOMAIN all = 1 .. Len(all) /\ \E U : all \in Seq(U)
  BY <1>5 DEF Sequence
<1>7. Len(all) = n - i + 1
  BY <1>1, <1>2, <1>5
<1>8. ASSUME NEW k \in 1 .. n - i + 1 PROVE all[k] = cut[k]
  <2>1. CASE k = 1
    <3>1. i + 1 - 1 = i
      BY <1>1
    <3> QED  BY <1>1, <1>3, <1>5, <2>1, <3>1 DEF e
  <2>2. CASE k # 1
    <3>1. k - 1 \in 1 .. n - i /\ (k - 1) + 1 = k /\ i + (k - 1) = i + k - 1
      BY <1>1, <2>2
    <3> QED  BY <1>2, <1>3, <1>5, <3>1
  <2> QED  BY <2>1, <2>2
<1>9. all = cut
  BY <1>3, <1>6, <1>7, <1>8
<1> QED  BY <1>9 DEF all, cut, e, tail

LEMMA DecodeWalks ==
  ASSUME NEW input \in Seq(Bytes), NEW at \in 1 .. Len(input) + 1, NEW of \in {"list", "dict"}
  PROVE  Walk(input, "decode")[at][of] =
           RestAt(input, "decode", Walk(input, "decode"), of, at)
  BY WalkUnfolds, Zenon

(* A list or a dictionary whose entries stand at `place`, one behind the   *)
(* other, and end where its end is.                                        *)
EntriesFollow(input, of, entries, place) ==
  /\ \A i \in 1 .. Len(entries) + 1 : place[i] \in 1 .. Len(input)
  /\ input[place[Len(entries) + 1]] = "e"
  /\ \A i \in 1 .. Len(entries) :
       /\ input[place[i]] # "e"
       /\ of = "dict" => ReadBytes(input, place[i]).ok
       /\ Decode(input, ElementAt(input, of, place[i])).ok
       /\ Decode(input, ElementAt(input, of, place[i])).at = place[i + 1]
       /\ EntryAt(input, of, place[i]) = entries[i]

LEMMA RestReadsBack ==
  ASSUME NEW input \in Seq(Bytes), NEW of \in {"list", "dict"},
         NEW T, NEW entries \in Seq(T), NEW place,
         EntriesFollow(input, of, entries, place)
  PROVE  Walk(input, "decode")[place[1]][of] = Reads(place[Len(entries) + 1] + 1, entries)
<1> DEFINE n    == Len(entries)
           walk == Walk(input, "decode")
           end  == place[n + 1] + 1
           left(i) == SubSeq(entries, i, n)
           S == {i \in Nat : i <= n + 1 => walk[place[i]][of] = Reads(end, left(i))}
<1>n. n \in Nat /\ Len(input) \in Nat
  OBVIOUS
<1>0. /\ \A i \in 1 .. Len(entries) + 1 : place[i] \in 1 .. Len(input)
      /\ input[place[Len(entries) + 1]] = "e"
      /\ \A i \in 1 .. Len(entries) :
           /\ input[place[i]] # "e"
           /\ of = "dict" => ReadBytes(input, place[i]).ok
           /\ Decode(input, ElementAt(input, of, place[i])).ok
           /\ Decode(input, ElementAt(input, of, place[i])).at = place[i + 1]
           /\ EntryAt(input, of, place[i]) = entries[i]
  BY DEF EntriesFollow
<1> HIDE DEF n, end, left
<1>1. ASSUME NEW m \in 1 .. n + 1, \A k \in m + 1 .. n + 1 : k \in S
      PROVE  m \in S
  <2> DEFINE p == place[m]
  <2>1. p \in 1 .. Len(input) /\ p \in 1 .. Len(input) + 1 /\ ~(p > Len(input)) /\ m \in Nat
    BY <1>0, <1>n DEF n
  <2>2. walk[p][of] = RestAt(input, "decode", walk, of, p)
    <3> DEFINE q == p
    <3>1. q \in 1 .. Len(input) + 1
      BY <2>1
    <3> HIDE DEF q
    <3>2. Walk(input, "decode")[q][of] =
            RestAt(input, "decode", Walk(input, "decode"), of, q)
      <4> HIDE DEF walk, S
      <4> QED  BY <3>1, DecodeWalks, Zenon
    <3> QED  BY <3>2, Zenon DEF q
  <2> HIDE DEF walk
  <2>3. CASE m = n + 1
    <3>1. input[p] = "e" /\ p + 1 = end
      BY <1>0, <2>3 DEF n, end
    <3>2. RestAt(input, "decode", walk, of, p) = Reads(p + 1, <<>>)
      BY <2>1, <3>1, RestEnds
    <3>3. left(m) = <<>>
      BY <1>n, <2>3 DEF left, n
    <3>4. walk[p][of] = Reads(end, left(m))
      BY <2>2, <3>1, <3>2, <3>3, Zenon
    <3> QED  BY <2>1, <3>4
  <2>4. CASE m # n + 1
    <3> DEFINE value == Decode(input, ElementAt(input, of, p))
               entry == EntryAt(input, of, p)
    <3>0. m \in 1 .. n /\ m + 1 \in m + 1 .. n + 1
      BY <1>n, <2>4
    <3>1. /\ input[p] # "e" /\ (of = "dict" => ReadBytes(input, p).ok)
          /\ value.ok /\ value.at = place[m + 1] /\ entry = entries[m]
      BY <1>0, <3>0, Zenon DEF n
    <3>2. walk[place[m + 1]][of] = Reads(end, left(m + 1))
      <4>1. m + 1 \in S /\ m + 1 <= n + 1
        BY <1>1, <1>n, <3>0
      <4> QED  BY <4>1
    <3>3. value = ValueAt(input, "decode", walk, ElementAt(input, of, p))
      BY DEF Decode, walk
    <3>3b. entry = IF of = "dict" THEN <<ReadBytes(input, p).val, value.val>> ELSE value.val
      BY Zenon DEF EntryAt, ElementAt
    <3> HIDE DEF value, p
    <3> DEFINE after == walk[value.at][of]
    <3>4. after = Reads(end, left(m + 1))
      BY <3>1, <3>2, Zenon
    <3>5. after.ok /\ after.at = end /\ after.val = left(m + 1)
      <4> HIDE DEF after
      <4> QED  BY <3>4 DEF Reads
    <3>6. ~(of = "dict" /\ ~ReadBytes(input, p).ok)
      BY <3>1
    <3>7. RestAt(input, "decode", walk, of, p) = Reads(after.at, <<entry>> \o after.val)
      <4>1. /\ ~(p > Len(input)) /\ input[p] # "e" /\ value.ok /\ after.ok
            /\ ~(of = "dict" /\ ~ReadBytes(input, p).ok)
            /\ value = ValueAt(input, "decode", walk,
                               IF of = "dict" THEN ReadBytes(input, p).at ELSE p)
        BY <2>1, <3>1, <3>3, <3>5, <3>6 DEF ElementAt
      <4> HIDE DEF entry
      <4> QED  BY <3>3b, <4>1, Zenon DEF RestAt
    <3>8. <<entry>> \o after.val = left(m)
      <4> HIDE DEF entry, after
      <4>1. <<entries[m]>> \o SubSeq(entries, m + 1, Len(entries)) =
              SubSeq(entries, m, Len(entries))
        BY <3>0, CutFront DEF n
      <4> QED  BY <3>1, <3>5, <4>1, Zenon DEF left, n
    <3>9. walk[p][of] = Reads(end, left(m))
      BY <2>2, <3>5, <3>7, <3>8, Zenon
    <3> QED  BY <2>1, <3>9 DEF p
  <2> QED  BY <2>3, <2>4
<1>2. \A m \in 1 .. n + 1 : m \in S
  <2> HIDE DEF S
  <2>1. n + 1 \in Nat
    BY <1>n
  <2> QED  BY <1>1, <2>1, Downward
<1>3. walk[place[1]][of] = Reads(end, left(1))
  <2>1. 1 \in 1 .. n + 1 /\ 1 <= n + 1
    BY <1>n
  <2> QED  BY <1>2, <2>1
<1>4. left(1) = entries
  <2>1. left(1) = [k \in 1 .. n |-> entries[k]]
    BY <1>n DEF left, n
  <2> QED  BY <2>1 DEF n
<1> QED  BY <1>3, <1>4, Zenon DEF end, n

(* What is read as a value begins neither nothing nor with an end.         *)
LEMMA ValueBegins ==
  ASSUME NEW input \in Seq(Bytes), NEW at \in 1 .. Len(input) + 1, Decode(input, at).ok
  PROVE  at \in 1 .. Len(input) /\ input[at] # "e"
<1>1. at \in 1 .. Len(input) /\ ~(at > Len(input))
  BY DecodeEndsBehind
<1>2. ASSUME input[at] = "e" PROVE FALSE
  <2>1. input[at] \notin {"i", "l", "d"} /\ ~IsDigit(input[at])
    BY <1>2, DigitIsNone
  <2>2. Decode(input, at) = Fails
    BY <1>1, <2>1, ValueIs DEF Decode
  <2> QED  BY <2>2 DEF Fails
<1> QED  BY <1>1, <1>2

(* `middle` stands between the two ends of a list or a dictionary.         *)
Encloses(bytes, mark, middle) ==
  /\ bytes \in Seq(Bytes) /\ Len(bytes) = Len(middle) + 2
  /\ \A input \in Seq(Bytes) : \A at \in 1 .. Len(input) + 1 :
       Stands(input, at, bytes) =>
         /\ at <= Len(input) /\ input[at] = mark
         /\ Stands(input, at + 1, middle)
         /\ at + 1 + Len(middle) \in 1 .. Len(input)
         /\ input[at + 1 + Len(middle)] = "e"

LEMMA BetweenEnds ==
  ASSUME NEW mark \in {"l", "d"}, NEW middle \in Seq(Bytes)
  PROVE  Encloses(<<mark>> \o middle \o <<"e">>, mark, middle)
<1> DEFINE first == <<mark>>
           last  == <<"e">>
           front == first \o middle
           bytes == front \o last
<1>0. mark \in Bytes /\ "e" \in Bytes
  BY MarksAreBytes
<1>1. first \in Seq(Bytes) /\ Len(first) = 1 /\ last \in Seq(Bytes) /\ Len(last) = 1
      /\ Len(middle) \in Nat
  BY <1>0, OneByte
<1>2. front \in Seq(Bytes) /\ Len(front) = Len(middle) + 1
  <2> HIDE DEF first
  <2>1. front \in Seq(Bytes) /\ Len(front) = Len(first) + Len(middle)
    BY <1>1, ConcatIs, Zenon
  <2> HIDE DEF front
  <2> QED  BY <1>1, <2>1
<1>3. bytes \in Seq(Bytes) /\ Len(bytes) = Len(middle) + 2
  <2> HIDE DEF front, last
  <2>1. bytes \in Seq(Bytes) /\ Len(bytes) = Len(front) + Len(last)
    BY <1>1, <1>2, ConcatIs, Zenon
  <2> HIDE DEF bytes
  <2> QED  BY <1>1, <1>2, <2>1
<1>4. ASSUME NEW input \in Seq(Bytes), NEW at \in 1 .. Len(input) + 1,
             Stands(input, at, bytes)
      PROVE  /\ at <= Len(input) /\ input[at] = mark
             /\ Stands(input, at + 1, middle)
             /\ at + 1 + Len(middle) \in 1 .. Len(input)
             /\ input[at + 1 + Len(middle)] = "e"
  <2>1. at \in Nat /\ at >= 1 /\ Len(input) \in Nat
    OBVIOUS
  <2> DEFINE end == at + 1 + Len(middle)
  <2>2. Stands(input, at, front) /\ Stands(input, at + Len(front), last)
    <3> HIDE DEF front, last
    <3> QED  BY <1>1, <1>2, <1>4, <2>1, StandsApart
  <2> HIDE DEF last
  <2>3. Stands(input, at, first) /\ Stands(input, at + Len(first), middle)
    <3> HIDE DEF first
    <3> QED  BY <1>1, <2>1, <2>2, StandsApart
  <2>4. at <= Len(input) /\ input[at] = mark
    BY <1>0, <2>1, <2>3, StandsOne
  <2>5. Stands(input, at + 1, middle)
    <3> HIDE DEF first
    <3> QED  BY <1>1, <2>3
  <2>6. at + Len(front) = end /\ end \in Nat /\ end >= 1
    <3> HIDE DEF front
    <3> QED  BY <1>1, <1>2, <2>1
  <2>7. Stands(input, end, last)
    BY <2>2, <2>6, Zenon
  <2> HIDE DEF end
  <2>8. end <= Len(input) /\ input[end] = "e"
    BY <1>0, <2>1, <2>6, <2>7, StandsOne DEF last
  <2>9. end \in 1 .. Len(input)
    BY <2>1, <2>6, <2>8
  <2> QED  BY <2>4, <2>5, <2>8, <2>9 DEF end
<1> HIDE DEF bytes
<1>5. Encloses(bytes, mark, middle)
  BY <1>3, <1>4, Zenon DEF Encloses
<1> QED  BY <1>5 DEF bytes

(* Wherever `part` stands, it is read as one entry of a list or of a       *)
(* dictionary, to its end.                                                 *)
EntryReadsBack(of, part, entry) ==
  \A input \in Seq(Bytes) : \A at \in 1 .. Len(input) + 1 :
    Stands(input, at, part) =>
      /\ at <= Len(input) /\ input[at] # "e"
      /\ of = "dict" => ReadBytes(input, at).ok
      /\ Decode(input, ElementAt(input, of, at)).ok
      /\ Decode(input, ElementAt(input, of, at)).at = at + Len(part)
      /\ EntryAt(input, of, at) = entry

LEMMA ReadsIs ==
  ASSUME NEW r, NEW at, NEW val, r = Reads(at, val)
  PROVE  r.ok /\ r.at = at /\ r.val = val
  BY DEF Reads

(* What was put together of such parts stands at `at`, and its parts at    *)
(* `place`, where they are read.                                           *)
ReadAt(input, at, bytes, of, entries, parts, place) ==
  /\ place[1] = at + 1
  /\ place[Len(entries) + 1] + 1 = at + Len(bytes)
  /\ EntriesFollow(input, of, entries, place)
  /\ \A i \in 1 .. Len(entries) : Stands(input, place[i], parts[i])

(* Where a list or a dictionary was put together of such parts, each of    *)
(* them stands in its place, and is read there.                            *)
LEMMA EntriesStand ==
  ASSUME NEW of \in {"list", "dict"}, NEW mark, mark = IF of = "list" THEN "l" ELSE "d",
         NEW T, NEW entries \in Seq(T), NEW parts \in Seq(Seq(Bytes)),
         Len(parts) = Len(entries),
         \A i \in 1 .. Len(entries) : EntryReadsBack(of, parts[i], entries[i]),
         NEW bytes, Encloses(bytes, mark, FlattenSeq(parts)),
         NEW input \in Seq(Bytes), NEW at \in 1 .. Len(input) + 1,
         Stands(input, at, bytes)
  PROVE  \E place : ReadAt(input, at, bytes, of, entries, parts, place)
<1> DEFINE middle == FlattenSeq(parts)
           n      == Len(entries)
           end    == at + 1 + Len(middle)
<1>n. n \in Nat /\ \A i \in 1 .. n : parts[i] \in Seq(Bytes)
  OBVIOUS
<1>0. middle \in Seq(Bytes) /\ Len(middle) \in Nat
  BY FlattenBytes
<1>e. Encloses(bytes, mark, middle)
  OBVIOUS
<1> HIDE DEF middle
<1>1. /\ at <= Len(input) /\ input[at] = mark
      /\ Stands(input, at + 1, middle)
      /\ end \in 1 .. Len(input) /\ input[end] = "e"
  BY <1>e DEF Encloses
<1>2. Len(input) \in Nat /\ at \in Nat /\ at + 1 \in Nat \ {0} /\ ~(at > Len(input))
  BY <1>1
<1>3. PICK place \in [1 .. Len(parts) + 1 -> Nat \ {0}] :
         /\ place[1] = at + 1 /\ place[Len(parts) + 1] = end
         /\ \A i \in 1 .. Len(parts) :
              /\ Stands(input, place[i], parts[i])
              /\ place[i + 1] = place[i] + Len(parts[i])
  BY <1>1, <1>2, PartsStand, ZenonT(30) DEF middle
<1> HIDE DEF end, n
<1>l. n = Len(entries) /\ n = Len(parts)
  BY DEF n
<1>4. ASSUME NEW i \in 1 .. n
      PROVE  /\ place[i] \in 1 .. Len(input) + 1
             /\ Stands(input, place[i], parts[i])
  <2>1. i \in 1 .. Len(parts) /\ i \in 1 .. Len(parts) + 1
    BY <1>n, <1>l
  <2>2. place[i] \in Nat \ {0} /\ Stands(input, place[i], parts[i])
    BY <1>3, <2>1
  <2>3. Len(parts[i]) \in Nat /\ place[i] + Len(parts[i]) <= Len(input) + 1
    <3>1. Len(parts[i]) \in Nat
      BY <1>n, <2>1
    <3> QED  BY <2>2, <3>1 DEF Stands
  <2> QED  BY <1>2, <2>2, <2>3
<1>5. ASSUME NEW i \in 1 .. n
      PROVE  /\ place[i] \in 1 .. Len(input) /\ input[place[i]] # "e"
             /\ of = "dict" => ReadBytes(input, place[i]).ok
             /\ Decode(input, ElementAt(input, of, place[i])).ok
             /\ Decode(input, ElementAt(input, of, place[i])).at = place[i + 1]
             /\ EntryAt(input, of, place[i]) = entries[i]
  <2>1. place[i] \in 1 .. Len(input) + 1 /\ Stands(input, place[i], parts[i])
    BY <1>4
  <2>2. EntryReadsBack(of, parts[i], entries[i])
    BY <1>l
  <2>3. place[i + 1] = place[i] + Len(parts[i])
    BY <1>3, <1>l
  <2> DEFINE p == place[i]
  <2>4. p \in 1 .. Len(input) + 1 /\ Stands(input, p, parts[i])
    BY <2>1
  <2> HIDE DEF p
  <2>5. /\ p <= Len(input) /\ input[p] # "e"
        /\ of = "dict" => ReadBytes(input, p).ok
        /\ Decode(input, ElementAt(input, of, p)).ok
        /\ Decode(input, ElementAt(input, of, p)).at = p + Len(parts[i])
        /\ EntryAt(input, of, p) = entries[i]
    BY <2>2, <2>4, Zenon DEF EntryReadsBack
  <2>6. p \in 1 .. Len(input)
    BY <1>2, <2>4, <2>5
  <2> QED  BY <2>3, <2>5, <2>6, Zenon DEF p
<1>6. \A i \in 1 .. Len(entries) + 1 : place[i] \in 1 .. Len(input)
  <2>1. ASSUME NEW i \in 1 .. Len(entries) + 1 PROVE place[i] \in 1 .. Len(input)
    <3>1. CASE i = Len(entries) + 1
      BY <1>1, <1>3, <3>1
    <3>2. CASE i # Len(entries) + 1
      <4>1. i \in 1 .. n
        BY <1>n, <1>l, <3>2
      <4> QED  BY <1>5, <4>1
    <3> QED  BY <3>1, <3>2
  <2> QED  BY <2>1
<1>7. input[place[Len(entries) + 1]] = "e" /\ place[Len(entries) + 1] = end
  BY <1>1, <1>3
<1>8. EntriesFollow(input, of, entries, place)
  BY <1>5, <1>6, <1>7, <1>l, Zenon DEF EntriesFollow
<1>9. place[Len(entries) + 1] + 1 = at + Len(bytes)
  <2>1. Len(bytes) = Len(middle) + 2
    BY <1>e DEF Encloses
  <2> QED  BY <1>0, <1>2, <1>7, <2>1 DEF end
<1>10. \A i \in 1 .. Len(entries) : Stands(input, place[i], parts[i])
  BY <1>4, <1>n, Zenon DEF n
<1>11. place[1] = at + 1
  BY <1>3
<1> QED  BY <1>8, <1>9, <1>10, <1>11, Zenon DEF ReadAt

LEMMA EntriesReadBack ==
  ASSUME NEW of \in {"list", "dict"}, NEW mark, mark = IF of = "list" THEN "l" ELSE "d",
         NEW T, NEW entries \in Seq(T), NEW parts \in Seq(Seq(Bytes)),
         Len(parts) = Len(entries),
         \A i \in 1 .. Len(entries) : EntryReadsBack(of, parts[i], entries[i])
  PROVE  LET bytes == <<mark>> \o FlattenSeq(parts) \o <<"e">>
         IN  bytes \in Seq(Bytes) /\ ReadsBack(bytes, [kind |-> of, val |-> entries])
<1> DEFINE middle == FlattenSeq(parts)
           bytes  == <<mark>> \o middle \o <<"e">>
           value  == [kind |-> of, val |-> entries]
           n      == Len(entries)
<1>n. n \in Nat /\ \A i \in 1 .. n : parts[i] \in Seq(Bytes)
  OBVIOUS
<1>0. mark \in {"l", "d"}
  OBVIOUS
<1>1. middle \in Seq(Bytes) /\ Len(middle) \in Nat
  BY FlattenBytes
<1> HIDE DEF middle
<1>2. Encloses(bytes, mark, middle)
  BY <1>0, <1>1, BetweenEnds
<1> HIDE DEF bytes
<1>3. ASSUME NEW input \in Seq(Bytes), NEW at \in 1 .. Len(input) + 1,
             Stands(input, at, bytes)
      PROVE  Decode(input, at) = Reads(at + Len(bytes), value)
  <2>1. at \in 1 .. Len(input) /\ input[at] = mark /\ Len(bytes) \in Nat /\ at \in Nat
    BY <1>1, <1>2, <1>3 DEF Encloses
  <2>2. ~(at > Len(input)) /\ Encloses(bytes, mark, FlattenSeq(parts))
    BY <1>2, <2>1 DEF middle
  <2>3. PICK place : ReadAt(input, at, bytes, of, entries, parts, place)
    BY <1>3, <2>2, EntriesStand
  <2>9. Walk(input, "decode")[place[1]][of] = Reads(place[Len(entries) + 1] + 1, entries)
    BY <2>3, RestReadsBack DEF ReadAt
  <2> DEFINE rest == Walk(input, "decode")[at + 1][of]
             end  == at + Len(bytes)
  <2>10. rest = Reads(end, entries)
    BY <2>3, <2>9, Zenon DEF ReadAt
  <2>11. Decode(input, at) = As(of, rest)
    <3>1. CASE of = "list"
      BY <2>1, <2>2, <3>1, ValueIs DEF Decode
    <3>2. CASE of = "dict"
      BY <2>1, <2>2, <3>2, ValueIs DEF Decode
    <3> QED  BY <3>1, <3>2
  <2> HIDE DEF rest, end
  <2>13. rest.ok /\ rest.at = end /\ rest.val = entries
    BY <2>10, ReadsIs
  <2>14. As(of, rest) = Reads(rest.at, [kind |-> of, val |-> rest.val])
    BY <2>13, Zenon DEF As
  <2>15. As(of, rest) = Reads(end, value)
    BY <2>13, <2>14, Zenon
  <2> QED  BY <2>11, <2>15, Zenon DEF end
<1>4. ReadsBack(bytes, value)
  BY <1>3 DEF ReadsBack
<1>5. bytes \in Seq(Bytes)
  BY <1>2 DEF Encloses
<1> QED  BY <1>4, <1>5, Zenon DEF bytes, middle

LEMMA ListsReadBack ==
  ASSUME NEW T, NEW entries \in Seq(T), NEW parts \in Seq(Seq(Bytes)),
         Len(parts) = Len(entries),
         \A i \in 1 .. Len(entries) : EntryReadsBack("list", parts[i], entries[i])
  PROVE  LET bytes == <<"l">> \o FlattenSeq(parts) \o <<"e">>
         IN  bytes \in Seq(Bytes) /\ ReadsBack(bytes, [kind |-> "list", val |-> entries])
  BY EntriesReadBack

LEMMA DictsReadBack ==
  ASSUME NEW T, NEW entries \in Seq(T), NEW parts \in Seq(Seq(Bytes)),
         Len(parts) = Len(entries),
         \A i \in 1 .. Len(entries) : EntryReadsBack("dict", parts[i], entries[i])
  PROVE  LET bytes == <<"d">> \o FlattenSeq(parts) \o <<"e">>
         IN  bytes \in Seq(Bytes) /\ ReadsBack(bytes, [kind |-> "dict", val |-> entries])
  BY EntriesReadBack

LEMMA ElementReadsBack ==
  ASSUME NEW part \in Seq(Bytes), NEW value, ReadsBack(part, value)
  PROVE  EntryReadsBack("list", part, value)
<1>1. ASSUME NEW input \in Seq(Bytes), NEW at \in 1 .. Len(input) + 1,
             Stands(input, at, part)
      PROVE  /\ at <= Len(input) /\ input[at] # "e"
             /\ Decode(input, at).ok /\ Decode(input, at).at = at + Len(part)
             /\ Decode(input, at).val = value
  <2>1. Decode(input, at) = Reads(at + Len(part), value)
    BY <1>1 DEF ReadsBack
  <2>2. Decode(input, at).ok /\ Decode(input, at).at = at + Len(part)
        /\ Decode(input, at).val = value
    BY <2>1, ReadsIs
  <2>3. at \in 1 .. Len(input) /\ input[at] # "e"
    BY <2>2, ValueBegins
  <2> QED  BY <2>2, <2>3
<1> QED  BY <1>1 DEF EntryReadsBack, ElementAt, EntryAt

LEMMA EncodedAre ==
  ASSUME NEW s \in Seq(Bytes)
  PROVE  EncodeBytes(s) \in Seq(Bytes) /\ Len(EncodeBytes(s)) \in Nat
  BY StringsReadBack

LEMMA KeyedReadsBack ==
  ASSUME NEW key \in Seq(Bytes), NEW part \in Seq(Bytes), NEW value, ReadsBack(part, value)
  PROVE  /\ EncodeBytes(key) \o part \in Seq(Bytes)
         /\ EntryReadsBack("dict", EncodeBytes(key) \o part, <<key, value>>)
<1> DEFINE name  == EncodeBytes(key)
           whole == name \o part
<1>1. name \in Seq(Bytes) /\ Len(name) \in Nat /\ Len(part) \in Nat
  BY EncodedAre
<1>2. ASSUME NEW input \in Seq(Bytes), NEW at \in 1 .. Len(input) + 1,
             Stands(input, at, whole)
      PROVE  /\ at <= Len(input) /\ input[at] # "e"
             /\ ReadBytes(input, at).ok
             /\ ReadBytes(input, at).val = key
             /\ LET r == Decode(input, ReadBytes(input, at).at)
                IN  r.ok /\ r.at = at + Len(whole) /\ r.val = value
  <2>1. Len(input) \in Nat /\ at \in Nat /\ at >= 1
    OBVIOUS
  <2>2. Stands(input, at, name) /\ Stands(input, at + Len(name), part)
    <3> HIDE DEF name
    <3> QED  BY <1>1, <1>2, <2>1, StandsApart
  <2>3. /\ ReadBytes(input, at) = Reads(at + Len(name), key)
        /\ at <= Len(input) /\ IsDigit(input[at])
    BY <2>2, BytesReadBack
  <2>4. input[at] # "e"
    BY <2>3, DigitIsNone
  <2> HIDE DEF name
  <2>5. /\ ReadBytes(input, at).ok /\ ReadBytes(input, at).at = at + Len(name)
        /\ ReadBytes(input, at).val = key
    BY <2>3, ReadsIs
  <2> DEFINE from == at + Len(name)
  <2>6. from \in 1 .. Len(input) + 1 /\ from + Len(part) = at + (Len(name) + Len(part))
    BY <1>1, <2>1, <2>2 DEF Stands
  <2>7. Len(whole) = Len(name) + Len(part)
    BY <1>1, ConcatIs, Zenon
  <2>8. Stands(input, from, part)
    BY <2>2
  <2> HIDE DEF from, whole
  <2>9. Decode(input, from) = Reads(from + Len(part), value)
    BY <2>6, <2>8 DEF ReadsBack
  <2>10. /\ Decode(input, from).ok /\ Decode(input, from).at = from + Len(part)
         /\ Decode(input, from).val = value
    BY <2>9, ReadsIs
  <2>11. ReadBytes(input, at).at = from
    BY <2>5 DEF from
  <2>12. from + Len(part) = at + Len(whole)
    BY <2>6, <2>7, Zenon
  <2> QED  BY <2>3, <2>4, <2>5, <2>10, <2>11, <2>12, Zenon
<1>3. whole \in Seq(Bytes)
  BY <1>1, ConcatIs, Zenon
<1> HIDE DEF name, whole
<1>4. EntryReadsBack("dict", whole, <<key, value>>)
  BY <1>2, ZenonT(40) DEF EntryReadsBack, ElementAt, EntryAt
<1> QED  BY <1>3, <1>4 DEF whole, name

LEMMA MakesReadsBack ==
  ASSUME NEW bytes, NEW value, NEW made, Makes(bytes, value, made),
         \A part \in made : part.bytes \in Seq(Bytes) /\ ReadsBack(part.bytes, part.value)
  PROVE  bytes \in Seq(Bytes) /\ ReadsBack(bytes, value)
<1> DEFINE val    == value.val
           values == {part.value : part \in made}
           plain(parts) == [i \in DOMAIN val |-> parts[i].bytes]
           keyed(parts) == [i \in DOMAIN val |-> EncodeBytes(val[i][1]) \o parts[i].bytes]
           list == <<"l">>
           dict == <<"d">>
           last == <<"e">>
<1>0. value = [kind |-> value.kind, val |-> val]
  BY Zenon DEF Makes
<1> HIDE DEF val, values
<1>1. ASSUME value.kind = "int", val \in Int, bytes = <<"i">> \o Decimal(val) \o <<"e">>
      PROVE  bytes \in Seq(Bytes) /\ ReadsBack(bytes, value)
  <2>1. value = Number(val)
    BY <1>0, <1>1, Zenon DEF Number
  <2> QED  BY <1>1, <2>1, IntegersReadBack, Zenon
<1>2. ASSUME value.kind = "str", val \in Seq(Bytes), bytes = EncodeBytes(val)
      PROVE  bytes \in Seq(Bytes) /\ ReadsBack(bytes, value)
  <2>1. value = Str(val)
    BY <1>0, <1>2, Zenon DEF Str
  <2> QED  BY <1>2, <2>1, StringsReadBack, Zenon
<1>3. ASSUME value.kind = "list", val \in Seq(values),
             NEW parts \in [DOMAIN val -> made],
             \A i \in DOMAIN val : parts[i].value = val[i],
             bytes = list \o FlattenSeq(plain(parts)) \o last
      PROVE  bytes \in Seq(Bytes) /\ ReadsBack(bytes, value)
  <2> DEFINE B == plain(parts)
  <2>1. DOMAIN val = 1 .. Len(val) /\ Len(val) \in Nat
        /\ \A i \in 1 .. Len(val) : parts[i] \in made
    BY <1>3
  <2>2. B \in Seq(Seq(Bytes)) /\ Len(B) = Len(val)
    <3>1. B = [i \in 1 .. Len(val) |-> parts[i].bytes]
      BY <2>1
    <3>2. \A i \in 1 .. Len(val) : parts[i].bytes \in Seq(Bytes)
      BY <2>1
    <3> HIDE DEF B
    <3> QED  BY <2>1, <3>1, <3>2
  <2>3. ASSUME NEW i \in 1 .. Len(val) PROVE EntryReadsBack("list", B[i], val[i])
    <3>1. i \in DOMAIN val /\ parts[i] \in made
      BY <2>1
    <3>2. B[i] = parts[i].bytes /\ val[i] = parts[i].value
      BY <1>3, <3>1
    <3>3. parts[i].bytes \in Seq(Bytes) /\ ReadsBack(parts[i].bytes, parts[i].value)
      BY <3>1
    <3>4. EntryReadsBack("list", parts[i].bytes, parts[i].value)
      BY <3>3, ElementReadsBack
    <3> QED  BY <3>2, <3>4, Zenon
  <2> HIDE DEF B
  <2> DEFINE whole == <<"l">> \o FlattenSeq(B) \o <<"e">>
  <2>4. whole \in Seq(Bytes) /\ ReadsBack(whole, [kind |-> "list", val |-> val])
    BY <1>3, <2>2, <2>3, ListsReadBack
  <2>5. bytes = whole
    BY <1>3, Zenon DEF B
  <2>6. value = [kind |-> "list", val |-> val]
    BY <1>0, <1>3, Zenon
  <2> QED  BY <2>4, <2>5, <2>6, Zenon
<1>4. ASSUME value.kind = "dict", val \in Seq(Seq(Bytes) \X values),
             NEW parts \in [DOMAIN val -> made],
             \A i \in DOMAIN val : parts[i].value = val[i][2],
             bytes = dict \o FlattenSeq(keyed(parts)) \o last
      PROVE  bytes \in Seq(Bytes) /\ ReadsBack(bytes, value)
  <2> DEFINE B == keyed(parts)
             b(i) == EncodeBytes(val[i][1]) \o parts[i].bytes
  <2>1. DOMAIN val = 1 .. Len(val) /\ Len(val) \in Nat
        /\ \A i \in 1 .. Len(val) : parts[i] \in made /\ val[i] \in Seq(Bytes) \X values
    BY <1>3, <1>4
  <2>2. ASSUME NEW i \in 1 .. Len(val)
        PROVE  b(i) \in Seq(Bytes) /\ EntryReadsBack("dict", b(i), val[i])
    <3>1. /\ val[i][1] \in Seq(Bytes) /\ parts[i].bytes \in Seq(Bytes)
          /\ ReadsBack(parts[i].bytes, parts[i].value)
      BY <2>1
    <3>2. EntryReadsBack("dict", b(i), <<val[i][1], parts[i].value>>) /\ b(i) \in Seq(Bytes)
      BY <3>1, KeyedReadsBack
    <3>3. parts[i].value = val[i][2]
      BY <1>4, <2>1
    <3>4. val[i] = <<val[i][1], val[i][2]>>
      BY <2>1
    <3> HIDE DEF b
    <3> QED  BY <3>2, <3>3, <3>4, Zenon
  <2>3. B = [i \in 1 .. Len(val) |-> b(i)]
    BY <2>1, Zenon
  <2> HIDE DEF B, b
  <2>4. B \in Seq(Seq(Bytes)) /\ Len(B) = Len(val) /\ \A i \in 1 .. Len(val) : B[i] = b(i)
    BY <2>1, <2>2, <2>3
  <2>5. \A i \in 1 .. Len(val) : EntryReadsBack("dict", B[i], val[i])
    BY <2>2, <2>4, Zenon
  <2> DEFINE whole == <<"d">> \o FlattenSeq(B) \o <<"e">>
  <2>6. whole \in Seq(Bytes) /\ ReadsBack(whole, [kind |-> "dict", val |-> val])
    BY <1>4, <2>4, <2>5, DictsReadBack
  <2>7. bytes = whole
    BY <1>4, Zenon DEF B
  <2>8. value = [kind |-> "dict", val |-> val]
    BY <1>0, <1>4, Zenon
  <2> QED  BY <2>6, <2>7, <2>8, Zenon
<1> HIDE DEF plain, keyed
<1>5. \/ value.kind = "int" /\ val \in Int /\ bytes = <<"i">> \o Decimal(val) \o <<"e">>
      \/ value.kind = "str" /\ val \in Seq(Bytes) /\ bytes = EncodeBytes(val)
      \/ /\ value.kind = "list" /\ val \in Seq(values)
         /\ \E parts \in [DOMAIN val -> made] :
              /\ \A i \in DOMAIN val : parts[i].value = val[i]
              /\ bytes = list \o FlattenSeq(plain(parts)) \o last
      \/ /\ value.kind = "dict" /\ val \in Seq(Seq(Bytes) \X values)
         /\ \E parts \in [DOMAIN val -> made] :
              /\ \A i \in DOMAIN val : parts[i].value = val[i][2]
              /\ bytes = dict \o FlattenSeq(keyed(parts)) \o last
  BY Zenon DEF Makes, plain, keyed, val, values
<1> QED  BY <1>1, <1>2, <1>3, <1>4, <1>5, Zenon

-----------------------------------------------------------------------------
(* What ser.rs writes.                                                     *)

(* ser.rs has written `bytes` of `value`, part by part, from its innermost *)
(* parts on: each is made of some that were written before it.             *)
IsWritten(bytes, value) ==
  \E n \in Nat : \E made :
    /\ \A k \in 1 .. n : Makes(made[k].bytes, made[k].value, {made[j] : j \in 1 .. k - 1})
    /\ Makes(bytes, value, {made[j] : j \in 1 .. n})

LEMMA WrittenReadsBack ==
  ASSUME NEW bytes, NEW value, IsWritten(bytes, value)
  PROVE  bytes \in Seq(Bytes) /\ ReadsBack(bytes, value)
<1>1. PICK n \in Nat : \E made :
        /\ \A k \in 1 .. n : Makes(made[k].bytes, made[k].value, {made[j] : j \in 1 .. k - 1})
        /\ Makes(bytes, value, {made[j] : j \in 1 .. n})
  BY Zenon DEF IsWritten
<1>2. PICK made :
        /\ \A k \in 1 .. n : Makes(made[k].bytes, made[k].value, {made[j] : j \in 1 .. k - 1})
        /\ Makes(bytes, value, {made[j] : j \in 1 .. n})
  BY <1>1, Zenon
<1> DEFINE Good(k) == made[k].bytes \in Seq(Bytes) /\ ReadsBack(made[k].bytes, made[k].value)
           S == {k \in Nat : k \in 1 .. n => Good(k)}
           Before(k) == {made[j] : j \in 1 .. k}
<1>3. ASSUME NEW k \in Nat, \A j \in 1 .. k : Good(j)
      PROVE  \A part \in Before(k) :
               part.bytes \in Seq(Bytes) /\ ReadsBack(part.bytes, part.value)
  BY <1>3, Zenon
<1>4. ASSUME NEW m \in Nat, \A k \in 0 .. m - 1 : k \in S
      PROVE  m \in S
  <2> SUFFICES ASSUME m \in 1 .. n PROVE Good(m)
    OBVIOUS
  <2>1. m - 1 \in Nat
    OBVIOUS
  <2>2. ASSUME NEW j \in 1 .. m - 1 PROVE Good(j)
    <3>1. j \in 0 .. m - 1 /\ j \in 1 .. n
      OBVIOUS
    <3> HIDE DEF Good
    <3> QED  BY <1>4, <3>1
  <2>3. \A part \in Before(m - 1) :
               part.bytes \in Seq(Bytes) /\ ReadsBack(part.bytes, part.value)
    BY <1>3, <2>1, <2>2, Zenon
  <2>4. Makes(made[m].bytes, made[m].value, Before(m - 1))
    BY <1>2, Zenon
  <2> HIDE DEF Before
  <2> QED  BY <2>3, <2>4, MakesReadsBack
<1>5. \A k \in Nat : k \in S
  <2> HIDE DEF S
  <2> QED  BY <1>4, Upward
<1>6. \A j \in 1 .. n : Good(j)
  <2> HIDE DEF Good
  <2> QED  BY <1>5
<1>7. \A part \in Before(n) : part.bytes \in Seq(Bytes) /\ ReadsBack(part.bytes, part.value)
  BY <1>3, <1>6, Zenon
<1>8. Makes(bytes, value, Before(n))
  BY <1>2, Zenon
<1> HIDE DEF Before
<1> QED  BY <1>7, <1>8, MakesReadsBack

LEMMA StandsAlone ==
  ASSUME NEW bytes \in Seq(Bytes)
  PROVE  1 \in 1 .. Len(bytes) + 1 /\ Stands(bytes, 1, bytes)
  BY DEF Stands

(* Whatever ser.rs writes, of any size and any nesting, de.rs reads back   *)
(* as it was, and to its end: a list or a map of what is read back wherever*)
(* it stands is read back too (MakesReadsBack), so the proof goes along the*)
(* order things were written in.                                           *)
THEOREM WrittenIsReadBack ==
  ASSUME NEW bytes, NEW value, IsWritten(bytes, value)
  PROVE  bytes \in Seq(Bytes) /\ Decode(bytes, 1) = Reads(Len(bytes) + 1, value)
<1>1. bytes \in Seq(Bytes) /\ ReadsBack(bytes, value)
  BY WrittenReadsBack
<1>2. 1 \in 1 .. Len(bytes) + 1 /\ Stands(bytes, 1, bytes)
  BY <1>1, StandsAlone
<1>3. Decode(bytes, 1) = Reads(1 + Len(bytes), value)
  BY <1>1, <1>2, Zenon DEF ReadsBack
<1>4. 1 + Len(bytes) = Len(bytes) + 1
  BY <1>1
<1> QED  BY <1>1, <1>3, <1>4, Zenon

IsFirstInfo(entries, m) ==
  /\ m \in 1 .. Len(entries) /\ entries[m][1] = <<"i">>
  /\ \A i \in 1 .. m - 1 : entries[i][1] # <<"i">>

IsBehind(behind, input) ==
  \A at \in 1 .. Len(input) + 1 : behind[at] = InfoStep(input, behind, at)

(* The walk over a dictionary's entries goes from each that is not called  *)
(* `info` to the next, and stops behind the name of the first that is.     *)
LEMMA InfoReached ==
  ASSUME NEW input \in Seq(Bytes), NEW T, NEW entries \in Seq(T), NEW place,
         EntriesFollow(input, "dict", entries, place),
         NEW behind, IsBehind(behind, input),
         NEW m, IsFirstInfo(entries, m)
  PROVE  behind[place[1]] = ReadBytes(input, place[m]).at
<1> DEFINE n == Len(entries)
           found == ReadBytes(input, place[m]).at
           S == {i \in Nat : behind[place[i]] = found}
<1>0. /\ m \in 1 .. Len(entries) /\ entries[m][1] = <<"i">>
      /\ \A i \in 1 .. m - 1 : entries[i][1] # <<"i">>
      /\ \A at \in 1 .. Len(input) + 1 : behind[at] = InfoStep(input, behind, at)
  BY DEF IsFirstInfo, IsBehind
<1>n. n \in Nat /\ m \in Nat /\ m >= 1 /\ m <= n /\ Len(input) \in Nat
  BY <1>0
<1>1. ASSUME NEW i \in 1 .. n
      PROVE  /\ place[i] \in 1 .. Len(input)
             /\ ReadBytes(input, place[i]).ok
             /\ Decode(input, ReadBytes(input, place[i]).at).ok
             /\ Decode(input, ReadBytes(input, place[i]).at).at = place[i + 1]
             /\ entries[i][1] = ReadBytes(input, place[i]).val
  <2>1. i \in 1 .. Len(entries) + 1
    BY <1>n
  <2>2. /\ place[i] \in 1 .. Len(input)
        /\ ReadBytes(input, place[i]).ok
        /\ Decode(input, ElementAt(input, "dict", place[i])).ok
        /\ Decode(input, ElementAt(input, "dict", place[i])).at = place[i + 1]
        /\ EntryAt(input, "dict", place[i]) = entries[i]
    BY <2>1, Zenon DEF EntriesFollow
  <2>3. ElementAt(input, "dict", place[i]) = ReadBytes(input, place[i]).at
    BY DEF ElementAt
  <2>4. EntryAt(input, "dict", place[i]) =
          <<ReadBytes(input, place[i]).val, Decode(input, ReadBytes(input, place[i]).at).val>>
    BY DEF EntryAt
  <2>5. entries[i][1] = ReadBytes(input, place[i]).val
    <3> DEFINE a == ReadBytes(input, place[i]).val
               b == Decode(input, ReadBytes(input, place[i]).at).val
    <3>1. entries[i] = <<a, b>>
      BY <2>2, <2>4, Zenon
    <3> HIDE DEF a, b
    <3>2. entries[i][1] = a
      BY <3>1
    <3> QED  BY <3>2 DEF a
  <2> QED  BY <2>2, <2>3, <2>5, Zenon
<1> HIDE DEF n
<1>2. ASSUME NEW i \in 1 .. m, \A k \in i + 1 .. m : k \in S
      PROVE  i \in S
  <2> DEFINE p == place[i]
  <2>0. i \in 1 .. n /\ i \in Nat
    BY <1>n
  <2>1. /\ p \in 1 .. Len(input) + 1 /\ ReadBytes(input, p).ok
        /\ Decode(input, ReadBytes(input, p).at).ok
        /\ Decode(input, ReadBytes(input, p).at).at = place[i + 1]
        /\ entries[i][1] = ReadBytes(input, p).val
    BY <1>1, <1>n, <2>0
  <2>2. CASE i = m
    <3>1. ReadBytes(input, p).val = <<"i">>
      BY <1>0, <2>1, <2>2
    <3> HIDE DEF p
    <3>2. behind[p] = InfoStep(input, behind, p)
      BY <1>0, <2>1
    <3>3. behind[p] = ReadBytes(input, p).at
      BY <2>1, <3>1, <3>2, Zenon DEF InfoStep
    <3> QED  BY <2>0, <2>2, <3>3 DEF p
  <2>3. CASE i # m
    <3>1. i \in 1 .. m - 1 /\ i + 1 \in i + 1 .. m
      BY <1>n, <2>3
    <3>2. ReadBytes(input, p).val # <<"i">>
      BY <1>0, <2>1, <3>1
    <3>3. behind[place[i + 1]] = found
      BY <1>2, <3>1
    <3> HIDE DEF p, found
    <3>4. behind[p] = InfoStep(input, behind, p)
      BY <1>0, <2>1
    <3>5. behind[p] = behind[place[i + 1]]
      BY <2>1, <3>2, <3>4, Zenon DEF InfoStep
    <3> QED  BY <2>0, <3>3, <3>5 DEF p
  <2> QED  BY <2>2, <2>3
<1>3. \A i \in 1 .. m : i \in S
  <2> HIDE DEF S
  <2> QED  BY <1>n, <1>2, Downward
<1>4. 1 \in 1 .. m
  BY <1>n
<1> QED  BY <1>3, <1>4

(* ser.rs has written `bytes` of a dictionary's entries, and `written` of  *)
(* the value of each.                                                      *)
WrittenEntries(bytes, entries, written) ==
  /\ \A i \in DOMAIN entries : IsWritten(written[i], entries[i][2])
  /\ bytes = <<"d">> \o FlattenSeq([i \in DOMAIN entries |->
                           EncodeBytes(entries[i][1]) \o written[i]]) \o <<"e">>

LEMMA OnceIs ==
  ASSUME NEW entries, IsTorrent(Dict(entries)), NEW i \in DOMAIN entries, NEW j \in DOMAIN entries,
         entries[i][1] = <<"i">>, entries[j][1] = <<"i">>
  PROVE  i = j
<1>1. Dict(entries).val = entries
  BY DEF Dict
<1>2. i \in Field(Dict(entries), <<"i">>) /\ j \in Field(Dict(entries), <<"i">>)
  BY <1>1, Zenon DEF Field
<1>3. Once(Dict(entries), {<<"i">>, <<"a">>, <<"l">>, <<"c">>})
  BY DEF IsTorrent
<1>4. <<"i">> \in {<<"i">>, <<"a">>, <<"l">>, <<"c">>}
  OBVIOUS
<1> QED  BY <1>2, <1>3, <1>4, Zenon DEF Once

(* The info_hash of a file ser.rs wrote is taken over the very bytes its   *)
(* `info` was written as, wherever that stands among the file's entries    *)
(* and whatever the others hold.  What IsTorrent asks of the entries, a    *)
(* creation date among them, is all that loading the file takes: it parses *)
(* to those entries, and the second reading of `info` succeeds.            *)
THEOREM HashIsOfWrittenInfo ==
  ASSUME NEW T, NEW entries \in Seq(Seq(Bytes) \X T), NEW written, NEW bytes,
         WrittenEntries(bytes, entries, written), IsTorrent(Dict(entries)),
         NEW m \in DOMAIN entries, entries[m][1] = <<"i">>
  PROVE  /\ ParsesAsTorrent(bytes) /\ Torrent(bytes) = Dict(entries)
         /\ RawInfo(bytes).ok /\ info_bytes(bytes) = written[m]
<1> DEFINE n == Len(entries)
           part(i) == EncodeBytes(entries[i][1]) \o written[i]
           parts == [i \in DOMAIN entries |-> part(i)]
           middle == FlattenSeq(parts)
           U == Seq(Bytes) \X T
<1>n. DOMAIN entries = 1 .. n /\ n \in Nat /\ m \in 1 .. n
      /\ \A i \in 1 .. n : entries[i] \in U
  OBVIOUS
<1>1. ASSUME NEW i \in 1 .. n
      PROVE  /\ entries[i][1] \in Seq(Bytes) /\ written[i] \in Seq(Bytes)
             /\ ReadsBack(written[i], entries[i][2])
             /\ part(i) \in Seq(Bytes) /\ EntryReadsBack("dict", part(i), entries[i])
  <2>1. entries[i][1] \in Seq(Bytes) /\ entries[i] = <<entries[i][1], entries[i][2]>>
    BY <1>n
  <2>2. IsWritten(written[i], entries[i][2])
    BY <1>n DEF WrittenEntries
  <2>3. written[i] \in Seq(Bytes) /\ ReadsBack(written[i], entries[i][2])
    BY <2>2, WrittenReadsBack
  <2>4. part(i) \in Seq(Bytes)
        /\ EntryReadsBack("dict", part(i), <<entries[i][1], entries[i][2]>>)
    BY <2>1, <2>3, KeyedReadsBack
  <2> HIDE DEF part
  <2> QED  BY <2>1, <2>3, <2>4, Zenon
<1>2. bytes = <<"d">> \o middle \o <<"e">>
  BY Zenon DEF WrittenEntries
<1>3. parts = [i \in 1 .. n |-> part(i)]
  BY <1>n, Zenon
<1> HIDE DEF parts, part
<1>4. parts \in Seq(Seq(Bytes)) /\ Len(parts) = n /\ \A i \in 1 .. n : parts[i] = part(i)
  BY <1>1, <1>3, <1>n
<1>5. \A i \in 1 .. Len(entries) : EntryReadsBack("dict", parts[i], entries[i])
  BY <1>1, <1>4, Zenon
<1>6. middle \in Seq(Bytes)
  BY <1>4, FlattenBytes
<1> DEFINE whole == <<"d">> \o middle \o <<"e">>
<1>7. Encloses(whole, "d", middle)
  <2> HIDE DEF middle
  <2>1. "d" \in {"l", "d"}
    OBVIOUS
  <2> QED  BY <1>6, <2>1, BetweenEnds
<1>8. Encloses(bytes, "d", FlattenSeq(parts))
  BY <1>2, <1>7, Zenon
<1>9. bytes \in Seq(Bytes)
  BY <1>8 DEF Encloses
<1>10. 1 \in 1 .. Len(bytes) + 1 /\ Stands(bytes, 1, bytes)
  BY <1>9, StandsAlone
<1>11. Decode(bytes, 1) = Reads(Len(bytes) + 1, Dict(entries))
  <2>1. Len(parts) = Len(entries)
    BY <1>4
  <2>2. ReadsBack(whole, [kind |-> "dict", val |-> entries])
    <3> HIDE DEF n
    <3> QED  BY <1>4, <1>5, <2>1, DictsReadBack
  <2>3. ReadsBack(bytes, Dict(entries))
    BY <1>2, <2>2, Zenon DEF Dict
  <2>4. Decode(bytes, 1) = Reads(1 + Len(bytes), Dict(entries))
    BY <1>9, <1>10, <2>3, Zenon DEF ReadsBack
  <2>5. 1 + Len(bytes) = Len(bytes) + 1
    BY <1>9
  <2> QED  BY <2>4, <2>5, Zenon
<1>12. ParsesAsTorrent(bytes) /\ Torrent(bytes) = Dict(entries)
  <2> DEFINE r == Decode(bytes, 1)
  <2>1. r = Reads(Len(bytes) + 1, Dict(entries))
    BY <1>11
  <2> HIDE DEF r
  <2>2. r.ok /\ r.at = Len(bytes) + 1 /\ r.val = Dict(entries)
    BY <2>1, ReadsIs
  <2> QED  BY <2>2, Zenon DEF r, ParsesAsTorrent, Torrent
<1>13. PICK place : ReadAt(bytes, 1, bytes, "dict", entries, parts, place)
  <2>1. "dict" \in {"list", "dict"} /\ "d" = IF "dict" = "list" THEN "l" ELSE "d"
    OBVIOUS
  <2>2. Len(parts) = Len(entries)
    BY <1>4
  <2> HIDE DEF n
  <2> QED  BY <1>4, <1>5, <1>8, <1>9, <1>10, <2>1, <2>2, EntriesStand
<1>14. PICK behind :
         /\ \A at \in 1 .. Len(bytes) + 1 : behind[at] = InfoStep(bytes, behind, at)
         /\ InfoBehind(bytes) = behind[2]
  BY <1>9, InfoUnfolds
<1> DEFINE start == place[m]
           from  == ReadBytes(bytes, start).at
<1>15. InfoBehind(bytes) = from
  <2>1. place[1] = 2
    BY <1>13 DEF ReadAt
  <2>2. \A i \in 1 .. m - 1 : entries[i][1] # <<"i">>
    <3>1. ASSUME NEW i \in 1 .. m - 1, entries[i][1] = <<"i">> PROVE FALSE
      <4>1. i \in DOMAIN entries /\ i # m
        BY <1>n
      <4> QED  BY <3>1, <4>1, OnceIs
    <3> QED  BY <3>1
  <2>3. EntriesFollow(bytes, "dict", entries, place)
    BY <1>13 DEF ReadAt
  <2>4. IsBehind(behind, bytes)
    BY <1>14, Zenon DEF IsBehind
  <2>5. IsFirstInfo(entries, m)
    BY <1>n, <2>2 DEF IsFirstInfo
  <2>6. behind[place[1]] = from
    <3> HIDE DEF n, U
    <3> QED  BY <1>9, <2>3, <2>4, <2>5, InfoReached
  <2> QED  BY <1>14, <2>1, <2>6, Zenon
<1> DEFINE name == EncodeBytes(entries[m][1])
<1>16. name \in Seq(Bytes) /\ Len(name) \in Nat
  BY <1>1, <1>n, EncodedAre
<1>17. /\ start \in 1 .. Len(bytes) /\ Stands(bytes, start, name \o written[m])
  <2>1. Stands(bytes, place[m], parts[m]) /\ place[m] \in 1 .. Len(bytes)
    <3>1. m \in 1 .. Len(entries) /\ m \in 1 .. Len(entries) + 1
      BY <1>n
    <3> QED  BY <1>13, <3>1, Zenon DEF ReadAt, EntriesFollow
  <2> QED  BY <1>4, <1>n, <2>1, Zenon DEF part
<1>18. Stands(bytes, start, name) /\ Stands(bytes, start + Len(name), written[m])
  <2>1. written[m] \in Seq(Bytes) /\ Len(bytes) \in Nat /\ start \in Nat
    BY <1>1, <1>9, <1>17, <1>n
  <2> HIDE DEF name, start
  <2> QED  BY <1>16, <1>17, <2>1, StandsApart
<1>19. from = start + Len(name)
  <2>1. start \in 1 .. Len(bytes) + 1 /\ entries[m][1] \in Seq(Bytes)
    <3> HIDE DEF start, part
    <3>1. entries[m][1] \in Seq(Bytes)
      BY <1>1, <1>n, Zenon
    <3>2. Len(bytes) \in Nat /\ start \in 1 .. Len(bytes)
      BY <1>9, <1>17
    <3> QED  BY <3>1, <3>2
  <2> HIDE DEF start
  <2>2. ReadBytes(bytes, start) = Reads(start + Len(name), entries[m][1])
    BY <1>9, <1>18, <2>1, BytesReadBack
  <2> QED  BY <2>2, ReadsIs
<1> HIDE DEF start, name, from
<1>20. /\ from \in 1 .. Len(bytes) + 1 /\ from \in Nat \ {0}
       /\ Stands(bytes, from, written[m])
       /\ written[m] \in Seq(Bytes) /\ Len(written[m]) \in Nat
  <2>1. written[m] \in Seq(Bytes) /\ Len(written[m]) \in Nat /\ Len(bytes) \in Nat
    BY <1>1, <1>9, <1>n
  <2>2. Stands(bytes, from, written[m]) /\ from \in Nat /\ from >= 1
    BY <1>16, <1>17, <1>18, <1>19
  <2> QED  BY <2>1, <2>2 DEF Stands
<1>21. Decode(bytes, from) = Reads(from + Len(written[m]), entries[m][2])
  BY <1>1, <1>9, <1>20, <1>n DEF ReadsBack
<1>22. Decode(bytes, from).ok /\ Decode(bytes, from).at = from + Len(written[m])
  BY <1>21, ReadsIs
<1>23. RawInfo(bytes).ok /\ RawInfo(bytes).at = from + Len(written[m])
  <2>1. Skip(bytes, from).ok /\ Skip(bytes, from).at = Decode(bytes, from).at
    BY <1>9, <1>20, <1>22, SkipEndsWhereDecodeEnds
  <2> QED  BY <1>15, <1>22, <2>1, Zenon DEF RawInfo
<1>24. info_bytes(bytes) = SubSeq(bytes, from, from + Len(written[m]) - 1)
  <2> DEFINE end == from + Len(written[m])
  <2>1. info_bytes(bytes) = SubSeq(bytes, InfoBehind(bytes), RawInfo(bytes).at - 1)
    BY DEF info_bytes
  <2>2. RawInfo(bytes).at = end
    BY <1>23
  <2> HIDE DEF end
  <2>3. info_bytes(bytes) = SubSeq(bytes, from, end - 1)
    BY <1>15, <2>1, <2>2, Zenon
  <2>4. end - 1 = from + Len(written[m]) - 1
    BY <1>20 DEF end
  <2> QED  BY <2>3, <2>4, Zenon
<1>25. SubSeq(bytes, from, from + Len(written[m]) - 1) = written[m]
  BY <1>9, <1>20, StandsWhole
<1> QED  BY <1>12, <1>23, <1>24, <1>25, Zenon

-----------------------------------------------------------------------------
(* The announce URLs.                                                      *)

(* What is kept of the URLs up to each.                                    *)
LEMMA KeptUnfolds ==
  ASSUME NEW torrent, NEW T, Mentioned(torrent) \in Seq(T)
  PROVE  LET named == Mentioned(torrent) IN
         \E kept :
           /\ kept[0] = <<>>
           /\ \A i \in 1 .. Len(named) :
                kept[i] = IF named[i] \in ToSet(kept[i - 1]) THEN kept[i - 1]
                          ELSE Append(kept[i - 1], named[i])
           /\ announce_urls(torrent) = kept[Len(named)]
<1> DEFINE named == Mentioned(torrent)
           n == Len(named)
           Step(g, i) == IF i = 0 THEN <<>>
                         ELSE IF named[i] \in ToSet(g[i - 1]) THEN g[i - 1]
                         ELSE Append(g[i - 1], named[i])
           Keeps(g, m) == g = [i \in 0 .. m |-> Step(g, i)]
           S == {m \in Nat : \E g : Keeps(g, m)}
<1>n. n \in Nat
  OBVIOUS
<1>0. \A g, h, i : g[i - 1] = h[i - 1] => Step(g, i) = Step(h, i)
  OBVIOUS
<1>z. \A g, h : Step(g, 0) = Step(h, 0)
  OBVIOUS
<1> DEFINE Known(g, i) == Step(g, i)
<1> HIDE DEF n, Step
<1>1. ASSUME NEW m \in Nat, \A k \in 0 .. m - 1 : k \in S
      PROVE  \E g : Keeps(g, m)
  <2>1. CASE m = 0
    <3> DEFINE g == [i \in 0 .. 0 |-> Step(<<>>, 0)]
    <3>1. g = [i \in 0 .. 0 |-> Step(g, i)]
      <4>1. \A i \in 0 .. 0 : Step(g, i) = Step(<<>>, 0)
        <5>1. \A i \in 0 .. 0 : i = 0
          OBVIOUS
        <5> HIDE DEF g
        <5> QED  BY <1>z, <5>1
      <4>2. g = [i \in 0 .. 0 |-> g[i]] /\ \A i \in 0 .. 0 : g[i] = Step(<<>>, 0)
        OBVIOUS
      <4> HIDE DEF g
      <4> QED  BY <4>1, <4>2
    <3> QED  BY <2>1, <3>1
  <2>2. CASE m # 0
    <3>1. m - 1 \in S
      <4>1. m - 1 \in 0 .. m - 1
        BY <2>2
      <4> HIDE DEF S
      <4> QED  BY <1>1, <4>1
    <3>2. PICK g : Keeps(g, m - 1)
      BY <3>1
    <3> DEFINE h == [i \in 0 .. m |-> IF i = m THEN Step(g, m) ELSE g[i]]
    <3>h. h = [i \in 0 .. m |-> h[i]] /\ h[m] = Step(g, m)
          /\ \A i \in 0 .. m - 1 : h[i] = g[i]
      OBVIOUS
    <3> HIDE DEF h
    <3>3. ASSUME NEW i \in 0 .. m PROVE Step(h, i) = Step(g, i)
      <4>1. CASE i = 0
        BY <1>z, <4>1
      <4>2. CASE i # 0
        <5>1. i - 1 \in 0 .. m - 1
          BY <4>2
        <5> QED  BY <1>0, <3>h, <5>1, ZenonT(40)
      <4> QED  BY <4>1, <4>2
    <3>4. ASSUME NEW i \in 0 .. m PROVE h[i] = Step(h, i)
      <4>1. CASE i = m
        BY <3>h, <3>3, <4>1
      <4>2. CASE i # m
        <5>1. i \in 0 .. m - 1
          BY <4>2
        <5>2. g[i] = Step(g, i)
          BY <3>2, <5>1
        <5> QED  BY <3>h, <3>3, <5>1, <5>2
      <4> QED  BY <4>1, <4>2
    <3>5. Keeps(h, m)
      BY <3>h, <3>4
    <3> QED
      <4> HIDE DEF Keeps
      <4> QED  BY <3>5
  <2> QED  BY <2>1, <2>2
<1>2. \A m \in Nat : m \in S
  <2>1. \A m \in Nat : (\A k \in 0 .. m - 1 : k \in S) => m \in S
    <3> HIDE DEF Keeps
    <3> QED  BY <1>1
  <2> HIDE DEF S
  <2> QED  BY <2>1, Upward
<1>3. \E g : Keeps(g, n)
  <2> HIDE DEF Keeps
  <2> QED  BY <1>n, <1>2
<1> DEFINE kept == CHOOSE g : Keeps(g, n)
<1>4. kept = [i \in 0 .. n |-> Step(kept, i)]
  BY <1>3
<1>5. announce_urls(torrent) = kept[n]
  BY Zenon DEF announce_urls, Step, n
<1> HIDE DEF kept
<1>6. \A i \in 0 .. n : kept[i] = Step(kept, i)
  BY <1>4, Zenon
<1>7. kept[0] = <<>>
  <2>1. 0 \in 0 .. n
    BY <1>n
  <2> QED  BY <1>6, <2>1 DEF Step
<1>8. ASSUME NEW i \in 1 .. n
      PROVE  kept[i] = IF named[i] \in ToSet(kept[i - 1]) THEN kept[i - 1]
                       ELSE Append(kept[i - 1], named[i])
  <2>1. i \in 0 .. n /\ i # 0
    BY <1>n
  <2> QED  BY <1>6, <2>1, Zenon DEF Step
<1> QED  BY <1>5, <1>7, <1>8 DEF n

(* `before` has every one of the first i of `named`, once, in the order they *)
(* are first mentioned in.                                                 *)
FirstMentions(before, named, i) ==
  /\ \A a \in 1 .. Len(before) : \E k \in 1 .. i : named[k] = before[a]
  /\ \A k \in 1 .. i : \E a \in 1 .. Len(before) : before[a] = named[k]
  /\ \A a, b \in 1 .. Len(before) : a < b =>
       \E k \in 1 .. i : named[k] = before[a] /\ \A l \in 1 .. k : named[l] # before[b]

LEMMA OneMoreMention ==
  ASSUME NEW T, NEW named \in Seq(T), NEW before \in Seq(T), NEW i \in 1 .. Len(named),
         FirstMentions(before, named, i - 1)
  PROVE  LET kept == IF named[i] \in ToSet(before) THEN before ELSE Append(before, named[i]) IN
         kept \in Seq(T) /\ FirstMentions(kept, named, i)
<1>0. i \in Nat /\ i >= 1 /\ Len(before) \in Nat /\ DOMAIN before = 1 .. Len(before)
  OBVIOUS
<1>1. CASE named[i] \in ToSet(before)
  <2>1. PICK c \in 1 .. Len(before) : before[c] = named[i]
    BY <1>0, <1>1 DEF ToSet
  <2>2. \A k \in 1 .. i : k = i \/ k \in 1 .. i - 1
    BY <1>0
  <2>3. \A k \in 1 .. i - 1 : k \in 1 .. i
    BY <1>0
  <2>4. FirstMentions(before, named, i)
    <3>1. \A a \in 1 .. Len(before) : \E k \in 1 .. i : named[k] = before[a]
      BY <2>3 DEF FirstMentions
    <3>2. \A k \in 1 .. i : \E a \in 1 .. Len(before) : before[a] = named[k]
      BY <2>1, <2>2 DEF FirstMentions
    <3>3. \A a, b \in 1 .. Len(before) : a < b =>
            \E k \in 1 .. i : named[k] = before[a] /\ \A l \in 1 .. k : named[l] # before[b]
      BY <2>3 DEF FirstMentions
    <3> QED  BY <3>1, <3>2, <3>3 DEF FirstMentions
  <2> QED  BY <1>1, <2>4
<1>2. CASE named[i] \notin ToSet(before)
  <2> DEFINE kept == Append(before, named[i])
             n    == Len(before)
  <2>0. \A a \in 1 .. n : before[a] # named[i]
    BY <1>0, <1>2 DEF ToSet
  <2>1. /\ kept \in Seq(T) /\ Len(kept) = n + 1 /\ kept[n + 1] = named[i]
        /\ \A a \in 1 .. n : kept[a] = before[a]
    OBVIOUS
  <2>2. \A a \in 1 .. n + 1 : a = n + 1 \/ a \in 1 .. n
    BY <1>0
  <2>3. \A k \in 1 .. i : k = i \/ k \in 1 .. i - 1
    BY <1>0
  <2>4. i \in 1 .. i /\ n + 1 \in 1 .. n + 1 /\ \A k \in 1 .. i - 1 : k \in 1 .. i
    BY <1>0
  <2>4b. \A a \in 1 .. n : a \in 1 .. n + 1
    BY <1>0
  <2> HIDE DEF kept
  <2>5. ASSUME NEW a \in 1 .. n + 1
        PROVE  \E k \in 1 .. i : named[k] = kept[a]
    <3>1. CASE a = n + 1
      <4>1. named[i] = kept[a] /\ i \in 1 .. i
        BY <2>1, <2>4, <3>1
      <4> QED  BY <4>1
    <3>2. CASE a \in 1 .. n
      <4>1. PICK k \in 1 .. i - 1 : named[k] = before[a]
        BY <3>2 DEF FirstMentions
      <4>2. k \in 1 .. i /\ named[k] = kept[a]
        BY <2>1, <2>4, <3>2, <4>1
      <4> QED  BY <4>2
    <3> QED  BY <2>2, <3>1, <3>2
  <2>6. ASSUME NEW k \in 1 .. i
        PROVE  \E a \in 1 .. n + 1 : kept[a] = named[k]
    <3>1. CASE k = i
      BY <2>1, <2>4, <3>1
    <3>2. CASE k \in 1 .. i - 1
      <4>1. PICK a \in 1 .. n : before[a] = named[k]
        BY <3>2 DEF FirstMentions
      <4> QED  BY <2>1, <2>4b, <4>1
    <3> QED  BY <2>3, <3>1, <3>2
  <2>7. ASSUME NEW a \in 1 .. n + 1, NEW b \in 1 .. n + 1, a < b
        PROVE  \E k \in 1 .. i : named[k] = kept[a] /\ \A l \in 1 .. k : named[l] # kept[b]
    <3>1. a \in 1 .. n
      BY <1>0, <2>7
    <3>2. CASE b = n + 1
      <4>1. PICK k \in 1 .. i - 1 : named[k] = before[a]
        BY <3>1 DEF FirstMentions
      <4>2. ASSUME NEW l \in 1 .. k PROVE named[l] # named[i]
        <5>1. l \in 1 .. i - 1
          BY <1>0, <4>1
        <5>2. PICK c \in 1 .. n : before[c] = named[l]
          BY <5>1 DEF FirstMentions
        <5> QED  BY <2>0, <5>2
      <4>3. k \in 1 .. i /\ named[k] = kept[a]
        BY <2>1, <2>4, <3>1, <4>1
      <4> QED  BY <2>1, <3>2, <4>2, <4>3
    <3>3. CASE b \in 1 .. n
      <4>1. PICK k \in 1 .. i - 1 :
              named[k] = before[a] /\ \A l \in 1 .. k : named[l] # before[b]
        BY <2>7, <3>1, <3>3 DEF FirstMentions
      <4>2. k \in 1 .. i /\ kept[a] = before[a] /\ kept[b] = before[b]
        BY <2>1, <2>4, <3>1, <3>3, <4>1
      <4> QED  BY <4>1, <4>2
    <3> QED  BY <2>2, <3>2, <3>3
  <2>8. FirstMentions(kept, named, i)
    BY <2>1, <2>5, <2>6, <2>7 DEF FirstMentions
  <2> QED  BY <1>2, <2>1, <2>8 DEF kept
<1> QED  BY <1>1, <1>2

LEMMA UrlsAreFirstMentions ==
  ASSUME NEW torrent, NEW T, Mentioned(torrent) \in Seq(T)
  PROVE  /\ announce_urls(torrent) \in Seq(T)
         /\ FirstMentions(announce_urls(torrent), Mentioned(torrent), Len(Mentioned(torrent)))
<1> DEFINE named == Mentioned(torrent)
           n == Len(named)
<1>1. PICK kept :
        /\ kept[0] = <<>>
        /\ \A i \in 1 .. n :
             kept[i] = IF named[i] \in ToSet(kept[i - 1]) THEN kept[i - 1]
                       ELSE Append(kept[i - 1], named[i])
        /\ announce_urls(torrent) = kept[n]
  BY KeptUnfolds
<1>n. named \in Seq(T) /\ n \in Nat
  OBVIOUS
<1> HIDE DEF named
<1> DEFINE S == {m \in Nat : m <= n => kept[m] \in Seq(T) /\ FirstMentions(kept[m], named, m)}
<1>2. ASSUME NEW m \in Nat, \A k \in 0 .. m - 1 : k \in S
      PROVE  m \in S
  <2> SUFFICES ASSUME m <= n
               PROVE  kept[m] \in Seq(T) /\ FirstMentions(kept[m], named, m)
    OBVIOUS
  <2>1. CASE m = 0
    <3>0. <<>> \in Seq(T) /\ Len(<<>>) = 0
      OBVIOUS
    <3>1. kept[m] = <<>>
      BY <1>1, <2>1
    <3> QED  BY <2>1, <3>0, <3>1 DEF FirstMentions
  <2>2. CASE m # 0
    <3>1. m - 1 \in 0 .. m - 1 /\ m - 1 <= n /\ m \in 1 .. Len(named)
      BY <1>n, <2>2
    <3>2. kept[m - 1] \in Seq(T) /\ FirstMentions(kept[m - 1], named, m - 1)
      BY <1>2, <3>1
    <3>3. kept[m] = IF named[m] \in ToSet(kept[m - 1]) THEN kept[m - 1]
                    ELSE Append(kept[m - 1], named[m])
      BY <1>1, <3>1
    <3> DEFINE prev == kept[m - 1]
    <3> HIDE DEF prev
    <3>4. prev \in Seq(T) /\ FirstMentions(prev, named, m - 1)
      BY <3>2 DEF prev
    <3>5. LET k == IF named[m] \in ToSet(prev) THEN prev ELSE Append(prev, named[m])
          IN  k \in Seq(T) /\ FirstMentions(k, named, m)
      BY <1>n, <3>1, <3>4, OneMoreMention
    <3> QED  BY <3>3, <3>5 DEF prev
  <2> QED  BY <2>1, <2>2
<1>3. \A m \in Nat : m \in S
  <2> HIDE DEF S
  <2> QED  BY <1>2, Upward
<1> QED  BY <1>n, <1>1, <1>3 DEF named

(* In a file that parses, the second reading of `info`, the one that       *)
(* skips, succeeds, and Raw<Info> has the bytes the first one decoded.     *)
LEMMA InfoBytesAre ==
  ASSUME NEW input \in Seq(Bytes), ParsesAsTorrent(input)
  PROVE  LET at == InfoBehind(input) IN
         /\ RawInfo(input).ok
         /\ info_bytes(input) = SubSeq(input, at, Decode(input, at).at - 1)
<1> DEFINE at == InfoBehind(input)
<1>1. at \in 1 .. Len(input) + 1 /\ Decode(input, at).ok
  BY InfoFound
<1> HIDE DEF at
<1>2. Skip(input, at).ok /\ Skip(input, at).at = Decode(input, at).at
  BY <1>1, SkipEndsWhereDecodeEnds
<1> QED  BY <1>2 DEF info_bytes, RawInfo, at

-----------------------------------------------------------------------------
(* From the file to the announce loop.                                     *)

(* Until the trackers are spawned the loop rests, with none of them.       *)
Quiet == Init /\ DOMAIN due = {}

LoadInv ==
  /\ stage \in {"reading", "loaded", "failed", "spawned"}
  /\ stage # "spawned" => file \in Files /\ Quiet
  /\ stage = "loaded" => \A i \in DOMAIN urls : UrlOf(urls[i]) \in Trackers
  /\ HashCoversInfo
  /\ TrackersInOrder
  /\ LoopInv

LEMMA InitLoadInv == LoadInit => LoadInv
  BY InitLoopInv DEF LoadInit, LoadInv, Quiet, HashCoversInfo, TrackersInOrder

LEMMA InitLoopInvNext == (Init => LoopInv)'
  BY InitLoopInv, PTL

(* What a file that parses gives the download.                             *)
LEMMA LoadedFrom ==
  ASSUME NEW f \in Files, ParsesAsTorrent(f.bytes)
  PROVE  /\ RawInfo(f.bytes).ok
         /\ f.info # <<>> /\ f.dated /\ info_bytes(f.bytes) = f.info
         /\ announce_urls(Torrent(f.bytes)) \in Seq(Seq(Bytes))
         /\ FirstMentions(announce_urls(Torrent(f.bytes)), f.named, Len(f.named))
         /\ f.named \in Seq(Seq(Bytes))
         /\ \A i \in DOMAIN f.named : UrlOf(f.named[i]) \in Trackers
<1> DEFINE at == InfoBehind(f.bytes)
<1>1. /\ f.bytes \in Seq(Bytes) /\ f.named \in Seq(Seq(Bytes))
      /\ f.info # <<>> /\ f.dated
      /\ f.info = SubSeq(f.bytes, at, Decode(f.bytes, at).at - 1)
      /\ NamedIn(Torrent(f.bytes), f.named)
      /\ \A i \in DOMAIN f.named : UrlOf(f.named[i]) \in Trackers
  BY FilesAssumption, Zenon
<1> HIDE DEF at
<1>2. RawInfo(f.bytes).ok /\ info_bytes(f.bytes) = f.info
  BY <1>1, InfoBytesAre DEF at
<1>3. f.named = Mentioned(Torrent(f.bytes))
  BY <1>1, Zenon DEF NamedIn, Mentioned
<1>4. Mentioned(Torrent(f.bytes)) \in Seq(Seq(Bytes))
  BY <1>1, <1>3
<1> DEFINE T == Seq(Bytes)
<1> HIDE DEF T
<1>5. Mentioned(Torrent(f.bytes)) \in Seq(T)
  BY <1>4 DEF T
<1>6. /\ announce_urls(Torrent(f.bytes)) \in Seq(T)
      /\ FirstMentions(announce_urls(Torrent(f.bytes)), Mentioned(Torrent(f.bytes)),
                       Len(Mentioned(Torrent(f.bytes))))
  BY <1>5, UrlsAreFirstMentions
<1> QED  BY <1>1, <1>2, <1>3, <1>6 DEF T

LEMMA LoadKeepsInv ==
  ASSUME LoadInv, Load
  PROVE  LoadInv'
<1>1. /\ stage = "reading" /\ file' = file /\ UNCHANGED vars
      /\ file \in Files /\ Quiet
  BY DEF Load, LoadInv
<1>2. Quiet' /\ LoopInv'
  <2>1. due' = due /\ DOMAIN due' = {}
    BY <1>1 DEF vars, Quiet
  <2>2. Init'
    BY <1>1 DEF Quiet, Init, vars
  <2>3. LoopInv'
    BY <2>2, InitLoopInvNext
  <2> QED  BY <2>1, <2>2, <2>3 DEF Quiet
<1>3. CASE ParsesAsTorrent(file.bytes)
  <2>1. /\ RawInfo(file.bytes).ok
        /\ file.info # <<>> /\ file.dated /\ info_bytes(file.bytes) = file.info
        /\ announce_urls(Torrent(file.bytes)) \in Seq(Seq(Bytes))
        /\ FirstMentions(announce_urls(Torrent(file.bytes)), file.named, Len(file.named))
        /\ file.named \in Seq(Seq(Bytes))
        /\ \A i \in DOMAIN file.named : UrlOf(file.named[i]) \in Trackers
    BY <1>1, <1>3, LoadedFrom
  <2>2. /\ stage' = "loaded" /\ hashed' = file.info
        /\ urls' = announce_urls(Torrent(file.bytes))
    BY <1>3, <2>1 DEF Load
  <2>3. HashCoversInfo'
    BY <1>1, <2>1, <2>2 DEF HashCoversInfo
  <2> DEFINE named == file.named
             u == urls'
  <2>4. /\ DOMAIN u = 1 .. Len(u) /\ DOMAIN named = 1 .. Len(named)
        /\ FirstMentions(u, named, Len(named))
    BY <2>1, <2>2
  <2>5. TrackersInOrder'
    <3> HIDE DEF named, u
    <3>0. /\ \A i \in 1 .. Len(u) : \E k \in 1 .. Len(named) : named[k] = u[i]
          /\ \A k \in 1 .. Len(named) : \E i \in 1 .. Len(u) : u[i] = named[k]
          /\ \A i, j \in 1 .. Len(u) : i < j =>
               \E k \in 1 .. Len(named) :
                 named[k] = u[i] /\ \A l \in 1 .. k : named[l] # u[j]
      BY <2>4, Zenon DEF FirstMentions
    <3>1. ToSet(u) = ToSet(named)
      <4>1. ToSet(u) = {u[i] : i \in 1 .. Len(u)}
        BY <2>4 DEF ToSet
      <4>2. ToSet(named) = {named[k] : k \in 1 .. Len(named)}
        BY <2>4 DEF ToSet
      <4>3. ASSUME NEW e \in ToSet(u) PROVE e \in ToSet(named)
        BY <3>0, <4>1, <4>2
      <4>4. ASSUME NEW e \in ToSet(named) PROVE e \in ToSet(u)
        <5>1. PICK k \in 1 .. Len(named) : e = named[k]
          BY <4>2, <4>4
        <5>2. PICK i \in 1 .. Len(u) : u[i] = named[k]
          BY <3>0
        <5> QED  BY <4>1, <5>1, <5>2
      <4> QED  BY <4>3, <4>4
    <3>2. ASSUME NEW i \in DOMAIN u, NEW j \in DOMAIN u, i < j
          PROVE  \E k \in DOMAIN named :
                   /\ named[k] = u[i]
                   /\ \A l \in 1 .. k : named[l] # u[j]
      <4>1. i \in 1 .. Len(u) /\ j \in 1 .. Len(u)
        BY <2>4
      <4>2. PICK k \in 1 .. Len(named) :
              named[k] = u[i] /\ \A l \in 1 .. k : named[l] # u[j]
        BY <3>0, <3>2, <4>1
      <4> QED  BY <2>4, <4>2
    <3> QED  BY <1>1, <3>1, <3>2 DEF TrackersInOrder, u, named
  <2>6. \A i \in DOMAIN u : UrlOf(u[i]) \in Trackers
    <3>1. ASSUME NEW i \in 1 .. Len(u)
          PROVE  UrlOf(u[i]) \in Trackers
      <4>1. PICK k \in 1 .. Len(named) : named[k] = u[i]
        BY <2>4 DEF FirstMentions
      <4>2. UrlOf(named[k]) \in Trackers
        BY <2>1, <2>4
      <4> QED  BY <4>1, <4>2
    <3> QED  BY <2>4, <3>1
  <2> QED  BY <1>1, <1>2, <2>2, <2>3, <2>5, <2>6 DEF LoadInv
<1>4. CASE ~ParsesAsTorrent(file.bytes)
  <2>1. stage' = "failed"
    BY <1>4 DEF Load
  <2>2. file.info = <<>> \/ ~file.dated
    BY <1>1, <1>4, FilesAssumption
  <2> QED  BY <1>1, <1>2, <2>1, <2>2 DEF LoadInv, HashCoversInfo, TrackersInOrder
<1> QED  BY <1>3, <1>4

LEMMA SpawnKeepsInv ==
  ASSUME LoadInv, SpawnTrackers
  PROVE  LoadInv'
<1> DEFINE tracked == {UrlOf(urls[i]) : i \in DOMAIN urls}
<1>1. tracked \in SUBSET Trackers
  BY DEF LoadInv, SpawnTrackers
<1>2. due' = [t \in tracked |-> 0]
  BY DEF SpawnTrackers
<1> HIDE DEF tracked
<1>3. Init'
  <2>1. Init
    BY DEF LoadInv, SpawnTrackers, Quiet
  <2>2. UNCHANGED <<next, step, waited, query, flags, counters, told>>
    BY DEF SpawnTrackers
  <2> QED  BY <1>1, <1>2, <2>1, <2>2 DEF Init, flags, counters
<1>4. LoopInv'
  BY <1>3, InitLoopInvNext
<1>5. stage' = "spawned"
  BY DEF SpawnTrackers
<1> QED  BY <1>4, <1>5 DEF LoadInv, HashCoversInfo, TrackersInOrder

LEMMA NextKeepsLoad == LoadInv /\ [LoadNext]_allVars => LoadInv'
<1> SUFFICES ASSUME LoadInv, [LoadNext]_allVars
             PROVE  LoadInv'
  OBVIOUS
<1>1. CASE stage = "spawned" /\ Next /\ UNCHANGED loadVars
  <2>1. LoopInv'
    BY <1>1, NextKeepsLoop DEF LoadInv
  <2>2. stage' = "spawned"
    BY <1>1 DEF loadVars
  <2> QED  BY <2>1, <2>2 DEF LoadInv, HashCoversInfo, TrackersInOrder
<1>2. CASE UNCHANGED allVars
  <2>1. LoopInv'
    <3>1. UNCHANGED vars
      BY <1>2 DEF allVars
    <3> QED  BY <3>1, NextKeepsLoop DEF LoadInv
  <2>2. UNCHANGED loadVars
    BY <1>2 DEF allVars
  <2>3. Quiet => Quiet'
    BY <1>2 DEF allVars, vars, Quiet, Init
  <2> QED
    BY <2>1, <2>2, <2>3 DEF LoadInv, HashCoversInfo, TrackersInOrder, loadVars
<1> QED
  BY <1>1, <1>2, LoadKeepsInv, SpawnKeepsInv DEF LoadNext

(* From the first byte read to the last announce.                          *)
THEOREM LoadInvariant == LoadSpec => []LoadInv
  BY InitLoadInv, NextKeepsLoad, PTL DEF LoadSpec

(* Whatever a file has in and beside its info, of any size and in any      *)
(* order, one that loads was whole and dated, and info_hash is taken over  *)
(* the bytes that info was decoded from: `info`'s second reading neither   *)
(* fails nor stops elsewhere.  One that fails was damaged or undated.      *)
THEOREM HashCovers == LoadSpec => []HashCoversInfo
<1>1. LoadInv => HashCoversInfo
  BY DEF LoadInv
<1> QED  BY <1>1, LoadInvariant, PTL

(* However the author repeats trackers in announce and announce-list, each *)
(* is announced to, and they are kept in the order of their first mention. *)
THEOREM UrlsInOrder == LoadSpec => []TrackersInOrder
<1>1. LoadInv => TrackersInOrder
  BY DEF LoadInv
<1> QED  BY <1>1, LoadInvariant, PTL

(* Whatever file was loaded, at most one of its trackers is told `started` *)
(* and at most one `completed`, in that order.                             *)
THEOREM LoadedEventsToldOnce == LoadSpec => []EventsAreToldOnce
<1>1. LoadInv => EventsAreToldOnce
  BY LoopInvTellsOnce DEF LoadInv
<1> QED  BY <1>1, LoadInvariant, PTL
=============================================================================
