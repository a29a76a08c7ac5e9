------------------------------- MODULE Status --------------------------------
(***************************************************************************)
(* What a caller is told: the sampler (sample_status in lib.rs) reads the  *)
(* watch channel of the piece manager's progress and then the shared       *)
(* counters (status.rs) while the manager moves both, one store at a time, *)
(* and publishes a DownloadState.                                          *)
(*                                                                         *)
(* The manager's side is cut down to what the sampler can tell apart: how  *)
(* many pieces are counted where, and whether the payload was written out. *)
(* Who completes pieces, and how, is Swarm's subject.                      *)
(***************************************************************************)
EXTENDS Integers

CONSTANTS
  TotalPieces,       (* pieces in the torrent                               *)
  CopiesFail         (* Store::finalize may fail                            *)

ASSUME TotalAssumption == TotalPieces \in Nat \ {0}
ASSUME CopiesAssumption == CopiesFail \in BOOLEAN

VARIABLES
  pc,                (* the manager's next store                            *)
  held,              (* pieces it has marked complete                       *)
  resumed,           (* ghost: how many of them the store already held      *)
  total_pieces,      (* the atomics                                         *)
  completed_pieces,
  resumed_pieces,
  progress,          (* the watch channel: pieces complete, extracted       *)
  extracted,         (* finalize returned Ok                                *)
  seen,              (* the progress the current sample borrowed            *)
  sampling,          (* a sample is under way                               *)
  state              (* the DownloadState last published                    *)

managerVars == <<pc, held, resumed, extracted>>
sharedVars  == <<total_pieces, completed_pieces, resumed_pieces, progress>>
samplerVars == <<seen, sampling, state>>
feedVars == <<managerVars, sharedVars, samplerVars>>

-----------------------------------------------------------------------------
FeedInit ==
  /\ pc = "initializing"
  /\ held = 0 /\ resumed = 0
  /\ total_pieces = 0 /\ completed_pieces = 0 /\ resumed_pieces = 0
  /\ progress = [completed_pieces |-> 0, extracted |-> FALSE]
  /\ extracted = FALSE
  /\ seen = progress
  /\ sampling = FALSE
  /\ state = "Starting"

-----------------------------------------------------------------------------
(* The piece manager, one shared store per step.                           *)

Publish(e) == progress' = [completed_pieces |-> held, extracted |-> e]

(* The store answers initialize with the pieces it holds.                  *)
Initialize(n) ==
  /\ pc = "initializing"
  /\ held' = n /\ resumed' = n
  /\ pc' = "set_totals"
  /\ UNCHANGED <<extracted, sharedVars, samplerVars>>

SetTotals ==
  /\ pc = "set_totals"
  /\ total_pieces' = TotalPieces
  /\ pc' = "set_resumed"
  /\ UNCHANGED <<held, resumed, extracted, completed_pieces, resumed_pieces,
                 progress, samplerVars>>

SetResumed ==
  /\ pc = "set_resumed"
  /\ resumed_pieces' = held
  /\ pc' = "publishing"
  /\ UNCHANGED <<held, resumed, extracted, total_pieces, completed_pieces,
                 progress, samplerVars>>

PublishResumed ==
  /\ pc = "publishing"
  /\ Publish(extracted)
  /\ pc' = "serving"
  /\ UNCHANGED <<held, resumed, extracted, total_pieces, completed_pieces,
                 resumed_pieces, samplerVars>>

(* A first report of a piece: it is marked, then counted, then published.  *)
(* A second one touches none of the three.                                 *)
PieceVerified ==
  /\ pc = "serving"
  /\ held < TotalPieces
  /\ held' = held + 1
  /\ pc' = "counting"
  /\ UNCHANGED <<resumed, extracted, sharedVars, samplerVars>>

CountPiece ==
  /\ pc = "counting"
  /\ completed_pieces' = completed_pieces + 1
  /\ pc' = "announcing"
  /\ UNCHANGED <<held, resumed, extracted, total_pieces, resumed_pieces, progress,
                 samplerVars>>

(* The last piece is followed by the copy out of the store.                *)
PublishPiece ==
  /\ pc = "announcing"
  /\ Publish(extracted)
  /\ pc' = IF held = TotalPieces THEN "finalizing" ELSE "serving"
  /\ UNCHANGED <<held, resumed, extracted, total_pieces, completed_pieces,
                 resumed_pieces, samplerVars>>

(* Mutant: the copy is taken to have worked.                               *)
FinalizeReturns_anyway(ok) ==
  /\ pc = "finalizing"
  /\ extracted' = ok
  /\ Publish(TRUE)
  /\ pc' = "serving"
  /\ UNCHANGED <<held, resumed, total_pieces, completed_pieces, resumed_pieces,
                 samplerVars>>

(* Mutant: nothing is published after the copy.                            *)
FinalizeReturns_quiet(ok) ==
  /\ pc = "finalizing"
  /\ extracted' = (ok \/ extracted)
  /\ pc' = "serving"
  /\ UNCHANGED <<held, resumed, sharedVars, samplerVars>>

(* A failed copy is logged; progress is published again either way.        *)
FinalizeReturns(ok) ==
  /\ pc = "finalizing"
  /\ ~ok => CopiesFail
  /\ extracted' = (ok \/ extracted)
  /\ Publish(extracted')
  /\ pc' = "serving"
  /\ UNCHANGED <<held, resumed, total_pieces, completed_pieces, resumed_pieces,
                 samplerVars>>

-----------------------------------------------------------------------------
(* The sampler.                                                            *)

(* Mutant: no totals yet reads as finished.                                *)
is_complete_unguarded == completed_pieces + resumed_pieces >= total_pieces

(* False before the totals are known.  The three loads are one step here:  *)
(* the counters only grow, and the totals are set before either of them.   *)
is_complete ==
  /\ total_pieces > 0
  /\ completed_pieces + resumed_pieces >= total_pieces

(* Extraction is tested before completeness.                               *)
SampledState ==
  IF seen.extracted THEN "Seeding"
  ELSE IF is_complete THEN "Finalizing"
  ELSE IF seen.completed_pieces = 0 THEN "Starting"
  ELSE "Downloading"

(* A tick: the watch channel is borrowed first.                            *)
BorrowProgress ==
  /\ ~sampling
  /\ sampling' = TRUE
  /\ seen' = progress
  /\ UNCHANGED <<managerVars, sharedVars, state>>

(* ... the counters are read after it, and the sample is published.        *)
PublishStatus ==
  /\ sampling
  /\ sampling' = FALSE
  /\ state' = SampledState
  /\ UNCHANGED <<managerVars, sharedVars, seen>>

-----------------------------------------------------------------------------
Manager ==
  \/ \E n \in 0 .. TotalPieces : Initialize(n)
  \/ SetTotals
  \/ SetResumed
  \/ PublishResumed
  \/ PieceVerified
  \/ CountPiece
  \/ PublishPiece
  \/ \E ok \in BOOLEAN : FinalizeReturns(ok)

Sampler == BorrowProgress \/ PublishStatus

FeedNext == Manager \/ Sampler

FeedSpec == FeedInit /\ [][FeedNext]_feedVars

(* The manager goes on with a turn it has begun, a copy ends, and the      *)
(* sampler's timer fires.  Pieces need not keep coming.                    *)
FairFeedSpec ==
  /\ FeedSpec
  /\ WF_feedVars(Manager /\ pc # "serving")
  /\ WF_feedVars(Sampler)

-----------------------------------------------------------------------------
(* Properties.                                                             *)

States == {"Starting", "Downloading", "Finalizing", "Seeding"}

FeedTypeOK ==
  /\ pc \in {"initializing", "set_totals", "set_resumed", "publishing", "serving",
             "counting", "announcing", "finalizing"}
  /\ held \in 0 .. TotalPieces /\ resumed \in 0 .. held
  /\ total_pieces \in {0, TotalPieces}
  /\ completed_pieces \in 0 .. TotalPieces
  /\ resumed_pieces \in 0 .. TotalPieces
  /\ progress \in [completed_pieces : 0 .. TotalPieces, extracted : BOOLEAN]
  /\ seen \in [completed_pieces : 0 .. TotalPieces, extracted : BOOLEAN]
  /\ extracted \in BOOLEAN
  /\ sampling \in BOOLEAN
  /\ state \in States

Rank == [Starting |-> 0, Downloading |-> 1, Finalizing |-> 2, Seeding |-> 3]

(* The state shown only ever moves forward, although each sample mixes a   *)
(* progress borrowed at one instant with counters read at later ones.      *)
StateNeverGoesBack == [][Rank[state'] >= Rank[state]]_feedVars

(* Nobody is told of a payload that is not there: Finalizing is only said  *)
(* of a torrent held whole, Seeding only of one that was copied out.       *)
StateIsTrue ==
  /\ state = "Finalizing" => held = TotalPieces
  /\ state = "Seeding" => extracted /\ held = TotalPieces

(* A copy that worked is reported, and stays reported, by a process that   *)
(* runs on to its next sample.                                             *)
ExtractionIsReported == extracted ~> [](state = "Seeding")

-----------------------------------------------------------------------------
(* Why StateIsTrue and StateNeverGoesBack hold: Reporting_proofs rests on  *)
(* these.                                                                  *)

(* What the atomics count at each point of the manager's turn.  A piece is *)
(* marked before it is counted, so the counters never run ahead of what is *)
(* held; and the totals come first, so no count is compared with zero.     *)
CountsFollowHeld ==
  /\ pc = "initializing" => held = 0
  /\ pc \in {"initializing", "set_totals", "set_resumed", "publishing"}
       => held = resumed
  /\ pc \in {"initializing", "set_totals"} <=> total_pieces = 0
  /\ resumed_pieces =
       IF pc \in {"initializing", "set_totals", "set_resumed"} THEN 0 ELSE resumed
  /\ completed_pieces = (held - resumed) - (IF pc = "counting" THEN 1 ELSE 0)
  /\ pc = "counting" => held > resumed

(* The published progress is of the past, and so is a borrowed one.        *)
ProgressIsPast ==
  /\ seen.completed_pieces <= progress.completed_pieces
  /\ progress.completed_pieces <= held
  /\ seen.extracted => progress.extracted
  /\ progress.extracted => extracted
  /\ extracted \/ pc = "finalizing" => held = TotalPieces

(* The state shown is one the counters and the progress still support: the *)
(* next sample cannot rank it lower.                                       *)
StateIsSupported ==
  /\ state = "Seeding" => seen.extracted
  /\ state = "Finalizing" => is_complete
  /\ state = "Downloading" => seen.completed_pieces > 0

StatusInv ==
  /\ FeedTypeOK
  /\ CountsFollowHeld
  /\ ProgressIsPast
  /\ StateIsSupported
=============================================================================
