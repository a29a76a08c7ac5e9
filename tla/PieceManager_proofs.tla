------------------------ MODULE PieceManager_proofs -------------------------
(***************************************************************************)
(* What every message does to the piece manager's own state, for any       *)
(* torrent: which piece a claim may be answered with, and that each        *)
(* handler keeps the cached views, the counter of pieces in flight, the    *)
(* cap on sharers and the rule that a complete piece has no requester.     *)
(* Swarm_proofs cites these lemmas once per action.                        *)
(***************************************************************************)
EXTENDS PieceManager, FiniteSetTheorems, WellFoundedInduction, TLAPS

-----------------------------------------------------------------------------
(* Choosing a piece.                                                       *)

LEMMA PiecesAreFinite ==
  IsFiniteSet(Pieces) /\ Pieces \subseteq Nat
BY GeometryAssumption, FS_Interval DEF Pieces

(* A nonempty set of naturals has a least element.                         *)
LEMMA LeastNatural ==
  ASSUME NEW S \in SUBSET Nat, S # {}
  PROVE  \E p \in S : \A q \in S : p <= q
<1> DEFINE Less == {ss \in Nat \X Nat : ss[1] < ss[2]}
<1>1. IsWellFoundedOn(Less, Nat)
  BY NatLessThanWellFounded DEF OpToRel
<1>2. PICK p \in S : \A q \in S : ~ (<<q, p>> \in Less)
  <2> HIDE DEF Less
  <2> QED  BY <1>1, WFMin
<1>3. ASSUME NEW q \in S
      PROVE  p <= q
  <2>1. p \in Nat /\ q \in Nat
    OBVIOUS
  <2>2. <<q, p>> \in Less <=> q < p
    BY <2>1
  <2> QED
    BY <1>2, <2>1, <2>2
<1> QED
  BY <1>3

(* Least picks the least element of a nonempty set of pieces.              *)
LEMMA LeastIsLeast ==
  ASSUME NEW S \in SUBSET Pieces, S # {}
  PROVE  Least(S) \in S /\ \A q \in S : Least(S) <= q
BY PiecesAreFinite, LeastNatural DEF Least

(* Whatever a claim is answered with was asked for, is still missing, and  *)
(* is not crowded; an unclaimed piece comes before a shared one.           *)
LEMMA ChoiceIsAllowed ==
  ASSUME ManagerInv, NEW bits, NEW peer
  PROVE  \/ Choice(bits, peer) = NoPiece
         \/ /\ Choice(bits, peer) \in Pieces
            /\ Choice(bits, peer) \in bits
            /\ Choice(bits, peer) \notin complete
            /\ peer \notin requesters[Choice(bits, peer)]
            /\ Cardinality(requesters[Choice(bits, peer)]) < MaxPieceSharers
<1>1. CASE Unclaimed(bits) # {}
  <2>1. Least(Unclaimed(bits)) \in Unclaimed(bits)
    BY <1>1, LeastIsLeast DEF Unclaimed
  <2>2. Choice(bits, peer) = Least(Unclaimed(bits))
    BY <1>1 DEF Choice
  <2> QED
    BY <2>1, <2>2, FS_EmptySet, SharersAssumption, SMTT(20) DEF Unclaimed
<1>2. CASE Unclaimed(bits) = {} /\ is_endgame /\ Shareable(bits, peer) # {}
  <2> DEFINE Shared == Shareable(bits, peer)
             Sizes  == {Cardinality(requesters[q]) : q \in Shared}
  <2>1. Shared \subseteq Pieces
    BY DEF Shareable
  <2>2. \A q \in Shared : Cardinality(requesters[q]) \in Nat
    BY <2>1, FS_CardinalityType DEF ManagerInv, RequestersAreFinite
  <2>3. LeastCrowded(Shared) # {}
    <3>1. PICK n \in Sizes : \A m \in Sizes : n <= m
      BY <1>2, <2>2, LeastNatural
    <3>2. PICK q \in Shared : n = Cardinality(requesters[q])
      BY <3>1
    <3>3. q \in LeastCrowded(Shared)
      BY <3>1, <3>2 DEF LeastCrowded
    <3> QED
      BY <3>3
  <2>4. LeastCrowded(Shared) \subseteq Shared
    BY DEF LeastCrowded
  <2>5. Least(LeastCrowded(Shared)) \in Shared
    BY <2>1, <2>3, <2>4, LeastIsLeast
  <2>6. Choice(bits, peer) = Least(LeastCrowded(Shared))
    BY <1>2 DEF Choice
  <2> QED
    BY <2>5, <2>6 DEF Shareable
<1>3. CASE Unclaimed(bits) = {} /\ ~(is_endgame /\ Shareable(bits, peer) # {})
  BY <1>3 DEF Choice
<1> QED
  BY <1>1, <1>2, <1>3

(* Nobody joins a piece others work on while a piece is free.              *)
LEMMA ChoiceIsFreeOrShared ==
  ASSUME NEW bits, NEW peer
  PROVE  \/ Choice(bits, peer) = NoPiece
         \/ requesters[Choice(bits, peer)] = {}
         \/ is_endgame
<1>1. CASE Unclaimed(bits) # {}
  <2>1. Least(Unclaimed(bits)) \in Unclaimed(bits)
    BY <1>1, LeastIsLeast DEF Unclaimed
  <2> QED
    BY <1>1, <2>1 DEF Choice, Unclaimed
<1> QED
  BY <1>1 DEF Choice

-----------------------------------------------------------------------------
(* Sizes.                                                                  *)

LEMMA PieceSizes ==
  ASSUME NEW p \in Pieces
  PROVE  /\ piece_size(p) \in Int
         /\ p # TotalPieces - 1 => piece_size(p) = PieceLength
<1>1. p \in Int /\ p * PieceLength \in Int
  BY GeometryAssumption DEF Pieces
<1>2. piece_size(p) \in Int
  BY <1>1, GeometryAssumption DEF piece_size
<1>3. ASSUME p # TotalPieces - 1
      PROVE  piece_size(p) = PieceLength
  <2>1. p + 1 <= TotalPieces - 1
    BY <1>3, GeometryAssumption DEF Pieces
  <2>2. (p + 1) * PieceLength <= (TotalPieces - 1) * PieceLength
    BY <1>1, <2>1, GeometryAssumption
  <2>3. (p + 1) * PieceLength = p * PieceLength + PieceLength
    BY <1>1, GeometryAssumption
  <2> QED
    BY <1>1, <2>2, <2>3, GeometryAssumption DEF piece_size
<1> QED
  BY <1>2, <1>3

LEMMA BytesType ==
  ASSUME NEW S \in SUBSET Pieces
  PROVE  Cardinality(S) \in Nat /\ BytesIn(S) \in Int
<1>1. Cardinality(S) \in Nat
  BY PiecesAreFinite, FS_Subset, FS_CardinalityType
<1>2. piece_size(TotalPieces - 1) \in Int
  BY PieceSizes, GeometryAssumption DEF Pieces
<1>3. PieceLength * Cardinality(S) \in Int
  BY <1>1, GeometryAssumption
<1> QED
  BY <1>1, <1>2, <1>3, GeometryAssumption DEF BytesIn

(* One more complete piece adds its own size, the short last one's too.    *)
LEMMA BytesGrow ==
  ASSUME NEW S \in SUBSET Pieces, NEW p \in Pieces, p \notin S
  PROVE  /\ Cardinality(S \cup {p}) = Cardinality(S) + 1
         /\ BytesIn(S \cup {p}) = BytesIn(S) + piece_size(p)
<1> DEFINE last == TotalPieces - 1
           n    == Cardinality(S)
<1>1. n \in Nat /\ Cardinality(S \cup {p}) = n + 1
  BY PiecesAreFinite, FS_Subset, FS_CardinalityType, FS_AddElement
<1>2. PieceLength * (n + 1) = PieceLength * n + PieceLength
  BY <1>1, GeometryAssumption
<1>3. last \in Pieces /\ piece_size(last) \in Int /\ piece_size(p) \in Int
  BY PieceSizes, GeometryAssumption DEF Pieces
<1>4. PieceLength * n \in Int /\ PieceLength \in Int
  BY <1>1, GeometryAssumption
<1>5. CASE p = last
  <2>1. last \notin S /\ last \in S \cup {p}
    BY <1>5
  <2> QED
    BY <1>1, <1>2, <1>3, <1>4, <1>5, <2>1 DEF BytesIn
<1>6. CASE p # last
  <2>1. last \in S <=> last \in S \cup {p}
    BY <1>6
  <2>2. piece_size(p) = PieceLength
    BY <1>6, PieceSizes
  <2> QED
    BY <1>1, <1>2, <1>3, <1>4, <2>1, <2>2 DEF BytesIn
<1> QED
  BY <1>1, <1>5, <1>6

-----------------------------------------------------------------------------
(* Registering and unregistering.                                          *)

LEMMA InWorkIsFinite == IsFiniteSet(InWork) /\ Cardinality(InWork) \in Nat
BY PiecesAreFinite, FS_Subset, FS_CardinalityType DEF InWork

(* A piece enters the count with its first holder.                         *)
LEMMA RegisterCounts ==
  ASSUME ManagerInv, NEW p \in Pieces, NEW peer \in Peers,
         requesters' = [requesters EXCEPT ![p] = @ \cup {peer}]
  PROVE  Cardinality(InWork') =
           IF FirstOn(p) THEN Cardinality(InWork) + 1 ELSE Cardinality(InWork)
<1>1. requesters \in [Pieces -> SUBSET Peers]
  BY DEF ManagerInv, ManagerTypeOK
<1>2. InWork' = InWork \cup {p}
  BY <1>1 DEF InWork
<1>3. p \in InWork <=> ~FirstOn(p)
  BY DEF InWork, FirstOn
<1> QED
  BY <1>2, <1>3, InWorkIsFinite, FS_AddElement

(* It leaves the count with its last, or when everybody is taken off.      *)
LEMMA UnregisterCounts ==
  ASSUME ManagerInv, NEW p \in Pieces, NEW S \in SUBSET Peers,
         S \subseteq requesters[p],
         requesters' = [requesters EXCEPT ![p] = S]
  PROVE  Cardinality(InWork') =
           IF requesters[p] # {} /\ S = {}
           THEN Cardinality(InWork) - 1 ELSE Cardinality(InWork)
<1>1. requesters \in [Pieces -> SUBSET Peers]
  BY DEF ManagerInv, ManagerTypeOK
<1>2. CASE S = {}
  <2>1. InWork' = InWork \ {p}
    BY <1>1, <1>2 DEF InWork
  <2>2. p \in InWork <=> requesters[p] # {}
    BY DEF InWork
  <2> QED
    BY <1>2, <2>1, <2>2, InWorkIsFinite, FS_RemoveElement
<1>3. CASE S # {}
  <2>1. InWork' = InWork
    BY <1>1, <1>3 DEF InWork
  <2> QED
    BY <1>3, <2>1
<1> QED
  BY <1>2, <1>3

-----------------------------------------------------------------------------
(* Every handler keeps the invariant of the manager's state.               *)

LEMMA InitManagerInv == InitManager => ManagerInv
<1> SUFFICES ASSUME InitManager
             PROVE  ManagerInv
  OBVIOUS
<1> USE DEF InitManager, InitStats
<1>1. BytesIn({}) = 0 /\ Cardinality({}) = 0
  BY FS_EmptySet, GeometryAssumption DEF BytesIn
<1>2. ManagerTypeOK
  <2>1. stats \in [completed_pieces : Nat, verified_bytes : Int,
                   resumed_pieces : Nat, resumed_bytes : Int,
                   in_flight_pieces : Nat]
    OBVIOUS
  <2>2. progress \in [completed_pieces : Nat, verified_bytes : Int,
                      bitfield : SUBSET Pieces, extracted : BOOLEAN]
    OBVIOUS
  <2>3. piece_events \in Seq(Pieces)
    OBVIOUS
  <2>4. phase \in {"starting", "serving", "finalizing"} /\ extracted \in BOOLEAN
    OBVIOUS
  <2> QED
    BY <2>1, <2>2, <2>3, <2>4 DEF ManagerTypeOK
<1>3. StartsEmpty
  BY DEF StartsEmpty
<1>4. RequestersAreFinite /\ SharingIsCapped
  BY <1>1, FS_EmptySet, SharersAssumption DEF RequestersAreFinite, SharingIsCapped
<1>5. CachedViewsAgree
  BY <1>1 DEF CachedViewsAgree
<1>6. InFlightIsExact
  <2>1. InWork = {}
    BY DEF InWork
  <2> QED
    BY <1>1, <2>1 DEF InFlightIsExact
<1>7. CompleteIsUnregistered /\ FinalizesWhenWhole /\ ProgressIsCurrent
  BY DEF CompleteIsUnregistered, FinalizesWhenWhole, ProgressIsCurrent
<1> QED
  BY <1>2, <1>3, <1>4, <1>5, <1>6, <1>7 DEF ManagerInv

LEMMA UnchangedKeepsInv ==
  ASSUME ManagerInv, UNCHANGED managerVars
  PROVE  ManagerInv'
<1> USE DEF managerVars
<1>1. BytesIn(complete)' = BytesIn(complete) /\ InWork' = InWork
  BY DEF BytesIn, piece_size, InWork
<1> QED
  BY <1>1 DEF ManagerInv, ManagerTypeOK, StartsEmpty, RequestersAreFinite,
              CachedViewsAgree, ProgressIsCurrent, InFlightIsExact,
              CompleteIsUnregistered, SharingIsCapped, FinalizesWhenWhole

LEMMA AdoptKeepsInv ==
  ASSUME ManagerInv, NEW S \in SUBSET Pieces, adopt_stored(S)
  PROVE  ManagerInv'
<1> USE DEF adopt_stored, ManagerInv
<1>0. stats = InitStats /\ requesters = [p \in Pieces |-> {}] /\ ~extracted
  BY DEF StartsEmpty
<1>1. Cardinality(S) \in Nat /\ BytesIn(S) \in Int
  BY BytesType
<1>2. ManagerTypeOK'
  BY <1>1 DEF ManagerTypeOK
<1>3. StartsEmpty'
  BY DEF StartsEmpty
<1>4. (RequestersAreFinite /\ SharingIsCapped)'
  BY DEF RequestersAreFinite, SharingIsCapped
<1>5. CachedViewsAgree'
  <2>1. stats'.completed_pieces = 0 /\ stats'.verified_bytes = 0
    BY <1>0 DEF InitStats
  <2>2. stats'.resumed_pieces = Cardinality(S) /\ stats'.resumed_bytes = BytesIn(S)
    BY <1>0 DEF InitStats
  <2>3. BytesIn(S)' = BytesIn(S)
    BY DEF BytesIn, piece_size
  <2>4. BytesIn(complete)' = BytesIn(S)
    BY DEF BytesIn, piece_size
  <2> QED
    BY <1>1, <2>1, <2>2, <2>4 DEF CachedViewsAgree
<1>6. InFlightIsExact'
  BY <1>0 DEF InFlightIsExact, InWork, InitStats
<1>7. CompleteIsUnregistered'
  BY <1>0 DEF CompleteIsUnregistered
<1>8. FinalizesWhenWhole' /\ ProgressIsCurrent'
  BY <1>0 DEF FinalizesWhenWhole, ProgressIsCurrent
<1> QED
  BY <1>2, <1>3, <1>4, <1>5, <1>6, <1>7, <1>8

LEMMA ClaimKeepsInv ==
  ASSUME ManagerInv, NEW bits, NEW peer \in Peers, phase # "starting",
         claim_piece(bits, peer)
  PROVE  ManagerInv'
<1> DEFINE p == Choice(bits, peer)
<1> USE DEF ManagerInv
<1>1. CASE p = NoPiece
  <2>1. UNCHANGED managerVars
    BY <1>1 DEF claim_piece, managerVars
  <2> QED
    BY <2>1, UnchangedKeepsInv
<1>2. CASE p # NoPiece
  <2>1. /\ p \in Pieces /\ p \notin complete
        /\ peer \notin requesters[p]
        /\ Cardinality(requesters[p]) < MaxPieceSharers
    BY <1>2, ChoiceIsAllowed
  <2>2. /\ requesters' = [requesters EXCEPT ![p] = @ \cup {peer}]
        /\ stats' = IF FirstOn(p) THEN piece_claimed(stats) ELSE stats
        /\ UNCHANGED <<phase, complete, bitfield, completed_pieces,
                       verified_bytes, extracted, progress, piece_events>>
    BY <1>2 DEF claim_piece
  <2> HIDE DEF p
  <2>3. ManagerTypeOK'
    BY <2>1, <2>2, SMTT(30) DEF ManagerTypeOK, piece_claimed
  <2>4. IsFiniteSet(requesters[p]) /\ Cardinality(requesters[p]) \in Nat
    BY <2>1, FS_CardinalityType DEF RequestersAreFinite
  <2>5. /\ IsFiniteSet(requesters[p] \cup {peer})
        /\ Cardinality(requesters[p] \cup {peer}) = Cardinality(requesters[p]) + 1
    BY <2>1, <2>4, FS_AddElement
  <2>6. \A q \in Pieces : requesters'[q] = IF q = p THEN requesters[p] \cup {peer}
                                           ELSE requesters[q]
    BY <2>1, <2>2 DEF ManagerTypeOK
  <2>7. RequestersAreFinite' /\ SharingIsCapped'
    BY <2>1, <2>4, <2>5, <2>6, SharersAssumption
       DEF RequestersAreFinite, SharingIsCapped
  <2>8. InFlightIsExact'
    BY <2>1, <2>2, RegisterCounts DEF InFlightIsExact, piece_claimed, ManagerTypeOK
  <2>9. CachedViewsAgree'
    <3>1. /\ stats'.completed_pieces = stats.completed_pieces
          /\ stats'.resumed_pieces = stats.resumed_pieces
          /\ stats'.verified_bytes = stats.verified_bytes
          /\ stats'.resumed_bytes = stats.resumed_bytes
      BY <2>2 DEF piece_claimed, ManagerTypeOK
    <3>2. BytesIn(complete)' = BytesIn(complete)
      BY <2>2 DEF BytesIn, piece_size
    <3> QED
      BY <2>2, <3>1, <3>2 DEF CachedViewsAgree
  <2>10. CompleteIsUnregistered'
    BY <2>1, <2>2, <2>6 DEF CompleteIsUnregistered, ManagerTypeOK
  <2>11. StartsEmpty' /\ FinalizesWhenWhole' /\ ProgressIsCurrent'
    BY <2>2 DEF StartsEmpty, FinalizesWhenWhole, ProgressIsCurrent
  <2> QED
    BY <2>3, <2>7, <2>8, <2>9, <2>10, <2>11
<1> QED
  BY <1>1, <1>2

(* Taking some requesters off an incomplete or complete piece, with the    *)
(* counter following: what release, piece_failed and a second report do.   *)
LEMMA UnregisterKeepsInv ==
  ASSUME ManagerInv, NEW p \in Pieces, NEW peer, phase # "starting",
         Unregister(p, peer)
  PROVE  ManagerInv'
<1> DEFINE S == requesters[p] \ {peer}
<1> USE DEF ManagerInv
<1>1. /\ requesters' = [requesters EXCEPT ![p] = S]
      /\ stats' = IF requesters[p] # {} /\ S = {} THEN piece_released(stats) ELSE stats
      /\ UNCHANGED <<phase, complete, bitfield, completed_pieces,
                     verified_bytes, extracted, progress, piece_events>>
  BY DEF Unregister, LastOff
<1>2. S \in SUBSET Peers /\ S \subseteq requesters[p]
  BY DEF ManagerTypeOK
<1>3. IsFiniteSet(S) /\ Cardinality(S) <= Cardinality(requesters[p])
  BY <1>2, FS_Subset DEF RequestersAreFinite
<1> HIDE DEF S
<1>4. ManagerTypeOK'
  <2>1. stats.in_flight_pieces \in Nat
    BY DEF ManagerTypeOK
  <2>2. piece_released(stats) = stats
        \/ piece_released(stats) =
              [stats EXCEPT !.in_flight_pieces = IF stats.in_flight_pieces = 0 THEN 0
                                                 ELSE stats.in_flight_pieces - 1]
    BY DEF piece_released
  <2>3. stats' \in [completed_pieces : Nat, verified_bytes : Int,
                    resumed_pieces : Nat, resumed_bytes : Int,
                    in_flight_pieces : Nat]
    BY <1>1, <2>1, <2>2, SMTT(30) DEF ManagerTypeOK
  <2>4. requesters' \in [Pieces -> SUBSET Peers]
    BY <1>1, <1>2 DEF ManagerTypeOK
  <2> QED
    BY <1>1, <2>3, <2>4 DEF ManagerTypeOK
<1>5. \A q \in Pieces : requesters'[q] = IF q = p THEN S ELSE requesters[q]
  BY <1>1 DEF ManagerTypeOK
<1>6. RequestersAreFinite' /\ SharingIsCapped'
  <2>1. Cardinality(S) \in Nat /\ Cardinality(requesters[p]) \in Nat
    BY <1>3, FS_CardinalityType DEF RequestersAreFinite
  <2> QED
    BY <1>3, <1>5, <2>1, SharersAssumption DEF RequestersAreFinite, SharingIsCapped
<1>7. InFlightIsExact'
  <2>1. Cardinality(InWork') = IF requesters[p] # {} /\ S = {}
          THEN Cardinality(InWork) - 1 ELSE Cardinality(InWork)
    BY <1>1, <1>2, UnregisterCounts
  <2>2. requesters[p] # {} => Cardinality(InWork) # 0
    <3>1. requesters[p] # {} => p \in InWork
      BY DEF InWork
    <3> QED
      BY <3>1, InWorkIsFinite, FS_EmptySet
  <2> QED
    BY <1>1, <2>1, <2>2, InWorkIsFinite
       DEF InFlightIsExact, piece_released, ManagerTypeOK
<1>8. CachedViewsAgree'
  <2>1. /\ stats'.completed_pieces = stats.completed_pieces
        /\ stats'.resumed_pieces = stats.resumed_pieces
        /\ stats'.verified_bytes = stats.verified_bytes
        /\ stats'.resumed_bytes = stats.resumed_bytes
    BY <1>1 DEF piece_released, ManagerTypeOK
  <2>2. BytesIn(complete)' = BytesIn(complete)
    BY <1>1 DEF BytesIn, piece_size
  <2> QED
    BY <1>1, <2>1, <2>2 DEF CachedViewsAgree
<1>9. CompleteIsUnregistered'
  BY <1>1, <1>2, <1>5 DEF CompleteIsUnregistered, ManagerTypeOK
<1>10. StartsEmpty' /\ FinalizesWhenWhole' /\ ProgressIsCurrent'
  BY <1>1 DEF StartsEmpty, FinalizesWhenWhole, ProgressIsCurrent
<1> QED
  BY <1>4, <1>6, <1>7, <1>8, <1>9, <1>10

(* What is added to one side of a sum is added to the sum.                 *)
LEMMA AddToSum ==
  ASSUME NEW a \in Int, NEW b \in Int, NEW c \in Int, NEW d \in Int, a + b = c
  PROVE  (a + d) + b = c + d
  OBVIOUS

(* A first report completes the piece in every view at once; a second one  *)
(* finds nobody registered and changes nothing.                            *)
LEMMA VerifiedKeepsInv ==
  ASSUME ManagerInv, NEW p \in Pieces, NEW peer, phase = "serving",
         piece_verified(p, peer)
  PROVE  ManagerInv'
<1> USE DEF ManagerInv
<1>1. CASE p \in complete
  <2>1. requesters[p] = {}
    BY <1>1 DEF CompleteIsUnregistered
  <2>2. requesters' = requesters
    BY <1>1, <2>1, ZenonT(40) DEF piece_verified, SecondReport, ManagerTypeOK
  <2> QED
    BY <1>1, <2>2, UnchangedKeepsInv DEF piece_verified, SecondReport, managerVars
<1>2. CASE p \notin complete
  <2> DEFINE before == IF requesters[p] # {} THEN piece_released(stats) ELSE stats
  <2>1. /\ requesters' = [requesters EXCEPT ![p] = {}]
        /\ complete' = complete \cup {p}
        /\ bitfield' = bitfield \cup {p}
        /\ completed_pieces' = completed_pieces + 1
        /\ verified_bytes' = verified_bytes + piece_size(p)
        /\ stats' = stats_piece_verified(before, piece_size(p))
        /\ piece_events' = Append(piece_events, p)
        /\ UNCHANGED extracted
    BY <1>2 DEF piece_verified, SecondReport
  <2>2. progress' = [completed_pieces |-> completed_pieces',
                     verified_bytes   |-> verified_bytes',
                     bitfield         |-> bitfield',
                     extracted        |-> extracted]
    BY <1>2 DEF piece_verified, SecondReport
  <2>3. phase' = IF completed_pieces' = TotalPieces THEN "finalizing" ELSE "serving"
    BY <1>2 DEF piece_verified, SecondReport
  <2>4. /\ stats.completed_pieces \in Nat /\ stats.verified_bytes \in Int
        /\ stats.resumed_pieces \in Nat /\ stats.resumed_bytes \in Int
        /\ stats.in_flight_pieces \in Nat
        /\ piece_size(p) \in Int
    BY PieceSizes DEF ManagerTypeOK
  <2>5. /\ stats'.completed_pieces = stats.completed_pieces + 1
        /\ stats'.verified_bytes = stats.verified_bytes + piece_size(p)
        /\ stats'.resumed_pieces = stats.resumed_pieces
        /\ stats'.resumed_bytes = stats.resumed_bytes
        /\ stats'.in_flight_pieces =
             IF requesters[p] # {} /\ stats.in_flight_pieces # 0
             THEN stats.in_flight_pieces - 1 ELSE stats.in_flight_pieces
    BY <2>1 DEF stats_piece_verified, piece_released, ManagerTypeOK
  <2>6. stats' \in [completed_pieces : Nat, verified_bytes : Int,
                    resumed_pieces : Nat, resumed_bytes : Int,
                    in_flight_pieces : Nat]
    <3>1. before \in [completed_pieces : Nat, verified_bytes : Int,
                      resumed_pieces : Nat, resumed_bytes : Int,
                      in_flight_pieces : Nat]
      BY <2>4, SMTT(30) DEF piece_released, ManagerTypeOK
    <3> HIDE DEF before
    <3>2. before.completed_pieces + 1 \in Nat
          /\ before.verified_bytes + piece_size(p) \in Int
      BY <2>4, <3>1
    <3>3. stats' = [before EXCEPT !.completed_pieces = before.completed_pieces + 1,
                                  !.verified_bytes = before.verified_bytes + piece_size(p)]
      BY <2>1 DEF stats_piece_verified
    <3> QED
      BY <3>1, <3>2, <3>3
  <2> HIDE DEF before
  <2>7. ManagerTypeOK'
    <3>1. completed_pieces' \in Nat /\ verified_bytes' \in Int
      BY <2>1, <2>4, SMTT(30) DEF ManagerTypeOK
    <3>2. progress' \in [completed_pieces : Nat, verified_bytes : Int,
                         bitfield : SUBSET Pieces, extracted : BOOLEAN]
      BY <2>1, <2>2, <3>1 DEF ManagerTypeOK
    <3>3. requesters' \in [Pieces -> SUBSET Peers]
      BY <2>1 DEF ManagerTypeOK
    <3>4. piece_events' \in Seq(Pieces)
      BY <2>1 DEF ManagerTypeOK
    <3>5. phase' \in {"starting", "serving", "finalizing"}
      BY <2>3
    <3> QED
      BY <2>1, <2>6, <3>1, <3>2, <3>3, <3>4, <3>5 DEF ManagerTypeOK
  <2>8. \A q \in Pieces : requesters'[q] = IF q = p THEN {} ELSE requesters[q]
    BY <2>1 DEF ManagerTypeOK
  <2>9. RequestersAreFinite' /\ SharingIsCapped'
    BY <2>8, FS_EmptySet, SharersAssumption DEF RequestersAreFinite, SharingIsCapped
  <2>10. CompleteIsUnregistered'
    BY <2>1, <2>8 DEF CompleteIsUnregistered, ManagerTypeOK
  <2>11. InFlightIsExact'
    <3>1. Cardinality(InWork') = IF requesters[p] # {}
            THEN Cardinality(InWork) - 1 ELSE Cardinality(InWork)
      BY <2>1, UnregisterCounts
    <3>2. requesters[p] # {} => Cardinality(InWork) # 0
      <4>1. requesters[p] # {} => p \in InWork
        BY DEF InWork
      <4> QED
        BY <4>1, InWorkIsFinite, FS_EmptySet
    <3> QED
      BY <2>5, <3>1, <3>2, InWorkIsFinite DEF InFlightIsExact
  <2>12. CachedViewsAgree'
    <3>1. /\ Cardinality(complete \cup {p}) = Cardinality(complete) + 1
          /\ BytesIn(complete \cup {p}) = BytesIn(complete) + piece_size(p)
      BY <1>2, BytesGrow DEF ManagerTypeOK
    <3>2. /\ BytesIn(complete)' = BytesIn(complete \cup {p})
          /\ Cardinality(complete)' = Cardinality(complete \cup {p})
      BY <2>1 DEF BytesIn, piece_size
    <3>3. Cardinality(complete) \in Nat /\ BytesIn(complete) \in Int
      BY BytesType DEF ManagerTypeOK
    <3>4. /\ stats.completed_pieces + stats.resumed_pieces = Cardinality(complete)
          /\ stats.verified_bytes + stats.resumed_bytes = BytesIn(complete)
          /\ bitfield = complete
          /\ completed_pieces = Cardinality(complete)
          /\ verified_bytes = BytesIn(complete)
      BY DEF CachedViewsAgree
    <3>5. /\ stats'.completed_pieces + stats'.resumed_pieces
               = Cardinality(complete) + 1
          /\ stats'.verified_bytes + stats'.resumed_bytes
               = BytesIn(complete) + piece_size(p)
      <4> HIDE DEF ManagerInv
      <4>1. (stats.completed_pieces + 1) + stats.resumed_pieces
              = Cardinality(complete) + 1
        BY <2>4, <3>3, <3>4, AddToSum
      <4>2. (stats.verified_bytes + piece_size(p)) + stats.resumed_bytes
              = BytesIn(complete) + piece_size(p)
        BY <2>4, <3>3, <3>4, AddToSum
      <4> QED
        BY <2>5, <4>1, <4>2
    <3>6. /\ bitfield' = complete'
          /\ completed_pieces' = Cardinality(complete) + 1
          /\ verified_bytes' = BytesIn(complete) + piece_size(p)
      BY <2>1, <3>4
    <3> HIDE DEF ManagerInv
    <3> QED
      BY <3>1, <3>2, <3>5, <3>6 DEF CachedViewsAgree
  <2>13. FinalizesWhenWhole'
    <3>1. ~extracted
      BY <1>2 DEF FinalizesWhenWhole
    <3>2. ASSUME phase' = "finalizing"
          PROVE  complete' = Pieces
      <4>1. Cardinality(complete') = TotalPieces
        BY <2>3, <2>12, <3>2 DEF CachedViewsAgree
      <4>2. Cardinality(Pieces) = TotalPieces
        BY FS_Interval, GeometryAssumption DEF Pieces
      <4> QED
        BY <2>7, <4>1, <4>2, PiecesAreFinite, FS_Subset DEF ManagerTypeOK
    <3> QED
      BY <2>1, <3>1, <3>2 DEF FinalizesWhenWhole
  <2>14. StartsEmpty' /\ ProgressIsCurrent'
    BY <2>1, <2>2, <2>3 DEF StartsEmpty, ProgressIsCurrent
  <2> QED
    BY <2>7, <2>9, <2>10, <2>11, <2>12, <2>13, <2>14
<1> QED
  BY <1>1, <1>2

LEMMA FinalizeKeepsInv ==
  ASSUME ManagerInv, NEW ok \in BOOLEAN, FinalizeReturns(ok)
  PROVE  ManagerInv'
<1> USE DEF ManagerInv
<1>1. /\ phase = "finalizing" /\ phase' = "serving"
      /\ extracted' \in BOOLEAN
      /\ progress' = [progress EXCEPT !.extracted = extracted']
      /\ UNCHANGED <<complete, requesters, bitfield, completed_pieces,
                     verified_bytes, stats, piece_events>>
  BY DEF FinalizeReturns, ManagerTypeOK
<1>2. ManagerTypeOK'
  <2>1. progress' \in [completed_pieces : Nat, verified_bytes : Int,
                       bitfield : SUBSET Pieces, extracted : BOOLEAN]
    BY <1>1 DEF ManagerTypeOK
  <2> QED
    BY <1>1, <2>1 DEF ManagerTypeOK
<1>3. BytesIn(complete)' = BytesIn(complete) /\ InWork' = InWork
  BY <1>1 DEF BytesIn, piece_size, InWork
<1>4. ProgressIsCurrent'
  BY <1>1 DEF ProgressIsCurrent
<1>5. FinalizesWhenWhole' /\ StartsEmpty'
  BY <1>1 DEF FinalizesWhenWhole, StartsEmpty
<1>6. (CachedViewsAgree /\ InFlightIsExact)'
  BY <1>1, <1>3 DEF CachedViewsAgree, InFlightIsExact
<1>7. (RequestersAreFinite /\ CompleteIsUnregistered /\ SharingIsCapped)'
  BY <1>1 DEF RequestersAreFinite, CompleteIsUnregistered, SharingIsCapped
<1> QED
  BY <1>2, <1>4, <1>5, <1>6, <1>7
=============================================================================
