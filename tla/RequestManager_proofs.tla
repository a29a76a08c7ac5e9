------------------------ MODULE RequestManager_proofs ------------------------
(***************************************************************************)
(* What holds of one connection's requests for any pieces, block counts    *)
(* and windows, whatever the peer sends and in whatever order.             *)
(*                                                                         *)
(* The argument.  A piece in hand is parted: each of its blocks is in      *)
(* exactly one of `pending`, the outstanding requests and `have`           *)
(* (SlotsParted).  As long as a piece is being hashed the digest has seen  *)
(* the blocks 0, 1, ... up to next_hashed_block (HashedInOrder).  A choke  *)
(* empties the slots, and only a connection that is not choked fills them. *)
(* Only the incoming arm leaves the deadline out of step with the          *)
(* requests, and it settles it before it ends (DeadlineFits).              *)
(***************************************************************************)
EXTENDS RequestManager, FiniteSetTheorems, SequenceTheorems, TLAPS

Parted(b, A) ==
  /\ \A x, y \in DOMAIN b.pending : b.pending[x] = b.pending[y] => x = y
  /\ Elements(b.pending) \subseteq Blocks(b.piece)
  /\ b.have \subseteq Blocks(b.piece)
  /\ \A k \in Blocks(b.piece) :
       /\ k \in Elements(b.pending) \/ <<b.piece, k>> \in A \/ k \in b.have
       /\ ~(k \in Elements(b.pending) /\ <<b.piece, k>> \in A)
       /\ ~(k \in Elements(b.pending) /\ k \in b.have)
       /\ ~(<<b.piece, k>> \in A /\ k \in b.have)

InOrder(b) ==
  b.hashing => b.hasher = [k \in 1 .. b.next_hashed_block |-> k - 1]

SlotsParted ==
  /\ \A i \in DOMAIN in_flight : Parted(in_flight[i], active_blocks)
  /\ \A i, j \in DOMAIN in_flight : in_flight[i].piece = in_flight[j].piece => i = j
  /\ \A a \in active_blocks : a[1] \in Held

HashedInOrder ==
  /\ \A i \in DOMAIN in_flight : InOrder(in_flight[i])
  /\ \A i \in DOMAIN finishing : InOrder(finishing[i])

DeadlineFits ==
  /\ pc = "loop" => arm = "none"
  /\ pc = "complete_piece" => arm = "block" /\ finishing # <<>>
  /\ arm \notin {"item", "block"} /\ deadline # NoDeadline => active_blocks # {}

RequestInv ==
  /\ TypeOK
  /\ IsFiniteSet(active_blocks)
  /\ SlotsParted
  /\ HashedInOrder
  /\ DeadlineFits
  /\ ChokedHoldsNothing

-----------------------------------------------------------------------------
(* Sequences.                                                              *)

LEMMA FunctionIsSeq ==
  ASSUME NEW S, NEW n \in Nat, NEW f \in [1 .. n -> S]
  PROVE  f \in Seq(S) /\ Len(f) = n /\ DOMAIN f = 1 .. n
  OBVIOUS

LEMMA ReplaceIsSeq ==
  ASSUME NEW S, NEW s \in Seq(S), NEW i \in DOMAIN s, NEW e \in S
  PROVE  /\ [s EXCEPT ![i] = e] \in Seq(S)
         /\ Len([s EXCEPT ![i] = e]) = Len(s)
         /\ DOMAIN [s EXCEPT ![i] = e] = DOMAIN s
         /\ \A j \in DOMAIN s : [s EXCEPT ![i] = e][j] = IF j = i THEN e ELSE s[j]
<1>1. DOMAIN s = 1 .. Len(s)
  BY LenProperties
<1> QED
  BY <1>1, ExceptSeq

LEMMA SwapRemoveIsSeq ==
  ASSUME NEW S, NEW s \in Seq(S), NEW i \in DOMAIN s
  PROVE  /\ swap_remove(s, i) \in Seq(S)
         /\ Len(swap_remove(s, i)) = Len(s) - 1
         /\ DOMAIN swap_remove(s, i) = 1 .. Len(s) - 1
         /\ \A j \in 1 .. Len(s) - 1 :
              swap_remove(s, i)[j] = IF j = i THEN s[Len(s)] ELSE s[j]
<1>1. Len(s) \in Nat /\ DOMAIN s = 1 .. Len(s) /\ Len(s) - 1 \in Nat
  BY LenProperties
<1>2. swap_remove(s, i) \in [1 .. Len(s) - 1 -> S]
  BY <1>1, LenProperties, SMTT(20) DEF swap_remove
<1>3. /\ swap_remove(s, i) \in Seq(S)
      /\ Len(swap_remove(s, i)) = Len(s) - 1
      /\ DOMAIN swap_remove(s, i) = 1 .. Len(s) - 1
  BY <1>1, <1>2, FunctionIsSeq, ZenonT(40)
<1> QED
  BY <1>3 DEF swap_remove

-----------------------------------------------------------------------------
(* One piece.                                                              *)

(* Without repetitions, what Tail leaves out of the elements is the head.  *)
LEMMA TailForgetsHead ==
  ASSUME NEW s \in Seq(Nat), s # <<>>,
         \A x, y \in DOMAIN s : s[x] = s[y] => x = y
  PROVE  /\ Tail(s) \in Seq(Nat)
         /\ Head(s) \in Elements(s)
         /\ Elements(Tail(s)) = Elements(s) \ {Head(s)}
         /\ \A x, y \in DOMAIN Tail(s) : Tail(s)[x] = Tail(s)[y] => x = y
<1>1. /\ Len(s) \in Nat /\ DOMAIN s = 1 .. Len(s) /\ Len(s) > 0
      /\ Head(s) = s[1] /\ Tail(s) \in Seq(Nat) /\ Len(Tail(s)) = Len(s) - 1
  BY LenProperties, EmptySeq, HeadTailProperties
<1>2. DOMAIN Tail(s) = 1 .. Len(s) - 1
  BY <1>1, LenProperties
<1>3. ASSUME NEW i \in 1 .. Len(s) - 1
      PROVE  i + 1 \in 1 .. Len(s) /\ i + 1 # 1 /\ Tail(s)[i] = s[i + 1]
  BY <1>1, HeadTailProperties
<1>4. Head(s) \in Elements(s)
  BY <1>1 DEF Elements
<1>5. ASSUME NEW v \in Elements(Tail(s)) PROVE v \in Elements(s) /\ v # Head(s)
  <2>1. PICK i \in 1 .. Len(s) - 1 : Tail(s)[i] = v
    BY <1>2 DEF Elements
  <2>2. v = s[i + 1] /\ i + 1 \in DOMAIN s /\ 1 \in DOMAIN s /\ i + 1 # 1
    BY <1>1, <1>3, <2>1
  <2> QED
    BY <1>1, <2>2 DEF Elements
<1>6. ASSUME NEW v \in Elements(s), v # Head(s) PROVE v \in Elements(Tail(s))
  <2>1. PICK i \in 1 .. Len(s) : s[i] = v
    BY <1>1 DEF Elements
  <2>2. i - 1 \in 1 .. Len(s) - 1 /\ (i - 1) + 1 = i
    BY <1>1, <1>6, <2>1
  <2>3. Tail(s)[i - 1] = v
    BY <1>3, <2>1, <2>2
  <2> QED
    BY <1>2, <2>2, <2>3 DEF Elements
<1>7. ASSUME NEW x \in DOMAIN Tail(s), NEW y \in DOMAIN Tail(s), Tail(s)[x] = Tail(s)[y]
      PROVE  x = y
  <2>1. x \in Int /\ y \in Int /\ s[x + 1] = s[y + 1]
        /\ x + 1 \in DOMAIN s /\ y + 1 \in DOMAIN s
    BY <1>1, <1>2, <1>3, <1>7, SMTT(30)
  <2>2. x + 1 = y + 1
    BY <2>1
  <2> QED
    BY <2>1, <2>2
<1> QED
  BY <1>1, <1>4, <1>5, <1>6, <1>7

Popped(b) == [b EXCEPT !.pending = Tail(b.pending)]

(* A block asked for moves from the pending ones to the outstanding ones.  *)
LEMMA PopParted ==
  ASSUME NEW b \in PieceRecords, NEW A, b.pending # <<>>, Parted(b, A),
         NEW c, c = Popped(b)
  PROVE  /\ c \in PieceRecords /\ c.piece = b.piece
         /\ Head(b.pending) \in Blocks(b.piece)
         /\ <<b.piece, Head(b.pending)>> \notin A
         /\ Parted(c, A \cup {<<b.piece, Head(b.pending)>>})
         /\ InOrder(b) => InOrder(c)
<1>1. b.pending \in Seq(Nat)
  BY DEF PieceRecords
<1>2. /\ Tail(b.pending) \in Seq(Nat)
      /\ Head(b.pending) \in Elements(b.pending)
      /\ Elements(Tail(b.pending)) = Elements(b.pending) \ {Head(b.pending)}
      /\ \A x, y \in DOMAIN Tail(b.pending) :
           Tail(b.pending)[x] = Tail(b.pending)[y] => x = y
  BY <1>1, TailForgetsHead DEF Parted
<1>3. /\ c \in PieceRecords /\ c.piece = b.piece /\ c.pending = Tail(b.pending)
      /\ c.have = b.have /\ c.hashing = b.hashing /\ c.hasher = b.hasher
      /\ c.next_hashed_block = b.next_hashed_block
  BY <1>2 DEF PieceRecords, Popped
<1>4. Head(b.pending) \in Blocks(b.piece) /\ <<b.piece, Head(b.pending)>> \notin A
  BY <1>2 DEF Parted
<1>5. Parted(c, A \cup {<<b.piece, Head(b.pending)>>})
  BY <1>2, <1>3, <1>4, SMTT(30) DEF Parted
<1> QED
  BY <1>3, <1>4, <1>5 DEF InOrder

(* The requests of the other pieces leave a piece as it is.                *)
LEMMA OtherParted ==
  ASSUME NEW b, NEW A, NEW B, Parted(b, A),
         \A k \in Blocks(b.piece) : <<b.piece, k>> \in A <=> <<b.piece, k>> \in B
  PROVE  Parted(b, B)
  BY DEF Parted

(* A block that arrives moves from the outstanding ones to those held, and *)
(* the digest goes on in order or is given up.                             *)
LEMMA AcceptParted ==
  ASSUME NEW b \in PieceRecords, NEW A, Parted(b, A), InOrder(b), BlocksAssumption,
         NEW k \in Blocks(b.piece), <<b.piece, k>> \in A,
         NEW c, c = accept(b, k)
  PROVE  /\ c \in PieceRecords /\ c.piece = b.piece
         /\ Parted(c, A \ {<<b.piece, k>>})
         /\ InOrder(c)
<1>1. k \in Nat
  BY DEF PieceRecords, Blocks, BlocksAssumption
<1>2. CASE b.next_hashed_block = k
  <2>1. /\ c.piece = b.piece /\ c.pending = b.pending /\ c.have = b.have \cup {k}
        /\ c.hashing = b.hashing /\ c.next_hashed_block = b.next_hashed_block + 1
        /\ c.hasher = IF b.hashing THEN Append(b.hasher, k) ELSE b.hasher
        /\ DOMAIN c = DOMAIN b
    BY <1>2 DEF accept, PieceRecords
  <2>2. c \in PieceRecords
    <3> DEFINE h == IF b.hashing THEN Append(b.hasher, k) ELSE b.hasher
               n == b.next_hashed_block + 1
               H == b.have \cup {k}
    <3>1. h \in Seq(Nat) /\ n \in Nat /\ H \in SUBSET Nat
      BY <1>1, AppendProperties DEF PieceRecords
    <3>2. c = [b EXCEPT !.have = H, !.next_hashed_block = n, !.hasher = h]
      BY <1>2 DEF accept
    <3> HIDE DEF h, n, H
    <3> QED
      BY <3>1, <3>2 DEF PieceRecords
  <2>3. InOrder(c)
    <3>1. SUFFICES ASSUME b.hashing
                   PROVE  Append(b.hasher, k) = [n \in 1 .. k + 1 |-> n - 1]
      BY <1>2, <2>1 DEF InOrder
    <3>2. b.hasher = [n \in 1 .. k |-> n - 1] /\ b.hasher \in Seq(Nat)
      BY <1>2, <3>1 DEF InOrder, PieceRecords
    <3>3. [n \in 1 .. k |-> n - 1] \in [1 .. k -> Nat]
      BY <1>1
    <3>4. Len(b.hasher) = k
      BY <1>1, <3>2, <3>3, FunctionIsSeq
    <3>5. /\ Append(b.hasher, k) \in Seq(Nat) /\ Len(Append(b.hasher, k)) = k + 1
          /\ \A n \in 1 .. k : Append(b.hasher, k)[n] = n - 1
          /\ Append(b.hasher, k)[k + 1] = k
      BY <1>1, <3>2, <3>4, AppendProperties
    <3>6. [n \in 1 .. k + 1 |-> n - 1] \in [1 .. k + 1 -> Nat]
      BY <1>1
    <3>7. /\ [n \in 1 .. k + 1 |-> n - 1] \in Seq(Nat)
          /\ Len([n \in 1 .. k + 1 |-> n - 1]) = k + 1
      BY <1>1, <3>6, FunctionIsSeq
    <3>8. \A n \in 1 .. k + 1 : Append(b.hasher, k)[n] = [m \in 1 .. k + 1 |-> m - 1][n]
      BY <1>1, <3>5
    <3> QED
      BY <3>5, <3>7, <3>8, SeqEqual
  <2> QED
    BY <2>1, <2>2, <2>3 DEF Parted
<1>3. CASE b.next_hashed_block # k
  <2>1. /\ c.piece = b.piece /\ c.pending = b.pending /\ c.have = b.have \cup {k}
        /\ c.hashing = FALSE
    BY <1>3 DEF accept, PieceRecords
  <2>2. <<>> \in Seq(Nat)
    OBVIOUS
  <2>3. c \in PieceRecords
    BY <1>1, <1>3, <2>2 DEF accept, PieceRecords
  <2> QED
    BY <2>1, <2>3 DEF Parted, InOrder
<1> QED
  BY <1>2, <1>3

(* A piece just claimed: every block is still to be asked for.             *)
LEMMA NewParted ==
  ASSUME NEW p \in Pieces, NEW A, \A k \in Blocks(p) : <<p, k>> \notin A
  PROVE  /\ NewPiece(p) \in PieceRecords
         /\ Parted(NewPiece(p), A) /\ InOrder(NewPiece(p))
<1> DEFINE s == [i \in 1 .. NumBlocks[p] |-> i - 1]
<1>1. NumBlocks[p] \in Nat
  BY BlocksAssumption
<1>2. s \in [1 .. NumBlocks[p] -> Nat]
  BY <1>1
<1>3. s \in Seq(Nat)
  BY <1>1, <1>2, FunctionIsSeq
<1>4. Elements(s) = Blocks(p)
  <2>1. ASSUME NEW k \in Blocks(p) PROVE k \in Elements(s)
    <3>1. k + 1 \in 1 .. NumBlocks[p] /\ s[k + 1] = k
      BY <1>1 DEF Blocks
    <3> QED
      BY <3>1 DEF Elements
  <2>2. ASSUME NEW k \in Elements(s) PROVE k \in Blocks(p)
    <3>1. PICK i \in 1 .. NumBlocks[p] : k = i - 1
      BY DEF Elements
    <3> QED
      BY <1>1, <3>1 DEF Blocks
  <2> QED
    BY <2>1, <2>2
<1>5. \A x, y \in DOMAIN s : s[x] = s[y] => x = y
  BY <1>1
<1>6. [n \in 1 .. 0 |-> n - 1] = <<>>
  OBVIOUS
<1> HIDE DEF s
<1>7. /\ NewPiece(p).piece = p /\ NewPiece(p).pending = s /\ NewPiece(p).have = {}
      /\ NewPiece(p).hasher = <<>> /\ NewPiece(p).next_hashed_block = 0
  BY DEF NewPiece, s
<1>8. NewPiece(p) \in PieceRecords
  BY <1>3 DEF NewPiece, PieceRecords, s
<1>9. Parted(NewPiece(p), A)
  BY <1>4, <1>5, <1>7 DEF Parted
<1> QED
  BY <1>6, <1>7, <1>8, <1>9 DEF InOrder

-----------------------------------------------------------------------------
(* The slots.                                                              *)

SlotInv ==
  /\ in_flight \in Seq(PieceRecords) /\ Len(in_flight) <= MaxPiecesInFlight
  /\ active_blocks \in SUBSET (Pieces \X Nat)
  /\ IsFiniteSet(active_blocks) /\ Cardinality(active_blocks) <= MaxRequests
  /\ SlotsParted
  /\ \A i \in DOMAIN in_flight : InOrder(in_flight[i])

USE BlocksAssumption, WindowAssumption, TimeoutAssumption

LEMMA ReleaseKeepsSlots ==
  ASSUME ReleaseAll
  PROVE  SlotInv'
<1>1. in_flight' = <<>> /\ active_blocks' = {}
  BY DEF ReleaseAll
<1>2. IsFiniteSet(active_blocks') /\ Cardinality(active_blocks') = 0
  BY <1>1, FS_EmptySet
<1>3. in_flight' \in Seq(PieceRecords) /\ Len(in_flight') = 0 /\ DOMAIN in_flight' = {}
  BY <1>1
<1> QED
  BY <1>1, <1>2, <1>3 DEF SlotInv, SlotsParted

LEMMA RequestKeepsSlots ==
  ASSUME SlotInv, RequestBlock
  PROVE  SlotInv' /\ active_blocks' # {}
<1>1. PICK i \in DOMAIN in_flight :
        /\ in_flight[i].pending # <<>>
        /\ in_flight' = [in_flight EXCEPT ![i] = Popped(in_flight[i])]
        /\ active_blocks' =
             active_blocks \cup {<<in_flight[i].piece, Head(in_flight[i].pending)>>}
  BY DEF RequestBlock, Askable, PopBlock, Popped
<1> DEFINE b == in_flight[i]
           c == Popped(b)
           request == <<b.piece, Head(b.pending)>>
<1>2. /\ in_flight \in Seq(PieceRecords) /\ Len(in_flight) \in Nat
      /\ DOMAIN in_flight = 1 .. Len(in_flight) /\ b \in PieceRecords
      /\ Parted(b, active_blocks) /\ InOrder(b)
  BY <1>1, LenProperties DEF SlotInv, SlotsParted
<1>5. /\ in_flight' = [in_flight EXCEPT ![i] = c]
      /\ active_blocks' = active_blocks \cup {request}
      /\ b.pending # <<>> /\ c = Popped(b)
  BY <1>1
<1> HIDE DEF b, c
<1>3. /\ c \in PieceRecords /\ c.piece = b.piece
      /\ Head(b.pending) \in Blocks(b.piece)
      /\ request \notin active_blocks
      /\ Parted(c, active_blocks \cup {request}) /\ InOrder(c)
  BY <1>2, <1>5, PopParted
<1>4. b.piece \in Pieces /\ Head(b.pending) \in Nat
  BY <1>2, <1>3 DEF PieceRecords, Blocks
<1> HIDE DEF request
<1>6. /\ in_flight' \in Seq(PieceRecords) /\ Len(in_flight') = Len(in_flight)
      /\ DOMAIN in_flight' = DOMAIN in_flight
      /\ \A j \in DOMAIN in_flight : in_flight'[j] = IF j = i THEN c ELSE in_flight[j]
  BY <1>2, <1>3, <1>5, ReplaceIsSeq
<1>7. active_blocks' \in SUBSET (Pieces \X Nat)
  BY <1>4, <1>5 DEF SlotInv, request
<1>8. IsFiniteSet(active_blocks') /\ Cardinality(active_blocks') <= MaxRequests
  <2>1. Cardinality(active_blocks) \in Nat /\ Cardinality(active_blocks) < MaxRequests
    BY FS_CardinalityType DEF RequestBlock, WindowOpen, SlotInv
  <2>2. /\ IsFiniteSet(active_blocks')
        /\ Cardinality(active_blocks') = Cardinality(active_blocks) + 1
    BY <1>3, <1>5, FS_AddElement DEF SlotInv
  <2> QED
    BY <2>1, <2>2
<1>9. \A j \in DOMAIN in_flight : in_flight'[j].piece = in_flight[j].piece
  BY <1>3, <1>6 DEF b
<1>10. Held' = Held
  BY <1>6, <1>9 DEF Held
<1>11. ASSUME NEW j \in DOMAIN in_flight PROVE Parted(in_flight'[j], active_blocks')
  <2>1. CASE j = i
    BY <1>3, <1>5, <1>6, <2>1
  <2>2. CASE j # i
    <3>1. in_flight[j].piece # b.piece /\ Parted(in_flight[j], active_blocks)
      BY <1>1, <2>2 DEF SlotInv, SlotsParted, b
    <3>2. \A k : <<in_flight[j].piece, k>> # request
      BY <3>1 DEF request
    <3> QED
      BY <1>5, <1>6, <2>2, <3>1, <3>2, OtherParted
  <2> QED
    BY <2>1, <2>2
<1>12. SlotsParted'
  <2>1. \A j, k \in DOMAIN in_flight' : in_flight'[j].piece = in_flight'[k].piece => j = k
    BY <1>6, <1>9 DEF SlotInv, SlotsParted
  <2>2. b.piece \in Held
    BY <1>1 DEF Held, b
  <2>3. \A a \in active_blocks' : a[1] \in Held'
    BY <1>5, <1>10, <2>2 DEF SlotInv, SlotsParted, request
  <2> QED
    BY <1>6, <1>11, <2>1, <2>3 DEF SlotsParted
<1> QED
  BY <1>3, <1>5, <1>6, <1>7, <1>8, <1>12 DEF SlotInv

LEMMA ClaimKeepsSlots ==
  ASSUME SlotInv, peer_bitfield \in SUBSET Pieces, NEW p, Claim(p)
  PROVE  SlotInv'
<1>1. /\ p \in Pieces /\ p \notin Held
      /\ in_flight' = Append(in_flight, NewPiece(p)) /\ active_blocks' = active_blocks
      /\ Len(in_flight) < MaxPiecesInFlight
  BY DEF Claim
<1>2. \A k \in Blocks(p) : <<p, k>> \notin active_blocks
  BY <1>1 DEF SlotInv, SlotsParted
<1>3. NewPiece(p) \in PieceRecords /\ Parted(NewPiece(p), active_blocks) /\ InOrder(NewPiece(p))
  BY <1>1, <1>2, NewParted
<1>4. NewPiece(p).piece = p
  BY DEF NewPiece
<1>5. in_flight \in Seq(PieceRecords) /\ Len(in_flight) \in Nat
      /\ DOMAIN in_flight = 1 .. Len(in_flight)
  BY LenProperties DEF SlotInv
<1>6. /\ in_flight' \in Seq(PieceRecords) /\ Len(in_flight') = Len(in_flight) + 1
      /\ \A j \in 1 .. Len(in_flight) : in_flight'[j] = in_flight[j]
      /\ in_flight'[Len(in_flight) + 1] = NewPiece(p)
  BY <1>1, <1>3, <1>5, AppendProperties
<1>7. DOMAIN in_flight' = 1 .. Len(in_flight) + 1
  BY <1>6, LenProperties
<1>8. ASSUME NEW j \in DOMAIN in_flight'
      PROVE  \/ j \in DOMAIN in_flight /\ in_flight'[j] = in_flight[j]
             \/ j = Len(in_flight) + 1 /\ in_flight'[j] = NewPiece(p)
  BY <1>5, <1>6, <1>7
<1> HIDE DEF NewPiece
<1>9. \A j \in DOMAIN in_flight : in_flight[j].piece # p
  BY <1>1 DEF Held
<1>10. SlotsParted'
  <2>1. \A j \in DOMAIN in_flight' : Parted(in_flight'[j], active_blocks')
    BY <1>1, <1>3, <1>8 DEF SlotInv, SlotsParted
  <2>2. \A j, k \in DOMAIN in_flight' : in_flight'[j].piece = in_flight'[k].piece => j = k
    BY <1>4, <1>8, <1>9 DEF SlotInv, SlotsParted
  <2>3. \A q \in Held : q \in Held'
    BY <1>5, <1>6, <1>7 DEF Held
  <2> QED
    BY <1>1, <2>1, <2>2, <2>3 DEF SlotInv, SlotsParted
<1>11. \A j \in DOMAIN in_flight' : InOrder(in_flight'[j])
  BY <1>3, <1>8 DEF SlotInv
<1>12. Len(in_flight') <= MaxPiecesInFlight
  BY <1>1, <1>5, <1>6
<1> QED
  BY <1>1, <1>6, <1>10, <1>11, <1>12 DEF SlotInv

(* A block that arrives: its piece stays in its slot, or is whole and      *)
(* leaves it, and the last slot takes its place.                           *)
LEMMA ReceiveKeepsSlots ==
  ASSUME SlotInv, NEW p \in Pieces, NEW k \in Blocks(p), ReceiveBlock(p, k)
  PROVE  /\ SlotInv'
         /\ \/ pc' = "fill_pipeline" /\ finishing' = finishing
            \/ \E c \in PieceRecords :
                 pc' = "complete_piece" /\ finishing' = <<c>> /\ InOrder(c)
<1> DEFINE i == slot_of(p)
           b == in_flight[i]
           c == accept(b, k)
<1>1. i \in DOMAIN in_flight /\ b.piece = p /\ <<p, k>> \in active_blocks
  <2>1. \E j \in DOMAIN in_flight : in_flight[j].piece = p
    BY DEF ReceiveBlock, Held
  <2> QED
    BY <2>1 DEF ReceiveBlock, slot_of
<1>2. /\ in_flight \in Seq(PieceRecords) /\ Len(in_flight) \in Nat
      /\ DOMAIN in_flight = 1 .. Len(in_flight) /\ b \in PieceRecords
      /\ Parted(b, active_blocks) /\ InOrder(b)
  BY <1>1, LenProperties DEF SlotInv, SlotsParted
<1>3. \/ /\ in_flight' = swap_remove(in_flight, i)
         /\ finishing' = <<c>> /\ pc' = "complete_piece"
         /\ active_blocks' = {a \in active_blocks : a[1] # p}
      \/ /\ in_flight' = [in_flight EXCEPT ![i] = c]
         /\ active_blocks' = active_blocks \ {<<p, k>>}
         /\ finishing' = finishing /\ pc' = "fill_pipeline"
  BY DEF ReceiveBlock, Begin
<1> HIDE DEF i, b
<1>4. /\ c \in PieceRecords /\ c.piece = p
      /\ Parted(c, active_blocks \ {<<p, k>>}) /\ InOrder(c)
  BY <1>1, <1>2, AcceptParted
<1> HIDE DEF c
<1>5. active_blocks' \subseteq active_blocks
  BY <1>3
<1>6. /\ active_blocks' \in SUBSET (Pieces \X Nat)
      /\ IsFiniteSet(active_blocks') /\ Cardinality(active_blocks') <= MaxRequests
  <2>1. /\ IsFiniteSet(active_blocks') /\ Cardinality(active_blocks') \in Nat
        /\ Cardinality(active_blocks) \in Nat
        /\ Cardinality(active_blocks') <= Cardinality(active_blocks)
    BY <1>5, FS_Subset, FS_CardinalityType DEF SlotInv
  <2> QED
    BY <1>5, <2>1 DEF SlotInv
<1>7. \A j \in DOMAIN in_flight : j # i => in_flight[j].piece # p
  BY <1>1 DEF SlotInv, SlotsParted, b
<1>8. ASSUME NEW j \in DOMAIN in_flight, j # i
      PROVE  Parted(in_flight[j], active_blocks')
  <2>1. Parted(in_flight[j], active_blocks) /\ in_flight[j].piece # p
    BY <1>7, <1>8 DEF SlotInv, SlotsParted
  <2>2. \A n : <<in_flight[j].piece, n>> \in active_blocks
               <=> <<in_flight[j].piece, n>> \in active_blocks'
    BY <1>3, <2>1
  <2> QED
    BY <2>1, <2>2, OtherParted
<1>9. \A a \in active_blocks : \E j \in DOMAIN in_flight : in_flight[j].piece = a[1]
  BY DEF SlotInv, SlotsParted, Held
<1>10. CASE /\ in_flight' = [in_flight EXCEPT ![i] = c]
            /\ active_blocks' = active_blocks \ {<<p, k>>}
            /\ finishing' = finishing /\ pc' = "fill_pipeline"
  <2>1. /\ in_flight' \in Seq(PieceRecords) /\ Len(in_flight') = Len(in_flight)
        /\ DOMAIN in_flight' = DOMAIN in_flight
        /\ \A j \in DOMAIN in_flight : in_flight'[j] = IF j = i THEN c ELSE in_flight[j]
    BY <1>1, <1>2, <1>4, <1>10, ReplaceIsSeq
  <2>2. \A j \in DOMAIN in_flight : in_flight'[j].piece = in_flight[j].piece
    BY <1>1, <1>4, <2>1 DEF b
  <2>3. \A j \in DOMAIN in_flight' : Parted(in_flight'[j], active_blocks')
    BY <1>4, <1>8, <1>10, <2>1
  <2>4. \A j, n \in DOMAIN in_flight' : in_flight'[j].piece = in_flight'[n].piece => j = n
    BY <2>1, <2>2 DEF SlotInv, SlotsParted
  <2>5. \A a \in active_blocks' : a[1] \in Held'
    BY <1>5, <1>9, <2>1, <2>2 DEF Held
  <2>6. \A j \in DOMAIN in_flight' : InOrder(in_flight'[j])
    BY <1>4, <2>1 DEF SlotInv
  <2> QED
    BY <1>6, <1>10, <2>1, <2>3, <2>4, <2>5, <2>6 DEF SlotInv, SlotsParted
<1>11. CASE /\ in_flight' = swap_remove(in_flight, i)
            /\ finishing' = <<c>> /\ pc' = "complete_piece"
            /\ active_blocks' = {a \in active_blocks : a[1] # p}
  <2> DEFINE last == Len(in_flight)
             from(j) == IF j = i THEN last ELSE j
  <2>1. /\ in_flight' \in Seq(PieceRecords) /\ Len(in_flight') = last - 1
        /\ DOMAIN in_flight' = 1 .. last - 1
        /\ \A j \in 1 .. last - 1 : in_flight'[j] = IF j = i THEN in_flight[last] ELSE in_flight[j]
    BY <1>1, <1>2, <1>11, SwapRemoveIsSeq, ZenonT(40)
  <2>2. ASSUME NEW j \in DOMAIN in_flight'
        PROVE  from(j) \in DOMAIN in_flight /\ from(j) # i /\ in_flight'[j] = in_flight[from(j)]
    BY <1>1, <1>2, <2>1
  <2>3. \A j \in DOMAIN in_flight' : Parted(in_flight'[j], active_blocks')
    BY <1>8, <2>2
  <2>4. ASSUME NEW j \in DOMAIN in_flight', NEW n \in DOMAIN in_flight',
               in_flight'[j].piece = in_flight'[n].piece
        PROVE  j = n
    <3>1. from(j) = from(n)
      BY <2>2, <2>4 DEF SlotInv, SlotsParted
    <3> QED
      BY <1>2, <2>1, <3>1
  <2>5. ASSUME NEW a \in active_blocks' PROVE a[1] \in Held'
    <3>1. PICK j \in DOMAIN in_flight : in_flight[j].piece = a[1]
      BY <1>5, <1>9
    <3>2. j # i
      BY <1>1, <1>11, <3>1 DEF b
    <3>3. PICK n \in DOMAIN in_flight' : in_flight'[n] = in_flight[j]
      <4>1. CASE j = last
        BY <1>1, <1>2, <2>1, <3>2, <4>1
      <4>2. CASE j # last
        BY <1>2, <2>1, <3>2, <4>2
      <4> QED
        BY <4>1, <4>2
    <3> QED
      BY <3>1, <3>3 DEF Held
  <2>6. \A j \in DOMAIN in_flight' : InOrder(in_flight'[j])
    BY <2>2 DEF SlotInv
  <2>7. Len(in_flight') <= MaxPiecesInFlight
    BY <1>2, <2>1 DEF SlotInv
  <2>8. SlotsParted'
    BY <2>3, <2>4, <2>5 DEF SlotsParted
  <2> QED
    BY <1>4, <1>6, <1>11, <2>1, <2>6, <2>7, <2>8, SMTT(20) DEF SlotInv
<1> QED
  BY <1>3, <1>10, <1>11

-----------------------------------------------------------------------------
(* The connection.                                                         *)

LEMMA InitRequestInv == Init => RequestInv
<1> SUFFICES ASSUME Init PROVE RequestInv
  OBVIOUS
<1>1. /\ IsFiniteSet(active_blocks) /\ Cardinality(active_blocks) = 0
      /\ in_flight \in Seq(PieceRecords) /\ Len(in_flight) = 0 /\ DOMAIN in_flight = {}
      /\ finishing \in Seq(PieceRecords) /\ DOMAIN finishing = {}
  BY FS_EmptySet DEF Init
<1>2. TypeOK
  <2>1. 0 <= MaxRequests /\ 0 <= MaxPiecesInFlight /\ 0 \in 0 .. MaxFailures
    OBVIOUS
  <2>2. active_blocks \in SUBSET (Pieces \X Nat)
    BY DEF Init
  <2>3. deadline \in NoDeadline .. RequestTimeout
    BY DEF Init, NoDeadline
  <2> QED
    BY <1>1, <2>1, <2>2, <2>3 DEF Init, TypeOK
<1> QED
  BY <1>1, <1>2 DEF Init, RequestInv, SlotsParted, HashedInOrder, DeadlineFits,
     ChokedHoldsNothing

(* A step that leaves the slots and the buffers taken out as they are.     *)
LEMMA SameWork ==
  ASSUME RequestInv, UNCHANGED work
  PROVE  SlotInv' /\ finishing' \in Seq(PieceRecords) /\ HashedInOrder'
  BY DEF RequestInv, TypeOK, SlotInv, SlotsParted, HashedInOrder, work, Held

LEMMA NextKeepsRequest == RequestInv /\ [Next]_vars => RequestInv'
<1> SUFFICES ASSUME RequestInv, [Next]_vars PROVE RequestInv'
  OBVIOUS
<1> DEFINE Rest ==
      /\ pc \in {"loop", "update_interest", "update_interest_and_fill",
                 "fill_pipeline", "complete_piece", "send", "send_and_fill",
                 "send_have", "closed"}
      /\ arm \in {"none", "start", "item", "block", "tick", "keep_alive", "event"}
      /\ am_choking \in BOOLEAN /\ am_interested \in BOOLEAN
      /\ peer_choking \in BOOLEAN /\ peer_interested \in BOOLEAN
      /\ deadline \in NoDeadline .. RequestTimeout
      /\ peer_bitfield \in SUBSET Pieces
      /\ complete \in SUBSET Pieces
      /\ events \in Nat
      /\ failures \in 0 .. MaxFailures
      /\ DeadlineFits /\ ChokedHoldsNothing
<1>a. Rest /\ SlotInv
  BY DEF RequestInv, TypeOK, SlotInv, HashedInOrder
<1>b. ASSUME Rest', SlotInv', finishing' \in Seq(PieceRecords), HashedInOrder'
      PROVE  RequestInv'
  BY <1>b DEF RequestInv, TypeOK, SlotInv
<1>c. ASSUME SlotInv', finishing' \in {finishing, <<>>}
      PROVE  finishing' \in Seq(PieceRecords) /\ HashedInOrder'
  <2>1. finishing \in Seq(PieceRecords) /\ \A i \in DOMAIN finishing : InOrder(finishing[i])
    BY DEF RequestInv, TypeOK, HashedInOrder
  <2>2. <<>> \in Seq(PieceRecords) /\ DOMAIN <<>> = {}
    OBVIOUS
  <2>3. \A i \in DOMAIN in_flight' : InOrder(in_flight'[i])
    BY <1>c DEF SlotInv
  <2>4. CASE finishing' = finishing
    BY <2>1, <2>3, <2>4 DEF HashedInOrder
  <2>5. CASE finishing' = <<>>
    BY <2>2, <2>3, <2>5 DEF HashedInOrder
  <2> QED
    BY <1>c, <2>4, <2>5
<1> USE DEF DeadlineFits, ChokedHoldsNothing, NoDeadline, flags, world
<1>1. ASSUME UNCHANGED <<am_interested, peer_choking>>, NEW item, Handled(active_blocks, item),
             am_choking' \in BOOLEAN, peer_interested' \in BOOLEAN,
             UNCHANGED <<peer_bitfield, work, world>>
      PROVE  RequestInv'
  BY <1>1, <1>a, <1>b, SameWork DEF Handled, Settle, work
<1>2. CASE Arrival
  <2>1. CASE ReceiveChoke
    <3>1. SlotInv' /\ finishing' = finishing /\ in_flight' = <<>> /\ active_blocks' = {}
      BY <2>1, ReleaseKeepsSlots DEF ReceiveChoke, ReleaseAll
    <3> QED
      BY <2>1, <3>1, <1>a, <1>b, <1>c DEF ReceiveChoke, Handled, Settle
  <2>2. CASE ReceiveUnchoke
    BY <2>2, <1>a, <1>b, SameWork DEF ReceiveUnchoke, Begin, work
  <2>3. CASE ReceiveInterested
    <3>1. CASE am_choking
      BY <2>3, <3>1, <1>a, <1>b, SameWork DEF ReceiveInterested, Begin, work
    <3>2. CASE ~am_choking
      BY <2>3, <3>2, <1>1 DEF ReceiveInterested
    <3> QED
      BY <3>1, <3>2
  <2>4. CASE ReceiveNotInterested
    BY <2>4, <1>1, <1>a DEF ReceiveNotInterested
  <2>5. ASSUME NEW p \in Pieces, ReceiveHave(p) PROVE RequestInv'
    BY <2>5, <1>a, <1>b, SameWork DEF ReceiveHave, Begin, work
  <2>6. CASE ReceiveOther
    BY <2>6, <1>1, <1>a DEF ReceiveOther
  <2>7. ASSUME NEW p \in Pieces, NEW k \in Blocks(p), ReceiveUnwanted(p, k) PROVE RequestInv'
    BY <2>7, <1>1, <1>a DEF ReceiveUnwanted
  <2>8. ASSUME NEW p \in Pieces, NEW k \in Blocks(p), ReceiveBlock(p, k) PROVE RequestInv'
    <3>1. /\ SlotInv'
          /\ \/ pc' = "fill_pipeline" /\ finishing' = finishing
             \/ \E c \in PieceRecords :
                  pc' = "complete_piece" /\ finishing' = <<c>> /\ InOrder(c)
      BY <2>8, <1>a, ReceiveKeepsSlots
    <3>2. /\ arm' = "block" /\ active_blocks # {}
          /\ UNCHANGED <<flags, peer_bitfield, deadline, world>>
      BY <2>8 DEF ReceiveBlock, Begin
    <3>3. CASE pc' = "fill_pipeline" /\ finishing' = finishing
      BY <3>1, <3>2, <3>3, <1>a, <1>b, <1>c
    <3>4. ASSUME NEW c \in PieceRecords, pc' = "complete_piece", finishing' = <<c>>, InOrder(c)
          PROVE  RequestInv'
      <4>1. /\ finishing' \in Seq(PieceRecords) /\ finishing' # <<>>
            /\ \A i \in DOMAIN finishing' : finishing'[i] = c
        BY <3>4
      <4>2. HashedInOrder'
        BY <3>1, <3>4, <4>1 DEF HashedInOrder, SlotInv
      <4> QED
        BY <3>1, <3>2, <3>4, <4>1, <4>2, <1>a, <1>b
    <3> QED
      BY <3>1, <3>3, <3>4
  <2>9. CASE ReceiveRequest
    BY <2>9, <1>a, <1>b, SameWork DEF ReceiveRequest, Begin, work
  <2> QED
    BY <1>2, <2>1, <2>2, <2>3, <2>4, <2>5, <2>6, <2>7, <2>8, <2>9
       DEF Arrival, BlockArrives
<1>3. CASE RunArm
  <2>1. CASE UpdateInterest
    BY <2>1, <1>a, <1>b, SameWork DEF UpdateInterest, EndArm, Settle, work
  <2>2. ASSUME NEW p \in Pieces, Claim(p) PROVE RequestInv'
    <3>1. SlotInv'
      BY <2>2, <1>a, ClaimKeepsSlots
    <3> QED
      BY <2>2, <3>1, <1>a, <1>b, <1>c DEF Claim, WindowOpen, MayFill
  <2>3. CASE EndFill
    BY <2>3, <1>a, <1>b, SameWork DEF EndFill, EndArm, Settle, work
  <2>4. ASSUME NEW ok \in BOOLEAN, CompletePiece(ok) PROVE RequestInv'
    <3>1. finishing # <<>> /\ finishing \in Seq(PieceRecords) /\ arm = "block"
      BY <2>4, <1>a DEF CompletePiece, RequestInv, TypeOK
    <3>2. Head(finishing).piece \in Pieces
      <4>1. Head(finishing) \in PieceRecords
        BY <3>1, HeadTailProperties
      <4> QED
        BY <4>1 DEF PieceRecords
    <3>3. SlotInv' /\ finishing' = <<>>
      BY <2>4, <1>a DEF CompletePiece, SlotInv, SlotsParted, Held
    <3>4. /\ complete' \in SUBSET Pieces /\ events' \in Nat
          /\ failures' \in 0 .. MaxFailures
      BY <2>4, <3>2, <1>a DEF CompletePiece
    <3> QED
      BY <2>4, <3>1, <3>3, <3>4, <1>a, <1>b, <1>c DEF CompletePiece
  <2> QED
    BY <1>3, <2>1, <2>2, <2>3, <2>4 DEF RunArm
<1>4. CASE RequestDeadline
  <2>1. SlotInv' /\ finishing' = finishing /\ in_flight' = <<>> /\ active_blocks' = {}
    BY <1>4, ReleaseKeepsSlots DEF RequestDeadline, ReleaseAll
  <2> QED
    BY <1>4, <2>1, <1>a, <1>b, <1>c DEF RequestDeadline
<1>5. CASE AvailabilityTick
  BY <1>5, <1>a, <1>b, SameWork DEF AvailabilityTick, Begin, work
<1>6. CASE HandlePieceEvent
  BY <1>6, <1>a, <1>b, SameWork DEF HandlePieceEvent, Begin, work
<1>7. CASE IdleDeadline \/ Disconnect
  <2>1. Close
    BY <1>7 DEF IdleDeadline, Disconnect
  <2>2. SlotInv' /\ finishing' = <<>> /\ in_flight' = <<>> /\ active_blocks' = {}
    BY <2>1, ReleaseKeepsSlots DEF Close, ReleaseAll
  <2> QED
    BY <2>1, <2>2, <1>a, <1>b, <1>c DEF Close
<1>8. ASSUME NEW p \in Pieces, CompletedElsewhere(p) PROVE RequestInv'
  BY <1>8, <1>a, <1>b, SameWork DEF CompletedElsewhere, work
<1>9. CASE UNCHANGED vars
  BY <1>9, <1>a, <1>b, SameWork DEF vars, work
<1>10. CASE RequestBlock
  <2>1. SlotInv' /\ active_blocks' # {}
    BY <1>10, <1>a, RequestKeepsSlots
  <2> QED
    BY <1>10, <2>1, <1>a, <1>b, <1>c DEF RequestBlock, WindowOpen, MayFill
<1>11. CASE Sent
  BY <1>11, <1>a, <1>b, SameWork DEF Sent, EndArm, Settle, work
<1>12. CASE Tick
  BY <1>12, <1>a, <1>b, SameWork DEF Tick, work
<1>13. CASE KeepAlive
  BY <1>13, <1>a, <1>b, SameWork DEF KeepAlive, Begin, work
<1> QED
  BY <1>2, <1>3, <1>4, <1>5, <1>6, <1>7, <1>8, <1>9, <1>10, <1>11, <1>12, <1>13 DEF Next

(* The inductive invariant holds of every run of a connection.             *)
THEOREM RequestInvariant == Spec => []RequestInv
  BY InitRequestInv, NextKeepsRequest, PTL DEF Spec

(* Type correctness; the window and the slots are never overfull.          *)
THEOREM RequestTypeCorrect == Spec => []TypeOK
<1>1. RequestInv => TypeOK
  BY DEF RequestInv
<1> QED
  BY <1>1, RequestInvariant, PTL

(* Whatever path leads into fill_pipeline, a choked connection holds no    *)
(* piece and waits for no block.                                           *)
THEOREM ChokedHolds == Spec => []ChokedHoldsNothing
<1>1. RequestInv => ChokedHoldsNothing
  BY DEF RequestInv
<1> QED
  BY <1>1, RequestInvariant, PTL

(* The deadline never fires on a connection that waits for nothing.        *)
THEOREM DeadlineWaits == Spec => []DeadlineMeansWaiting
<1>1. RequestInv => DeadlineMeansWaiting
  BY DEF RequestInv, DeadlineFits, DeadlineMeansWaiting
<1> QED
  BY <1>1, RequestInvariant, PTL

(* In whatever order the blocks of a piece came, what is compared with its *)
(* hash is every block, once, in order.                                    *)
THEOREM DigestCovers == Spec => []DigestCoversPiece
<1>1. RequestInv => DigestCoversPiece
  BY DEF RequestInv, HashedInOrder, InOrder, DigestCoversPiece, digest
<1> QED
  BY <1>1, RequestInvariant, PTL

LEMMA PartedCounts ==
  ASSUME NEW b \in PieceRecords, Parted(b, active_blocks)
  PROVE  /\ Elements(b.pending) \cup ActiveOf(b.piece) \cup b.have = Blocks(b.piece)
         /\ Len(b.pending) + Cardinality(ActiveOf(b.piece)) + Cardinality(b.have)
              = NumBlocks[b.piece]
<1> DEFINE P == Elements(b.pending)
           A == ActiveOf(b.piece)
           H == b.have
           B == Blocks(b.piece)
<1>1. P \cup A \cup H = B /\ P \cap A = {} /\ (P \cup A) \cap H = {}
  BY DEF Parted, ActiveOf
<1>2. NumBlocks[b.piece] \in Nat \ {0}
  BY DEF PieceRecords
<1>3. IsFiniteSet(B) /\ Cardinality(B) = NumBlocks[b.piece]
  <2>1. 0 \in Int /\ NumBlocks[b.piece] - 1 \in Int /\ ~(0 > NumBlocks[b.piece] - 1)
        /\ (NumBlocks[b.piece] - 1) - 0 + 1 = NumBlocks[b.piece]
    BY <1>2
  <2> QED
    BY <2>1, FS_Interval DEF Blocks
<1>4. IsFiniteSet(P) /\ Cardinality(P) = Len(b.pending)
  <2>1. Len(b.pending) \in Nat /\ DOMAIN b.pending = 1 .. Len(b.pending)
    BY LenProperties DEF PieceRecords
  <2>2. IsFiniteSet(1 .. Len(b.pending)) /\ Cardinality(1 .. Len(b.pending)) = Len(b.pending)
    BY <2>1, FS_Interval
  <2>3. b.pending \in [1 .. Len(b.pending) -> P]
    BY <2>1, LenProperties DEF Elements, PieceRecords
  <2>4. b.pending \in Surjection(1 .. Len(b.pending), P)
    BY <2>1, <2>3 DEF Surjection, Elements
  <2>5. b.pending \in Injection(1 .. Len(b.pending), P)
    BY <2>1, <2>3 DEF Injection, IsInjective, Parted
  <2> HIDE DEF P
  <2> QED
    BY <2>2, <2>4, <2>5, FS_Surjection
<1> HIDE DEF P, A, H, B
<1>5. IsFiniteSet(A) /\ IsFiniteSet(H)
  BY <1>1, <1>3, FS_Subset
<1>6. /\ Cardinality(P) \in Nat /\ Cardinality(A) \in Nat /\ Cardinality(H) \in Nat
      /\ Cardinality({}) = 0
  BY <1>4, <1>5, FS_CardinalityType, FS_EmptySet
<1>7. IsFiniteSet(P \cup A) /\ Cardinality(P \cup A) = Cardinality(P) + Cardinality(A)
  <2>1. Cardinality(P \cap A) = 0
    BY <1>1, <1>6
  <2>2. /\ IsFiniteSet(P \cup A)
        /\ Cardinality(P \cup A) = Cardinality(P) + Cardinality(A) - Cardinality(P \cap A)
    BY <1>4, <1>5, FS_Union
  <2> QED
    BY <1>6, <2>1, <2>2
<1>8. Cardinality(B) = Cardinality(P) + Cardinality(A) + Cardinality(H)
  <2>1. Cardinality((P \cup A) \cap H) = 0
    BY <1>1, <1>6, Zenon
  <2>2. Cardinality((P \cup A) \cup H)
          = Cardinality(P \cup A) + Cardinality(H) - Cardinality((P \cup A) \cap H)
    BY <1>5, <1>7, FS_Union
  <2>3. Cardinality(B) = Cardinality((P \cup A) \cup H)
    BY <1>1
  <2> QED
    BY <1>6, <1>7, <2>1, <2>2, <2>3
<1> QED
  BY <1>1, <1>3, <1>4, <1>8 DEF P, A, H, B

(* Every block of a piece in hand is pending, asked for or held, once.     *)
THEOREM BlocksAreAccounted == Spec => []BlocksAccounted
<1>1. RequestInv => BlocksAccounted
  <2> SUFFICES ASSUME RequestInv PROVE BlocksAccounted
    OBVIOUS
  <2>1. ASSUME NEW i \in DOMAIN in_flight
        PROVE  in_flight[i] \in PieceRecords /\ Parted(in_flight[i], active_blocks)
    BY LenProperties DEF RequestInv, TypeOK, SlotsParted
  <2> QED
    BY <2>1, PartedCounts DEF RequestInv, SlotsParted, BlocksAccounted
<1> QED
  BY <1>1, RequestInvariant, PTL
=============================================================================
