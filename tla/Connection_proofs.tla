-------------------------- MODULE Connection_proofs ---------------------------
(***************************************************************************)
(* Proofs about Connection: whatever the peer sends first, and in whatever *)
(* pieces it arrives, the decoder yields what the frames mean, in order,   *)
(* and nothing stays hidden in the buffer.                                 *)
(*                                                                         *)
(* The inductive invariant lines the buffer up with the script: what is    *)
(* read and not decoded, followed by what has not arrived, is always the   *)
(* rest of the script from some frame on, and what is still expected is    *)
(* what those frames mean.                                                 *)
(***************************************************************************)
EXTENDS Connection, NaturalsInduction, WellFoundedInduction, SequenceTheorems, TLAPS

-----------------------------------------------------------------------------
(* Numbers.                                                                *)

(* Every nonempty set of natural numbers has a least element.              *)
LEMMA LeastNumber ==
  ASSUME NEW S \in SUBSET Nat, S # {}
  PROVE  \E p \in S : \A q \in S : p <= q
<1> DEFINE Below == {pair \in Nat \X Nat : pair[1] < pair[2]}
<1>1. IsWellFoundedOn(Below, Nat)
  BY NatLessThanWellFounded DEF OpToRel
<1>2. PICK p \in S : \A q \in S : <<q, p>> \notin Below
  <2> HIDE DEF Below
  <2> QED  BY <1>1, WFMin
<1>3. ASSUME NEW q \in S
      PROVE  p <= q
  <2>1. p \in Nat /\ q \in Nat
    OBVIOUS
  <2>2. <<q, p>> \in Below <=> q < p
    BY <2>1
  <2> QED
    BY <1>2, <2>1, <2>2
<1> QED
  BY <1>3

(* A nonempty set of numbers up to n has a greatest element.               *)
LEMMA GreatestNumber ==
  ASSUME NEW n \in Nat, NEW S \in SUBSET (0 .. n), S # {}
  PROVE  \E p \in S : \A q \in S : q <= p
<1> DEFINE Distances == {n - q : q \in S}
<1>1. Distances \in SUBSET Nat /\ Distances # {}
  <2>1. \A q \in S : n - q \in Nat
    OBVIOUS
  <2> QED
    BY <2>1
<1>2. PICK d \in Distances : \A e \in Distances : d <= e
  <2> HIDE DEF Distances
  <2> QED  BY <1>1, LeastNumber
<1>3. PICK p \in S : d = n - p
  OBVIOUS
<1>4. ASSUME NEW q \in S
      PROVE  q <= p
  <2>1. n - q \in Distances
    OBVIOUS
  <2>2. p \in Nat /\ q \in Nat
    OBVIOUS
  <2> HIDE DEF Distances
  <2>3. d <= n - q
    BY <1>2, <2>1, SMTT(20)
  <2> QED
    BY <1>3, <2>2, <2>3
<1> QED
  BY <1>4

-----------------------------------------------------------------------------
(* The recursive definitions have the values their equations say.          *)

(* Every part is joined to what the parts behind it join to.               *)
LEMMA JoinedUnfolds ==
  ASSUME NEW parts, Len(parts) \in Nat
  PROVE  JoinedFrom(parts) =
           [i \in 1 .. Len(parts) + 1 |->
              IF i > Len(parts) THEN <<>> ELSE parts[i] \o JoinedFrom(parts)[i + 1]]
<1> DEFINE n == Len(parts)
<1>n. n \in Nat
  OBVIOUS
<1> DEFINE Joins(g, m) == g = [i \in m .. n + 1 |->
                                IF i > n THEN <<>> ELSE parts[i] \o g[i + 1]]
           Starts == {m \in 1 .. n + 1 : \E g : Joins(g, m)}
<1> HIDE DEF n
<1>1. Joins([i \in n + 1 .. n + 1 |-> <<>>], n + 1)
  <2>1. \A i \in n + 1 .. n + 1 : i > n
    BY <1>n
  <2> QED
    BY <2>1
<1>2. n + 1 \in Starts
  <2> HIDE DEF Joins
  <2> QED  BY <1>1, <1>n
<1>3. PICK m \in Starts : \A k \in Starts : m <= k
  <2>1. Starts \in SUBSET Nat
    <3> HIDE DEF Joins
    <3> QED  BY <1>n
  <2> HIDE DEF Starts
  <2> QED
    BY <1>2, <2>1, LeastNumber
<1>4. m = 1
  <2> SUFFICES ASSUME m # 1
               PROVE  m - 1 \in Starts
    <3> HIDE DEF Joins
    <3> QED  BY <1>n, <1>3
  <2>1. PICK g : Joins(g, m)
    OBVIOUS
  <2>m. m \in 2 .. n + 1
    <3> HIDE DEF Joins
    <3> QED  BY <1>n
  <2> HIDE DEF Starts
  <2> DEFINE h == [i \in m - 1 .. n + 1 |->
                     IF i = m - 1 THEN parts[i] \o g[m] ELSE g[i]]
  <2>2. ASSUME NEW i \in m - 1 .. n + 1
        PROVE  h[i] = IF i > n THEN <<>> ELSE parts[i] \o h[i + 1]
    <3>1. CASE i = m - 1
      <4>1. i <= n /\ i + 1 = m /\ m \in m - 1 .. n + 1 /\ m # m - 1
        BY <1>n, <2>m, <3>1
      <4>2. h[m] = g[m] /\ h[i] = parts[i] \o g[m]
        BY <3>1, <4>1
      <4>3. h[i + 1] = g[m]
        BY <4>1, <4>2
      <4>4. ~ (i > n)
        BY <1>n, <4>1
      <4> HIDE DEF h
      <4> QED
        BY <4>2, <4>3, <4>4, Zenon
    <3>2. CASE i # m - 1
      <4>1. i \in m .. n + 1
        BY <1>n, <2>m, <3>2
      <4>2. h[i] = g[i]
        BY <3>2
      <4>3. i <= n => h[i + 1] = g[i + 1]
        BY <1>n, <2>m, <4>1
      <4>4. g[i] = IF i > n THEN <<>> ELSE parts[i] \o g[i + 1]
        BY <2>1, <4>1
      <4> QED
        BY <1>n, <2>m, <4>1, <4>2, <4>3, <4>4
    <3> QED
      BY <3>1, <3>2
  <2>3. Joins(h, m - 1)
    BY <2>2
  <2> QED
    <3> HIDE DEF h, Joins
    <3> QED  BY <1>n, <2>m, <2>3 DEF Starts
<1>5. \E g : g = [i \in 1 .. n + 1 |-> IF i > n THEN <<>> ELSE parts[i] \o g[i + 1]]
  BY <1>4
<1> QED
  BY <1>5, ZenonT(40) DEF JoinedFrom, n

(* The steps PastUnknown takes, each over one frame of an unknown kind.    *)
LEMMA PastUnknownUnfolds ==
  ASSUME NEW s \in Seq(Nat)
  PROVE  \E past :
           /\ past = [i \in 0 .. Len(s) |->
                        IF WholeFrame(s, i) /\ UnknownFrame(s, i)
                        THEN past[EndOfFrame(s, i)] ELSE i]
           /\ PastUnknown(s) = past[0]
<1> DEFINE n == Len(s)
           Skips(i) == WholeFrame(s, i) /\ UnknownFrame(s, i)
           Follows(g, m) == g = [i \in m .. n |-> IF Skips(i) THEN g[EndOfFrame(s, i)] ELSE i]
           Starts == {m \in 0 .. n : \E g : Follows(g, m)}
<1>1. \A i \in 0 .. n : Skips(i) => EndOfFrame(s, i) \in i + 1 .. n
  BY DEF WholeFrame, EndOfFrame
<1>2. n \in Starts
  <2>1. ~ Skips(n)
    BY DEF WholeFrame
  <2>2. Follows([i \in n .. n |-> i], n)
    BY <2>1
  <2> QED
    <3> HIDE DEF Follows
    <3> QED  BY <2>2
<1>3. PICK m \in Starts : \A k \in Starts : m <= k
  <2>1. Starts \in SUBSET Nat
    OBVIOUS
  <2> HIDE DEF Starts
  <2> QED
    BY <1>2, <2>1, LeastNumber
<1>4. m = 0
  <2> SUFFICES ASSUME m # 0
               PROVE  m - 1 \in Starts
    BY <1>3
  <2>1. PICK g : Follows(g, m)
    OBVIOUS
  <2> DEFINE h == [i \in m - 1 .. n |->
                     IF i \in m .. n THEN g[i]
                     ELSE IF Skips(i) THEN g[EndOfFrame(s, i)] ELSE i]
  <2> HIDE DEF Skips
  <2>2. ASSUME NEW i \in m - 1 .. n
        PROVE  h[i] = IF Skips(i) THEN h[EndOfFrame(s, i)] ELSE i
    <3>1. Skips(i) => EndOfFrame(s, i) \in m .. n
      BY <1>1
    <3>2. Skips(i) => h[EndOfFrame(s, i)] = g[EndOfFrame(s, i)]
      BY <3>1
    <3>3. i \in m .. n => g[i] = IF Skips(i) THEN g[EndOfFrame(s, i)] ELSE i
      BY <2>1
    <3> QED
      BY <3>2, <3>3
  <2>3. Follows(h, m - 1)
    BY <2>2
  <2> QED
    <3> HIDE DEF h, Follows
    <3> QED  BY <2>3
<1>5. \E g : Follows(g, 0)
  BY <1>4
<1> QED
  BY <1>5 DEF PastUnknown

(* What sequences of one kind join to is a sequence of that kind.          *)
LEMMA JoinedType ==
  ASSUME NEW T, NEW parts \in Seq(Seq(T)), NEW i \in 1 .. Len(parts) + 1
  PROVE  JoinedFrom(parts)[i] \in Seq(T)
<1> DEFINE n == Len(parts)
           joined == JoinedFrom(parts)
           Wrong == {m \in 0 .. n + 1 : m # 0 /\ joined[m] \notin Seq(T)}
<1> HIDE DEF joined
<1>n. n \in Nat
  OBVIOUS
<1>1. \A m \in 1 .. n + 1 : joined[m] = IF m > n THEN <<>> ELSE parts[m] \o joined[m + 1]
  <2>1. joined = [m \in 1 .. n + 1 |-> IF m > n THEN <<>> ELSE parts[m] \o joined[m + 1]]
    BY <1>n, JoinedUnfolds DEF joined
  <2> QED
    BY <2>1, Zenon
<1>2. SUFFICES ASSUME Wrong # {}
               PROVE  FALSE
  BY SMTT(30) DEF joined
<1>3. PICK m \in Wrong : \A q \in Wrong : q <= m
  <2>1. Wrong \in SUBSET (0 .. n + 1) /\ n + 1 \in Nat
    OBVIOUS
  <2> HIDE DEF Wrong
  <2> QED
    BY <1>2, <2>1, GreatestNumber
<1>4. CASE m > n
  <2>0. m \in 1 .. n + 1
    OBVIOUS
  <2>1. joined[m] = <<>>
    BY <1>1, <1>4, <2>0, Zenon
  <2> QED
    BY <2>1, EmptySeq
<1>5. CASE m <= n
  <2>0. m \in 1 .. n + 1 /\ ~ (m > n)
    BY <1>5
  <2>1. joined[m] = parts[m] \o joined[m + 1]
    BY <1>1, <2>0, Zenon
  <2>2. m + 1 \notin Wrong
    <3> HIDE DEF Wrong
    <3>1. m \in 1 .. n
      BY <1>5 DEF Wrong
    <3> QED
      BY <1>3, <3>1
  <2>3. joined[m + 1] \in Seq(T) /\ parts[m] \in Seq(T)
    BY <1>5, <2>2
  <2>4. joined[m] \in Seq(T)
    BY <2>1, <2>3, ConcatProperties
  <2> QED
    BY <2>4
<1> QED
  BY <1>4, <1>5

(* The rest of a script: a frame, and the rest behind it.                  *)
LEMMA ScriptUnfolds ==
  ASSUME NEW script \in Scripts
  PROVE  /\ Len(script) \in Nat
         /\ UnitsFrom(script)[Len(script) + 1] = <<>>
         /\ MeansFrom(script)[Len(script) + 1] = <<>>
         /\ \A i \in 1 .. Len(script) :
              /\ script[i].units \in Seq(Nat) /\ script[i].means \in Seq(Items)
              /\ UnitsFrom(script)[i] = script[i].units \o UnitsFrom(script)[i + 1]
              /\ MeansFrom(script)[i] = script[i].means \o MeansFrom(script)[i + 1]
         /\ \A i \in 1 .. Len(script) + 1 :
              UnitsFrom(script)[i] \in Seq(Nat) /\ MeansFrom(script)[i] \in Seq(Items)
<1> DEFINE n == Len(script)
           units == [i \in 1 .. n |-> script[i].units]
           means == [i \in 1 .. n |-> script[i].means]
           Frames == [units : Seq(Nat), means : Seq(Items)]
<1>0. script \in Seq(Frames)
  BY ScriptsAssumption, Zenon
<1>1. n \in Nat
  <2> HIDE DEF Frames
  <2> QED  BY <1>0
<1>2. \A i \in 1 .. n : script[i].units \in Seq(Nat) /\ script[i].means \in Seq(Items)
  <2>1. \A i \in 1 .. n : script[i] \in Frames
    <3> HIDE DEF Frames
    <3> QED  BY <1>0
  <2> QED
    BY <2>1
<1>3. units \in Seq(Seq(Nat)) /\ Len(units) = n
  BY <1>1, <1>2
<1>4. means \in Seq(Seq(Items)) /\ Len(means) = n
  BY <1>1, <1>2
<1> HIDE DEF n
<1>5. \A i \in 1 .. n : units[i] = script[i].units /\ means[i] = script[i].means
  OBVIOUS
<1>6. UnitsFrom(script) = JoinedFrom(units) /\ MeansFrom(script) = JoinedFrom(means)
  BY DEF UnitsFrom, MeansFrom, n
<1> HIDE DEF units, means
<1>7. \A i \in 1 .. n + 1 :
        /\ UnitsFrom(script)[i] =
             IF i > n THEN <<>> ELSE units[i] \o UnitsFrom(script)[i + 1]
        /\ MeansFrom(script)[i] =
             IF i > n THEN <<>> ELSE means[i] \o MeansFrom(script)[i + 1]
  <2>1. JoinedFrom(units) =
          [i \in 1 .. n + 1 |-> IF i > n THEN <<>> ELSE units[i] \o JoinedFrom(units)[i + 1]]
    BY <1>1, <1>3, JoinedUnfolds, Zenon
  <2>2. JoinedFrom(means) =
          [i \in 1 .. n + 1 |-> IF i > n THEN <<>> ELSE means[i] \o JoinedFrom(means)[i + 1]]
    BY <1>1, <1>4, JoinedUnfolds, Zenon
  <2> QED
    BY <1>6, <2>1, <2>2, Zenon
<1>8. \A i \in 1 .. n + 1 :
        UnitsFrom(script)[i] \in Seq(Nat) /\ MeansFrom(script)[i] \in Seq(Items)
  BY <1>3, <1>4, <1>6, JoinedType
<1>9. \A i \in 1 .. n : i \in 1 .. n + 1 /\ ~ (i > n)
  BY <1>1
<1>10. n + 1 \in 1 .. n + 1 /\ n + 1 > n
  BY <1>1
<1>11. \A i \in 1 .. n :
        /\ UnitsFrom(script)[i] = units[i] \o UnitsFrom(script)[i + 1]
        /\ MeansFrom(script)[i] = means[i] \o MeansFrom(script)[i + 1]
  BY <1>7, <1>9, Zenon
<1>12. UnitsFrom(script)[n + 1] = <<>> /\ MeansFrom(script)[n + 1] = <<>>
  BY <1>7, <1>10, Zenon
<1> QED
  BY <1>1, <1>2, <1>5, <1>8, <1>11, <1>12, Zenon DEF n

-----------------------------------------------------------------------------
(* Sequences cut in two.                                                   *)

LEMMA BehindIs ==
  ASSUME NEW s \in Seq(Nat), NEW at \in 0 .. Len(s)
  PROVE  /\ Behind(s, at) \in Seq(Nat)
         /\ Len(Behind(s, at)) = Len(s) - at
         /\ \A i \in 1 .. Len(s) - at : Behind(s, at)[i] = s[at + i]
<1>1. /\ at + 1 \in 1 .. Len(s) + 1 /\ Len(s) \in Nat
      /\ \A j \in at + 1 .. Len(s) : j \in 1 .. Len(s)
  OBVIOUS
<1>2. /\ Behind(s, at) \in Seq(Nat)
      /\ Len(Behind(s, at)) = IF at + 1 <= Len(s) THEN Len(s) - (at + 1) + 1 ELSE 0
      /\ \A i \in 1 .. Len(s) - (at + 1) + 1 : Behind(s, at)[i] = s[(at + 1) + i - 1]
  BY <1>1, SubSeqProperties DEF Behind
<1> QED
  BY <1>1, <1>2

LEMMA BehindTwice ==
  ASSUME NEW s \in Seq(Nat), NEW at \in 0 .. Len(s), NEW n \in 0 .. Len(s) - at
  PROVE  Behind(Behind(s, at), n) = Behind(s, at + n)
<1>1. at + n \in 0 .. Len(s) /\ n \in 0 .. Len(Behind(s, at))
  BY BehindIs
<1>2. /\ Behind(Behind(s, at), n) \in Seq(Nat)
      /\ Len(Behind(Behind(s, at), n)) = Len(Behind(s, at + n))
  BY <1>1, BehindIs
<1>3. ASSUME NEW i \in 1 .. Len(s) - (at + n)
      PROVE  Behind(Behind(s, at), n)[i] = Behind(s, at + n)[i]
  <2>1. Behind(Behind(s, at), n)[i] = Behind(s, at)[n + i]
    BY <1>1, BehindIs, SMTT(30)
  <2>2. Behind(s, at)[n + i] = s[at + (n + i)]
    BY <1>1, BehindIs
  <2>3. Behind(s, at + n)[i] = s[(at + n) + i]
    BY <1>1, BehindIs
  <2> QED
    BY <2>1, <2>2, <2>3
<1> QED
  BY <1>1, <1>2, <1>3, BehindIs, SeqEqual

(* One piece of a stream and then another.                                 *)
Then(s, t) == s \o t

LEMMA ThenIs ==
  ASSUME NEW s \in Seq(Nat), NEW t \in Seq(Nat)
  PROVE  /\ Then(s, t) \in Seq(Nat)
         /\ Len(Then(s, t)) = Len(s) + Len(t)
         /\ \A i \in 1 .. Len(s) : Then(s, t)[i] = s[i]
BY ConcatProperties DEF Then

LEMMA ThenRegroups ==
  ASSUME NEW s \in Seq(Nat), NEW t \in Seq(Nat), NEW u \in Seq(Nat)
  PROVE  Then(Then(s, t), u) = Then(s, Then(t, u))
BY ConcatAssociative, SMTT(30) DEF Then

LEMMA ThenCancels ==
  \A s, t, u \in Seq(Nat) : Then(s, t) = Then(s, u) => t = u
BY ConcatSimplifications, Zenon DEF Then

(* Two ways to cut one stream: the earlier piece begins the later one.     *)
LEMMA CutTwice ==
  ASSUME NEW s \in Seq(Nat), NEW t \in Seq(Nat), NEW u \in Seq(Nat), NEW r \in Seq(Nat),
         Then(s, t) = Then(u, r), Len(u) <= Len(s)
  PROVE  /\ \A i \in 1 .. Len(u) : u[i] = s[i]
         /\ Then(Behind(s, Len(u)), t) = r
<1> DEFINE m == Len(u)
           v == Behind(s, m)
<1>1. m \in 0 .. Len(s) /\ Len(s) \in Nat
  BY LenProperties
<1>2. v \in Seq(Nat)
  BY <1>1, BehindIs
<1>3. ASSUME NEW i \in 1 .. m
      PROVE  u[i] = s[i]
  <2>1. Then(u, r)[i] = u[i]
    BY ThenIs
  <2>2. Then(s, t)[i] = s[i]
    <3>1. i \in 1 .. Len(s)
      BY <1>1
    <3> QED
      BY <3>1, ThenIs, Zenon
  <2> QED
    BY <2>1, <2>2, Zenon
<1>4. u = SubSeq(s, 1, m)
  <2> DEFINE w == SubSeq(s, 1, m)
  <2>1. w \in Seq(Nat) /\ Len(w) = m /\ \A i \in 1 .. m : w[i] = s[i]
    BY <1>1, SubSeqProperties
  <2> HIDE DEF w
  <2> QED
    BY <1>3, <2>1, SeqEqual
<1>5. s = Then(u, v)
  <2>1. SubSeq(s, 1, m) \o SubSeq(s, m + 1, Len(s)) = SubSeq(s, 1, Len(s))
    <3>1. /\ 1 \in 1 .. Len(s) + 1 /\ m \in 1 - 1 .. Len(s)
          /\ Len(s) \in m .. Len(s)
      BY <1>1
    <3> QED
      BY <3>1, ConcatAdjacentSubSeq
  <2> QED
    BY <1>4, <2>1, SubSeqFull DEF Behind, Then
<1> HIDE DEF v
<1>6. Then(u, Then(v, t)) = Then(u, r)
  BY <1>2, <1>5, ThenRegroups
<1>7. Then(v, t) = r
  BY <1>2, <1>6, ThenCancels, ThenIs
<1> QED
  BY <1>3, <1>7 DEF v

LEMMA OneMeantFirst ==
  ASSUME NEW x \in Items, NEW rest \in Seq(Items)
  PROVE  /\ <<x>> \o rest \in Seq(Items)
         /\ <<x>> \o rest # <<>>
         /\ Head(<<x>> \o rest) = x
         /\ Tail(<<x>> \o rest) = rest
<1>1. <<x>> \in Seq(Items) /\ Len(<<x>>) = 1
  OBVIOUS
<1> DEFINE all == <<x>> \o rest
<1>2. /\ all \in Seq(Items) /\ Len(all) = 1 + Len(rest)
      /\ \A i \in 1 .. 1 + Len(rest) : all[i] = IF i <= 1 THEN <<x>>[i] ELSE rest[i - 1]
  BY <1>1, ConcatProperties
<1> HIDE DEF all
<1>3. all # <<>> /\ Head(all) = x
  BY <1>2
<1>4. /\ Tail(all) \in Seq(Items) /\ Len(Tail(all)) = Len(rest)
      /\ \A i \in 1 .. Len(rest) : Tail(all)[i] = rest[i]
  BY <1>2, <1>3, HeadTailProperties
<1>5. Tail(all) = rest
  BY <1>4, SeqEqual
<1> QED
  BY <1>2, <1>3, <1>5 DEF all

LEMMA TwoMeantFirst ==
  ASSUME NEW x \in Items, NEW y \in Items, NEW rest \in Seq(Items)
  PROVE  <<x, y>> \o rest = <<x>> \o (<<y>> \o rest)
<1>1. <<x>> \in Seq(Items) /\ <<y>> \in Seq(Items)
  OBVIOUS
<1>2. <<x>> \o <<y>> = <<x, y>>
  <2>1. /\ <<x>> \o <<y>> \in Seq(Items) /\ Len(<<x>> \o <<y>>) = 2
        /\ (<<x>> \o <<y>>)[1] = x /\ (<<x>> \o <<y>>)[2] = y
    BY <1>1, ConcatProperties
  <2>2. <<x, y>> \in Seq(Items) /\ Len(<<x, y>>) = 2 /\ <<x, y>>[1] = x /\ <<x, y>>[2] = y
    OBVIOUS
  <2> DEFINE a == <<x>> \o <<y>>
             b == <<x, y>>
  <2> HIDE DEF a, b
  <2>3. a \in Seq(Items) /\ b \in Seq(Items) /\ Len(a) = Len(b)
        /\ \A i \in 1 .. Len(a) : a[i] = b[i]
    BY <2>1, <2>2 DEF a, b
  <2>4. a = b
    BY <2>3, SeqEqual
  <2> QED
    BY <2>4 DEF a, b
<1>3. (<<x>> \o <<y>>) \o rest = <<x>> \o (<<y>> \o rest)
  BY <1>1, ConcatAssociative
<1> QED
  BY <1>2, <1>3, Zenon

-----------------------------------------------------------------------------
(* Whole frames.                                                           *)

(* A whole frame at the front of the buffer is the script's next frame.    *)
LEMMA FirstFrame ==
  ASSUME NEW script \in Scripts, NEW j \in 2 .. Len(script) + 1,
         NEW s \in Seq(Nat), NEW t \in Seq(Nat),
         Then(s, t) = UnitsFrom(script)[j], WholeFrame(s, 0)
  PROVE  /\ j <= Len(script)
         /\ EndOfFrame(s, 0) \in 1 .. Len(s)
         /\ Len(script[j].units) = EndOfFrame(s, 0)
         /\ script[j].units \in Seq(Nat)
         /\ \A i \in 1 .. EndOfFrame(s, 0) : script[j].units[i] = s[i]
         /\ Then(Behind(s, EndOfFrame(s, 0)), t) = UnitsFrom(script)[j + 1]
         /\ MeansFrom(script)[j] = Meaning(script[j].units) \o MeansFrom(script)[j + 1]
<1> DEFINE n == Len(script)
           units == script[j].units
           next == UnitsFrom(script)[j + 1]
<1>1. n \in Nat /\ j \in Nat /\ 0 < Len(s) /\ Len(s) \in Nat
  BY ScriptUnfolds DEF WholeFrame
<1>2. j <= n
  <2>0. Len(t) \in Nat
    BY LenProperties
  <2>1. Len(Then(s, t)) = Len(s) + Len(t)
    BY ThenIs, Zenon
  <2>2. UnitsFrom(script)[n + 1] = <<>>
    BY ScriptUnfolds
  <2> SUFFICES ASSUME j = n + 1
               PROVE  FALSE
    BY <1>1
  <2>3. Len(Then(s, t)) = 0
    BY <2>2
  <2> QED
    BY <1>1, <2>1, <2>3
<1>3. j \in 1 .. n /\ j # 1 /\ j + 1 \in 1 .. n + 1
  BY <1>1, <1>2
<1>4. units \in Seq(Nat) /\ next \in Seq(Nat) /\ UnitsFrom(script)[j] = Then(units, next)
  BY <1>3, ScriptUnfolds DEF Then
<1>5. IsFrame(units) /\ script[j].means = Meaning(units)
  BY <1>3, ScriptsAssumption
<1> HIDE DEF units, next
<1>6. units # <<>> /\ Len(units) = units[1] + 1 /\ Len(units) \in Nat /\ units[1] \in Nat
  BY <1>4, <1>5, SMTT(30) DEF IsFrame
<1>7. units[1] = s[1]
  <2>1. 1 \in 1 .. Len(units) /\ 1 \in 1 .. Len(s)
    BY <1>1, <1>6, SMTT(30)
  <2>2. Then(units, next)[1] = units[1]
    BY <1>4, <2>1, ThenIs, ZenonT(40)
  <2>3. Then(s, t)[1] = s[1]
    BY <2>1, ThenIs
  <2> QED
    BY <1>4, <2>2, <2>3
<1>8. Len(units) = EndOfFrame(s, 0) /\ EndOfFrame(s, 0) \in 1 .. Len(s)
  BY <1>1, <1>6, <1>7 DEF EndOfFrame, WholeFrame
<1>9. /\ \A i \in 1 .. Len(units) : units[i] = s[i]
      /\ Then(Behind(s, Len(units)), t) = next
  <2>1. Then(s, t) = Then(units, next) /\ Len(units) <= Len(s)
    BY <1>1, <1>4, <1>6, <1>8
  <2> QED
    BY <1>4, <2>1, CutTwice
<1>10. MeansFrom(script)[j] = Meaning(units) \o MeansFrom(script)[j + 1]
  <2>1. MeansFrom(script)[j] = script[j].means \o MeansFrom(script)[j + 1]
    BY <1>3, ScriptUnfolds, Zenon
  <2> QED
    BY <1>5, <2>1, Zenon
<1> QED
  BY <1>2, <1>4, <1>8, <1>9, <1>10 DEF units, next

LEMMA SamePart ==
  ASSUME NEW s \in Seq(Nat), NEW u \in Seq(Nat), NEW m \in Nat \ {0}, NEW e \in Nat,
         e <= Len(s), e <= Len(u), \A i \in m .. e : u[i] = s[i]
  PROVE  SubSeq(u, m, e) = SubSeq(s, m, e)
<1> DEFINE a == SubSeq(u, m, e)
           b == SubSeq(s, m, e)
<1>1. \A i \in m .. e : u[i] \in Nat /\ s[i] \in Nat
  OBVIOUS
<1>2. /\ a \in Seq(Nat) /\ Len(a) = IF m <= e THEN e - m + 1 ELSE 0
      /\ \A i \in 1 .. e - m + 1 : a[i] = u[m + i - 1]
  BY <1>1, SubSeqProperties
<1>3. /\ b \in Seq(Nat) /\ Len(b) = IF m <= e THEN e - m + 1 ELSE 0
      /\ \A i \in 1 .. e - m + 1 : b[i] = s[m + i - 1]
  BY <1>1, SubSeqProperties
<1> HIDE DEF a, b
<1>4. Len(a) = Len(b) /\ \A i \in 1 .. Len(a) : a[i] = b[i]
  BY <1>2, <1>3
<1>5. a = b
  BY <1>2, <1>3, <1>4, SeqEqual
<1> QED
  BY <1>5 DEF a, b

(* What it means is read off the buffer.                                   *)
LEMMA MeaningInBuffer ==
  ASSUME NEW s \in Seq(Nat), WholeFrame(s, 0), EndOfFrame(s, 0) \in 1 .. Len(s),
         NEW units \in Seq(Nat), Len(units) = EndOfFrame(s, 0),
         \A i \in 1 .. EndOfFrame(s, 0) : units[i] = s[i]
  PROVE  /\ s[1] \in Nat /\ EndOfFrame(s, 0) = 1 + s[1]
         /\ s[1] = 0 => Meaning(units) = <<KeepAlive>>
         /\ UnknownFrame(s, 0) => Meaning(units) = <<>>
         /\ s[1] # 0 /\ ~ UnknownFrame(s, 0) =>
              /\ s[2] + 1 \in DOMAIN MessageTypes
              /\ Meaning(units) = MeaningOfMessage(MessageTypes[s[2] + 1],
                                                   SubSeq(s, 3, EndOfFrame(s, 0)))
<1> DEFINE e == EndOfFrame(s, 0)
<1>1. s[1] \in Nat /\ e = 1 + s[1] /\ e <= Len(s) /\ e \in Nat /\ Len(s) \in Nat
  BY DEF EndOfFrame, WholeFrame
<1>2. s[1] = 0 => Meaning(units) = <<KeepAlive>>
  BY <1>1 DEF Meaning
<1>3. s[1] # 0 => 2 \in 1 .. e /\ units[2] = s[2] /\ s[2] \in Nat /\ Len(units) > 1
  BY <1>1, SMTT(30)
<1>4. UnknownFrame(s, 0) => Meaning(units) = <<>>
  <2> SUFFICES ASSUME UnknownFrame(s, 0)
               PROVE  Meaning(units) = <<>>
    OBVIOUS
  <2>1. Len(units) # 1 /\ Len(units) > 1 /\ units[2] >= Len(MessageTypes)
    BY <1>1, <1>3, SMTT(30) DEF UnknownFrame
  <2> QED
    BY <2>1 DEF Meaning
<1>5. ASSUME s[1] # 0, ~ UnknownFrame(s, 0)
      PROVE  /\ s[2] + 1 \in DOMAIN MessageTypes
             /\ Meaning(units) = MeaningOfMessage(MessageTypes[s[2] + 1], SubSeq(s, 3, e))
  <2>1. Len(units) # 1 /\ ~ (units[2] >= Len(MessageTypes))
    BY <1>1, <1>3, <1>5, SMTT(30) DEF UnknownFrame
  <2>2. s[2] + 1 \in DOMAIN MessageTypes
    BY <1>3, <1>5, <2>1, SMTT(30) DEF MessageTypes
  <2>3. SubSeq(units, 3, e) = SubSeq(s, 3, e)
    <3>1. /\ \A i \in 3 .. e : units[i] = s[i]
          /\ e <= Len(s) /\ e <= Len(units)
      BY <1>1, SMTT(30)
    <3>2. 3 \in Nat \ {0} /\ e \in Nat
      BY <1>1
    <3> HIDE DEF e
    <3> QED
      BY <3>1, <3>2, SamePart, Zenon
  <2>4. Meaning(units) = MeaningOfMessage(MessageTypes[units[2] + 1], SubSeq(units, 3, Len(units)))
    BY <2>1 DEF Meaning
  <2>5. units[2] = s[2]
    BY <1>3, <1>5
  <2> QED
    BY <2>2, <2>3, <2>4, <2>5, Zenon
<1> QED
  BY <1>1, <1>2, <1>4, <1>5

(* A frame that ends within the buffer ends within what is left of it.     *)
LEMMA EndsInside ==
  ASSUME NEW a \in Nat, NEW b \in Nat, NEW l \in Nat, NEW n \in Nat,
         n = b - a, a + 1 + l <= b
  PROVE  a + 1 + l = a + (1 + l) /\ 1 + l \in 1 .. n
  OBVIOUS

(* A frame further on is the first one of what is there from it on.        *)
LEMMA FrameFurtherOn ==
  ASSUME NEW s \in Seq(Nat), NEW at \in 0 .. Len(s)
  PROVE  LET here == Behind(s, at) IN
         /\ here \in Seq(Nat)
         /\ WholeFrame(s, at) <=> WholeFrame(here, 0)
         /\ WholeFrame(s, at) =>
              /\ UnknownFrame(s, at) <=> UnknownFrame(here, 0)
              /\ s[at + 1] = here[1] /\ s[at + 1] \in Nat
              /\ here[1] # 0 => s[at + 2] = here[2]
              /\ EndOfFrame(here, 0) \in 1 .. Len(here)
              /\ EndOfFrame(s, at) = at + EndOfFrame(here, 0)
              /\ EndOfFrame(s, at) \in at + 1 .. Len(s)
              /\ Behind(s, EndOfFrame(s, at)) = Behind(here, EndOfFrame(here, 0))
              /\ SubSeq(s, at + 3, EndOfFrame(s, at)) = SubSeq(here, 3, EndOfFrame(here, 0))
<1> DEFINE here == Behind(s, at)
           e == EndOfFrame(here, 0)
<1>1. /\ here \in Seq(Nat) /\ Len(here) = Len(s) - at /\ Len(s) \in Nat /\ at \in Nat
      /\ \A i \in 1 .. Len(s) - at : here[i] = s[at + i]
  <2>1. Len(s) \in Nat
    BY LenProperties
  <2>2. at \in Nat
    BY <2>1
  <2> QED
    BY <2>1, <2>2, BehindIs
<1> HIDE DEF here
<1>2. at < Len(s) => s[at + 1] = here[1] /\ s[at + 1] \in Nat
  BY <1>1, SMTT(30)
<1>3. WholeFrame(s, at) <=> WholeFrame(here, 0)
  BY <1>1, <1>2, SMTT(30) DEF WholeFrame
<1>4. ASSUME WholeFrame(s, at)
      PROVE  /\ UnknownFrame(s, at) <=> UnknownFrame(here, 0)
             /\ s[at + 1] = here[1] /\ s[at + 1] \in Nat
             /\ here[1] # 0 => s[at + 2] = here[2]
             /\ e \in 1 .. Len(here)
             /\ EndOfFrame(s, at) = at + e
             /\ EndOfFrame(s, at) \in at + 1 .. Len(s)
             /\ Behind(s, EndOfFrame(s, at)) = Behind(here, e)
             /\ SubSeq(s, at + 3, EndOfFrame(s, at)) = SubSeq(here, 3, e)
  <2>1. s[at + 1] = here[1] /\ s[at + 1] \in Nat /\ at < Len(s)
    BY <1>1, <1>2, <1>4 DEF WholeFrame
  <2>2. at + 1 + s[at + 1] <= Len(s)
    BY <1>4 DEF WholeFrame
  <2>3. here[1] # 0 => s[at + 2] = here[2] /\ here[2] \in Nat
    <3>1. here[1] # 0 => 2 \in 1 .. Len(s) - at /\ at + 2 \in 1 .. Len(s)
      BY <1>1, <2>1, <2>2
    <3>2. at + 2 \in 1 .. Len(s) => s[at + 2] \in Nat
      OBVIOUS
    <3> QED
      BY <1>1, <3>1, <3>2
  <2>4. e = 1 + here[1] /\ EndOfFrame(s, at) = at + e /\ e \in 1 .. Len(here)
    <3>1. e = 1 + here[1] /\ EndOfFrame(s, at) = at + 1 + here[1]
      BY <2>1 DEF EndOfFrame
    <3>2. here[1] \in Nat /\ at + 1 + here[1] <= Len(s)
      BY <2>1, <2>2
    <3>3. at \in Nat /\ Len(s) \in Nat /\ Len(here) \in Nat /\ Len(here) = Len(s) - at
      BY <1>1
    <3>4. at + 1 + here[1] = at + (1 + here[1]) /\ 1 + here[1] \in 1 .. Len(here)
      BY <3>2, <3>3, EndsInside, Zenon
    <3> QED
      BY <3>1, <3>4, Zenon
  <2>5. UnknownFrame(s, at) <=> UnknownFrame(here, 0)
    BY <2>1, <2>3, <1>1, SMTT(20) DEF UnknownFrame
  <2> HIDE DEF e
  <2>6. EndOfFrame(s, at) \in at + 1 .. Len(s)
    BY <1>1, <2>4, SMTT(20)
  <2>7. Behind(s, at + e) = Behind(here, e)
    BY <1>1, <2>4, BehindTwice DEF here
  <2>8. SubSeq(s, at + 3, at + e) = SubSeq(here, 3, e)
    <3> DEFINE a == SubSeq(s, at + 3, at + e)
               b == SubSeq(here, 3, e)
    <3>1. /\ \A i \in at + 3 .. at + e : s[i] \in Nat
          /\ \A i \in 3 .. e : here[i] \in Nat
          /\ at + 3 \in Int /\ at + e \in Int /\ e \in Int
      <4>1. \A i \in 1 .. Len(s) : s[i] \in Nat
        OBVIOUS
      <4>2. \A i \in 1 .. Len(here) : here[i] \in Nat
        BY <1>1, SMTT(30)
      <4>3. e \in Nat /\ e <= Len(here) /\ at + e <= Len(s)
        BY <1>1, <2>4, SMTT(30)
      <4> QED
        BY <1>1, <4>1, <4>2, <4>3, SMTT(30)
    <3>2. /\ a \in Seq(Nat)
          /\ Len(a) = IF at + 3 <= at + e THEN (at + e) - (at + 3) + 1 ELSE 0
          /\ \A i \in 1 .. (at + e) - (at + 3) + 1 : a[i] = s[(at + 3) + i - 1]
      BY <3>1, SubSeqProperties
    <3>3. /\ b \in Seq(Nat)
          /\ Len(b) = IF 3 <= e THEN e - 3 + 1 ELSE 0
          /\ \A i \in 1 .. e - 3 + 1 : b[i] = here[3 + i - 1]
      BY <3>1, SubSeqProperties
    <3> HIDE DEF a, b
    <3>4. Len(a) = Len(b)
      BY <1>1, <3>1, <3>2, <3>3
    <3>5. ASSUME NEW i \in 1 .. Len(a)
          PROVE  a[i] = b[i]
      <4>1. i \in 1 .. e - 2 /\ i + 2 \in 1 .. Len(s) - at
        <5>1. e \in Nat /\ e <= Len(s) - at
          BY <1>1, <2>4
        <5>2. Len(a) = IF 3 <= e THEN e - 2 ELSE 0
          BY <1>1, <3>2, <5>1
        <5> QED
          BY <1>1, <5>1, <5>2
      <4>2. a[i] = s[at + (i + 2)] /\ b[i] = here[i + 2]
        <5>1. (at + 3) + i - 1 = at + (i + 2) /\ 3 + i - 1 = i + 2
          BY <1>1, <4>1
        <5>2. i \in 1 .. (at + e) - (at + 3) + 1 /\ i \in 1 .. e - 3 + 1
          BY <1>1, <3>1, <4>1
        <5> QED
          BY <3>2, <3>3, <5>1, <5>2
      <4> QED
        BY <1>1, <4>1, <4>2
    <3>6. a = b
      BY <3>2, <3>3, <3>4, <3>5, SeqEqual
    <3> QED
      BY <3>6 DEF a, b
  <2> QED
    BY <2>1, <2>3, <2>4, <2>5, <2>6, <2>7, <2>8
<1> QED
  BY <1>1, <1>3, <1>4 DEF here

-----------------------------------------------------------------------------
(* The decoder.                                                            *)

(* Frames of an unknown kind are passed, and nothing else is.              *)
LEMMA SkipLands ==
  ASSUME NEW script \in Scripts, NEW k, NEW s \in Seq(Nat), NEW t \in Seq(Nat), NEW items,
         Remains(script, k, Then(s, t), items)
  PROVE  LET at == PastUnknown(s) IN
         /\ at \in 0 .. Len(s)
         /\ ~ (WholeFrame(s, at) /\ UnknownFrame(s, at))
         /\ \E j : Remains(script, j, Then(Behind(s, at), t), items)
<1> DEFINE Here(i) == \E j : Remains(script, j, Then(Behind(s, i), t), items)
<1>1. PICK past :
        /\ past = [i \in 0 .. Len(s) |->
                     IF WholeFrame(s, i) /\ UnknownFrame(s, i)
                     THEN past[EndOfFrame(s, i)] ELSE i]
        /\ PastUnknown(s) = past[0]
  BY PastUnknownUnfolds, Zenon
<1>2. Len(s) \in Nat
  OBVIOUS
<1>3. \A i \in 0 .. Len(s) :
        past[i] = IF WholeFrame(s, i) /\ UnknownFrame(s, i) THEN past[EndOfFrame(s, i)] ELSE i
  BY <1>1, Zenon
<1> DEFINE Reached == {i \in 0 .. Len(s) : past[i] = past[0] /\ Here(i)}
<1>4. 0 \in Reached
  <2>1. Behind(s, 0) = s
    BY SubSeqFull DEF Behind
  <2>2. Here(0)
    BY <2>1
  <2> HIDE DEF Here
  <2> QED
    BY <1>2, <2>2
<1>5. PICK at \in Reached : \A i \in Reached : i <= at
  <2>1. Reached \in SUBSET (0 .. Len(s)) /\ Reached # {}
    BY <1>4
  <2> HIDE DEF Reached
  <2> QED
    BY <1>2, <2>1, GreatestNumber
<1>6. at \in 0 .. Len(s) /\ past[at] = past[0] /\ Here(at)
  <2> HIDE DEF Here
  <2> QED  BY <1>5
<1>7. ~ (WholeFrame(s, at) /\ UnknownFrame(s, at))
  <2> SUFFICES ASSUME WholeFrame(s, at), UnknownFrame(s, at)
               PROVE  FALSE
    OBVIOUS
  <2> DEFINE here == Behind(s, at)
             e == EndOfFrame(here, 0)
             next == EndOfFrame(s, at)
  <2>1. PICK j : Remains(script, j, Then(here, t), items)
    BY <1>6
  <2>2. /\ here \in Seq(Nat) /\ WholeFrame(here, 0) /\ UnknownFrame(here, 0)
        /\ next \in at + 1 .. Len(s)
        /\ Behind(s, next) = Behind(here, e)
    BY <1>6, FrameFurtherOn
  <2> HIDE DEF here
  <2>3. j \in 2 .. Len(script) + 1 /\ Then(here, t) = UnitsFrom(script)[j]
        /\ items = MeansFrom(script)[j] /\ Len(script) \in Nat
    BY <2>1, ScriptUnfolds DEF Remains
  <2> DEFINE units == script[j].units
  <2>4. /\ j <= Len(script) /\ e \in 1 .. Len(here)
        /\ units \in Seq(Nat) /\ Len(units) = e /\ \A i \in 1 .. e : units[i] = here[i]
        /\ Then(Behind(here, e), t) = UnitsFrom(script)[j + 1]
        /\ MeansFrom(script)[j] = Meaning(units) \o MeansFrom(script)[j + 1]
    BY <2>2, <2>3, FirstFrame, ZenonT(30)
  <2>5. Meaning(units) = <<>>
    <3> HIDE DEF units, e
    <3> QED
      BY <2>2, <2>4, MeaningInBuffer DEF e
  <2>6. j + 1 \in 2 .. Len(script) + 1 /\ MeansFrom(script)[j + 1] \in Seq(Items)
    <3>1. j + 1 \in 2 .. Len(script) + 1 /\ j + 1 \in 1 .. Len(script) + 1
      <4> HIDE DEF units, e
      <4> QED  BY <2>3, <2>4
    <3> QED
      BY <3>1, ScriptUnfolds, Zenon
  <2>7. items = MeansFrom(script)[j + 1]
    <3>1. \A m \in Seq(Items) : <<>> \o m = m
      BY ConcatEmptySeq
    <3> QED
      BY <2>3, <2>4, <2>5, <2>6, <3>1, Zenon
  <2>8. Remains(script, j + 1, Then(Behind(s, next), t), items)
    BY <2>2, <2>4, <2>6, <2>7, Zenon DEF Remains
  <2>9. past[next] = past[0]
    BY <1>3, <1>6, Zenon
  <2>10. next \in Reached
    <3>1. Here(next)
      BY <2>8
    <3>2. next \in 0 .. Len(s)
      BY <1>2, <1>6, <2>2
    <3> HIDE DEF Here, next
    <3> QED  BY <2>9, <3>1, <3>2
  <2> QED
    <3> HIDE DEF Reached, next
    <3> QED  BY <1>2, <1>5, <1>6, <2>2, <2>10
<1>8. PastUnknown(s) = at
  BY <1>1, <1>3, <1>6, <1>7, Zenon
<1> QED
  BY <1>6, <1>7, <1>8

(* A message read off a frame that has what it needs is an item.           *)
LEMMA FieldsFit ==
  ASSUME NEW i \in DOMAIN MessageTypes, NEW rest \in Seq(Nat),
         ~ (Len(rest) < Needed(MessageTypes[i]))
  PROVE  Message(MessageTypes[i], Fields(MessageTypes[i], rest)) \in Items
<1> DEFINE type == MessageTypes[i]
<1>1. type \in ItemTypes /\ Needed(type) \in Nat
  <2>1. type \in ItemTypes
    BY DEF ItemTypes
  <2>2. Needed(type) \in {0, 1, 2, 3}
    BY DEF Needed
  <2> QED
    BY <2>1, <2>2
<1> HIDE DEF type
<1>2. Fields(type, rest) \in Seq(Nat)
  <2>1. Len(rest) \in Nat /\ Needed(type) <= Len(rest)
    BY <1>1 DEF type
  <2>2. \A j \in 1 .. Needed(type) : rest[j] \in Nat
    <3>1. \A j \in 1 .. Len(rest) : rest[j] \in Nat
      BY ElementOfSeq
    <3>2. \A j \in 1 .. Needed(type) : j \in 1 .. Len(rest)
      BY <1>1, <2>1
    <3> QED
      BY <3>1, <3>2
  <2>3. SubSeq(rest, 1, Needed(type)) \in Seq(Nat)
    BY <1>1, <2>2, SubSeqProperties
  <2> QED
    BY <2>3 DEF Fields
<1> QED
  BY <1>1, <1>2 DEF Items, Message, type

LEMMA PlainItems == KeepAlive \in Items /\ Malformed \in Items
<1>1. "KeepAlive" \in ItemTypes /\ "Malformed" \in ItemTypes
  BY DEF ItemTypes
<1>2. \A type \in ItemTypes : Message(type, <<>>) \in Items
  BY EmptySeq DEF Message, Items
<1> QED
  BY <1>1, <1>2 DEF KeepAlive, Malformed

(* Past the handshake the decoder yields what is meant next, fails where a *)
(* frame lacks a field, and waits only in front of an incomplete frame.    *)
LEMMA MessagesDecode ==
  ASSUME NEW script \in Scripts, NEW k, NEW s \in Seq(Nat), NEW t \in Seq(Nat), NEW items,
         Remains(script, k, Then(s, t), items), NEW c
  PROVE  LET d == DecodeMessages(c, s) IN
         /\ d.codec = c /\ d.src \in Seq(Nat)
         /\ \/ /\ d.result = "wait"
               /\ ~ WholeFrame(d.src, 0)
               /\ \E j : Remains(script, j, Then(d.src, t), items)
            \/ /\ d.result = "item"
               /\ items # <<>> /\ d.item = Head(items)
               /\ \E j : Remains(script, j, Then(d.src, t), Tail(items))
            \/ d.result = "error" /\ items # <<>> /\ Head(items) = Malformed
<1> DEFINE d == DecodeMessages(c, s)
           at == PastUnknown(s)
           here == Behind(s, at)
           e == EndOfFrame(here, 0)
<1>1. /\ at \in 0 .. Len(s) /\ ~ (WholeFrame(s, at) /\ UnknownFrame(s, at))
      /\ \E j : Remains(script, j, Then(here, t), items)
  BY SkipLands, Zenon
<1>2. PICK j : Remains(script, j, Then(here, t), items)
  BY <1>1
<1>3. /\ here \in Seq(Nat) /\ (WholeFrame(s, at) <=> WholeFrame(here, 0))
      /\ WholeFrame(s, at) =>
           /\ UnknownFrame(s, at) <=> UnknownFrame(here, 0)
           /\ s[at + 1] = here[1]
           /\ here[1] # 0 => s[at + 2] = here[2]
           /\ e \in 1 .. Len(here)
           /\ Behind(s, EndOfFrame(s, at)) = Behind(here, e)
           /\ EndOfFrame(s, at) = at + e
           /\ SubSeq(s, at + 3, EndOfFrame(s, at)) = SubSeq(here, 3, e)
  <2> HIDE DEF at
  <2> QED  BY <1>1, FrameFurtherOn
<1>4. CASE ~ WholeFrame(s, at)
  <2>1. d = Waits(c, here)
    BY <1>4 DEF DecodeMessages
  <2> HIDE DEF here
  <2>2. d.codec = c /\ d.src = here /\ d.result = "wait"
    BY <2>1 DEF Waits
  <2> HIDE DEF d
  <2> QED
    BY <1>2, <1>3, <1>4, <2>2 DEF d
<1>5. CASE WholeFrame(s, at)
  <2> DEFINE units == script[j].units
             type == MessageTypes[s[at + 2] + 1]
             rest == SubSeq(here, 3, e)
             later == MeansFrom(script)[j + 1]
  <2> HIDE DEF at, here
  <2>1. WholeFrame(here, 0) /\ ~ UnknownFrame(here, 0)
    BY <1>1, <1>3, <1>5
  <2>2. j \in 2 .. Len(script) + 1 /\ Then(here, t) = UnitsFrom(script)[j]
        /\ items = MeansFrom(script)[j] /\ Len(script) \in Nat
    BY <1>2, ScriptUnfolds DEF Remains
  <2>3. /\ j <= Len(script) /\ e \in 1 .. Len(here)
        /\ units \in Seq(Nat) /\ Len(units) = e /\ \A i \in 1 .. e : units[i] = here[i]
        /\ Then(Behind(here, e), t) = UnitsFrom(script)[j + 1]
        /\ MeansFrom(script)[j] = Meaning(units) \o later
    BY <1>3, <2>1, <2>2, FirstFrame, ZenonT(30)
  <2> HIDE DEF units, e
  <2>4. /\ here[1] \in Nat /\ e = 1 + here[1]
        /\ here[1] = 0 => Meaning(units) = <<KeepAlive>>
        /\ here[1] # 0 =>
             /\ here[2] + 1 \in DOMAIN MessageTypes
             /\ Meaning(units) = MeaningOfMessage(MessageTypes[here[2] + 1], rest)
    BY <1>3, <2>1, <2>3, MeaningInBuffer DEF e
  <2>5. later \in Seq(Items) /\ j + 1 \in 2 .. Len(script) + 1
    <3>1. j + 1 \in 2 .. Len(script) + 1 /\ j + 1 \in 1 .. Len(script) + 1
      BY <2>2, <2>3
    <3> QED
      BY <3>1, ScriptUnfolds, Zenon
  <2>6. Remains(script, j + 1, Then(Behind(here, e), t), later)
    BY <2>3, <2>5, Zenon DEF Remains
  <2>7. Behind(here, e) \in Seq(Nat)
    <3>1. e \in 0 .. Len(here)
      BY <1>3, <2>3
    <3> QED
      BY <1>3, <3>1, BehindIs
  <2>8. rest \in Seq(Nat)
    <3>1. \A i \in 3 .. e : here[i] \in Nat
      BY <1>3, <2>3, SMTT(30)
    <3>2. e \in Int
      BY <1>3, <2>3
    <3> QED
      BY <3>1, <3>2, SubSeqProperties
  <2>9. CASE here[1] = 0
    <3>1. s[at + 1] = 0 /\ e = 1 /\ EndOfFrame(s, at) = at + 1
      BY <1>3, <1>5, <2>4, <2>9
    <3>2. d = Yields(c, Behind(s, at + 1), KeepAlive)
      BY <1>5, <3>1 DEF DecodeMessages, at
    <3>3. Behind(s, at + 1) = Behind(here, e)
      BY <1>3, <1>5, <3>1
    <3>4. d.codec = c /\ d.src = Behind(here, e) /\ d.result = "item" /\ d.item = KeepAlive
      BY <3>2, <3>3 DEF Yields
    <3>5. items = <<KeepAlive>> \o later
      BY <2>2, <2>3, <2>4, <2>9, Zenon
    <3>6. items # <<>> /\ Head(items) = KeepAlive /\ Tail(items) = later
      BY <2>5, <3>5, PlainItems, OneMeantFirst
    <3> HIDE DEF d, later
    <3> QED
      BY <2>6, <2>7, <3>4, <3>6 DEF d
  <2>10. CASE here[1] # 0
    <3>1. type = MessageTypes[here[2] + 1] /\ s[at + 1] # 0 /\ here[2] + 1 \in DOMAIN MessageTypes
      BY <1>3, <1>5, <2>4, <2>10
    <3>2. rest = SubSeq(s, at + 3, EndOfFrame(s, at)) /\ Behind(s, EndOfFrame(s, at)) = Behind(here, e)
      BY <1>3, <1>5
    <3>3. items = MeaningOfMessage(type, rest) \o later
      BY <2>2, <2>3, <2>4, <2>10, <3>1, Zenon
    <3> HIDE DEF type, rest
    <3>4. CASE Len(rest) < Needed(type)
      <4>1. d = Errors(c, here)
        BY <1>5, <3>1, <3>2, <3>4 DEF DecodeMessages, at, here, type
      <4>2. d.codec = c /\ d.src = here /\ d.result = "error"
        BY <4>1 DEF Errors
      <4>3. items = <<Malformed>> \o later
        BY <3>3, <3>4, Zenon DEF MeaningOfMessage
      <4>4. items # <<>> /\ Head(items) = Malformed
        BY <2>5, <4>3, PlainItems, OneMeantFirst
      <4> HIDE DEF d
      <4> QED
        BY <1>3, <4>2, <4>4 DEF d
    <3>5. CASE ~ (Len(rest) < Needed(type))
      <4> DEFINE item == Message(type, Fields(type, rest))
      <4>1. d = Yields(c, Behind(here, e), item)
        BY <1>5, <3>1, <3>2, <3>5 DEF DecodeMessages, at, type
      <4>2. item \in Items
        BY <2>8, <3>1, <3>5, FieldsFit
      <4> HIDE DEF item
      <4>3. d.codec = c /\ d.src = Behind(here, e) /\ d.result = "item" /\ d.item = item
        BY <4>1 DEF Yields
      <4>4. items = <<item>> \o later
        BY <3>3, <3>5, Zenon DEF MeaningOfMessage, item
      <4>5. items # <<>> /\ Head(items) = item /\ Tail(items) = later
        BY <2>5, <4>2, <4>4, OneMeantFirst, SMTT(30)
      <4> HIDE DEF d, later
      <4> QED
        BY <2>6, <2>7, <4>3, <4>5 DEF d
    <3> QED
      BY <3>4, <3>5
  <2> QED
    BY <2>9, <2>10
<1> QED
  BY <1>4, <1>5

CodecType == [normal : BOOLEAN, pstrlen : {NoLength} \cup Nat, info_hash_sent : BOOLEAN]

(* A handshake at the front of the buffer is the script's greeting, as far *)
(* as it is there, and what it means is read off the buffer.               *)
LEMMA GreetingInBuffer ==
  ASSUME NEW script \in Scripts, NEW s \in Seq(Nat), NEW t \in Seq(Nat), s # <<>>,
         Then(s, t) = UnitsFrom(script)[1]
  PROVE  LET len   == s[1]
             units == script[1].units
             pstr  == SubSeq(s, 2, len + 1)
             later == MeansFrom(script)[2]
         IN /\ len \in Nat /\ later \in Seq(Items) /\ 2 \in 2 .. Len(script) + 1
            /\ units \in Seq(Nat) /\ Len(units) = len + 4
            /\ Then(units, UnitsFrom(script)[2]) = Then(s, t)
            /\ UnitsFrom(script)[2] \in Seq(Nat)
            /\ Len(s) >= len + 1 /\ pstr # Protocol =>
                 MeansFrom(script)[1] = <<Malformed>> \o later
            /\ Len(s) >= len + 3 /\ pstr = Protocol =>
                 /\ s[len + 3] \in Nat
                 /\ units[len + 3] = s[len + 3] /\ units[len + 4] \in Nat
                 /\ MeansFrom(script)[1] =
                      <<HandshakePartial(s[len + 3]),
                        Handshake(pstr, s[len + 3], units[len + 4])>> \o later
<1> DEFINE len   == s[1]
           units == script[1].units
           next  == UnitsFrom(script)[2]
           later == MeansFrom(script)[2]
           pstr  == SubSeq(s, 2, len + 1)
<1>1. Len(s) \in Nat /\ Len(s) > 0 /\ len \in Nat
  OBVIOUS
<1>2. Len(script) \in Nat /\ Len(script) # 0
  <2>1. Len(script) \in Nat
    BY ScriptUnfolds
  <2> SUFFICES ASSUME Len(script) = 0
               PROVE  FALSE
    BY <2>1
  <2>2. UnitsFrom(script)[Len(script) + 1] = <<>>
    BY ScriptUnfolds, Zenon
  <2>3. Len(Then(s, t)) = 0
    BY <2>2
  <2>4. Len(Then(s, t)) = Len(s) + Len(t)
    BY ThenIs, Zenon
  <2>5. Len(t) \in Nat
    BY LenProperties
  <2> QED
    BY <1>1, <2>3, <2>4, <2>5
<1>3. 1 \in 1 .. Len(script) /\ 2 \in 1 .. Len(script) + 1 /\ 2 \in 2 .. Len(script) + 1
  BY <1>2
<1>4. /\ units \in Seq(Nat) /\ next \in Seq(Nat) /\ later \in Seq(Items)
      /\ UnitsFrom(script)[1] = Then(units, next)
      /\ MeansFrom(script)[1] = script[1].means \o later
  <2>1. \A i \in 1 .. Len(script) :
          /\ script[i].units \in Seq(Nat)
          /\ UnitsFrom(script)[i] = script[i].units \o UnitsFrom(script)[i + 1]
          /\ MeansFrom(script)[i] = script[i].means \o MeansFrom(script)[i + 1]
    BY ScriptUnfolds, Zenon
  <2>2. next \in Seq(Nat) /\ later \in Seq(Items)
    BY <1>3, ScriptUnfolds, Zenon
  <2>3. 1 + 1 = 2
    OBVIOUS
  <2> QED
    BY <1>3, <2>1, <2>2, <2>3, Zenon DEF Then
<1>5. IsGreeting(units) /\ MeansFrom(script)[1] = MeaningOfGreeting(units) \o later
  <2>1. IsGreeting(units) /\ script[1].means = MeaningOfGreeting(units)
    BY <1>3, ScriptsAssumption
  <2> QED
    BY <1>4, <2>1, Zenon
<1> HIDE DEF units, next, later
<1>6. units # <<>> /\ Len(units) = units[1] + 4 /\ Len(units) \in Nat /\ units[1] \in Nat
  BY <1>4, <1>5, SMTT(30) DEF IsGreeting
<1>7. \A i \in 1 .. Len(s) : i \in 1 .. Len(units) => units[i] = s[i]
  <2> TAKE i \in 1 .. Len(s)
  <2>1. Then(s, t)[i] = s[i]
    BY ThenIs
  <2>2. i \in 1 .. Len(units) => Then(units, next)[i] = units[i]
    BY <1>4, ThenIs, ZenonT(40)
  <2> QED
    BY <1>4, <2>1, <2>2
<1>8. units[1] = len /\ Len(units) = len + 4
  <2>1. 1 \in 1 .. Len(s) /\ 1 \in 1 .. Len(units)
    BY <1>1, <1>6
  <2> QED
    BY <1>6, <1>7, <2>1
<1> HIDE DEF len
<1>9. Len(s) >= len + 1 => SubSeq(units, 2, len + 1) = pstr
  <2> SUFFICES ASSUME Len(s) >= len + 1
               PROVE  SubSeq(units, 2, len + 1) = pstr
    OBVIOUS
  <2>1. /\ \A i \in 2 .. len + 1 : i \in 1 .. Len(s) /\ i \in 1 .. Len(units)
        /\ len + 1 \in Nat /\ len + 1 <= Len(s) /\ len + 1 <= Len(units)
    BY <1>1, <1>8
  <2>2. \A i \in 2 .. len + 1 : units[i] = s[i]
    BY <1>7, <2>1
  <2> QED
    BY <1>4, <2>1, <2>2, SamePart, SMTT(30)
<1> HIDE DEF pstr
<1>10. ASSUME Len(s) >= len + 1, pstr # Protocol
       PROVE  MeansFrom(script)[1] = <<Malformed>> \o later
  <2>1. MeaningOfGreeting(units) = <<Malformed>>
    BY <1>8, <1>9, <1>10, Zenon DEF MeaningOfGreeting
  <2> QED
    BY <1>5, <2>1, Zenon
<1>11. ASSUME Len(s) >= len + 3, pstr = Protocol
       PROVE  /\ s[len + 3] \in Nat
              /\ units[len + 3] = s[len + 3] /\ units[len + 4] \in Nat
              /\ MeansFrom(script)[1] =
                   <<HandshakePartial(s[len + 3]),
                     Handshake(pstr, s[len + 3], units[len + 4])>> \o later
  <2>1. /\ Len(s) >= len + 1 /\ len + 3 \in 1 .. Len(s) /\ len + 3 \in 1 .. Len(units)
        /\ len + 4 \in 1 .. Len(units)
    BY <1>1, <1>8, <1>11
  <2>2. units[len + 3] = s[len + 3] /\ s[len + 3] \in Nat /\ units[len + 4] \in Nat
    <3>1. units[len + 3] = s[len + 3]
      BY <1>7, <2>1
    <3>2. units[len + 4] \in Nat
      BY <1>4, <2>1, ElementOfSeq
    <3>3. s[len + 3] \in Nat
      BY <2>1, ElementOfSeq
    <3> QED
      BY <3>1, <3>2, <3>3
  <2>3. MeaningOfGreeting(units) =
          <<HandshakePartial(units[len + 3]),
            Handshake(pstr, units[len + 3], units[len + 4])>>
    BY <1>8, <1>9, <1>11, <2>1, Zenon DEF MeaningOfGreeting
  <2> QED
    BY <1>5, <2>2, <2>3, Zenon
<1> QED
  BY <1>1, <1>3, <1>4, <1>8, <1>10, <1>11 DEF len, pstr, units, next, later

LEMMA GreetingItems ==
  ASSUME NEW hash \in Nat, NEW id \in Nat
  PROVE  HandshakePartial(hash) \in Items /\ Handshake(Protocol, hash, id) \in Items
<1>1. "HandshakePartial" \in ItemTypes /\ "Handshake" \in ItemTypes
  BY DEF ItemTypes
<1>2. <<hash>> \in Seq(Nat)
  OBVIOUS
<1>3. Protocol \o <<0, hash, id>> \in Seq(Nat)
  <2>1. Protocol \in Seq(Nat) /\ <<0, hash, id>> \in Seq(Nat)
    BY DEF Protocol
  <2> QED
    BY <2>1, ConcatProperties
<1> QED
  BY <1>1, <1>2, <1>3 DEF Items, Message, HandshakePartial, Handshake

(* In its handshake the decoder tells the info_hash once and then all of   *)
(* it, fails at another protocol, and waits only for what is not there.    *)
LEMMA HandshakeDecodes ==
  ASSUME NEW script \in Scripts, NEW c \in CodecType, ~ c.normal,
         NEW s \in Seq(Nat), NEW t \in Seq(Nat), NEW items, Greets(script, c, s, t, items)
  PROVE  LET d == DecodeHandshake(c, s) IN
         /\ d.codec \in CodecType /\ d.src \in Seq(Nat)
         /\ \/ /\ d.result = "wait" /\ ~ d.codec.normal
               /\ DecodeHandshake(d.codec, d.src).result = "wait"
               /\ Greets(script, d.codec, d.src, t, items)
            \/ /\ d.result = "item"
               /\ items # <<>> /\ d.item = Head(items)
               /\ \/ ~ d.codec.normal /\ Greets(script, d.codec, d.src, t, Tail(items))
                  \/ d.codec.normal /\ \E k : Remains(script, k, Then(d.src, t), Tail(items))
            \/ d.result = "error" /\ items # <<>> /\ Head(items) = Malformed
<1> DEFINE d == DecodeHandshake(c, s)
           all == MeansFrom(script)[1]
           len == IF c.pstrlen # NoLength THEN c.pstrlen ELSE s[1]
           seen == [c EXCEPT !.pstrlen = len]
           pstr == SubSeq(s, 2, len + 1)
           units == script[1].units
           later == MeansFrom(script)[2]
           first == HandshakePartial(s[len + 3])
           second == Handshake(pstr, s[len + 3], units[len + 4])
<1>1. /\ Then(s, t) = UnitsFrom(script)[1]
      /\ items = IF c.info_hash_sent THEN Tail(all) ELSE all
      /\ c.pstrlen # NoLength => s # <<>> /\ c.pstrlen = s[1]
      /\ c.info_hash_sent => s # <<>> /\ Len(s) >= s[1] + 3 /\ SubSeq(s, 2, s[1] + 1) = Protocol
  BY DEF Greets, Then
<1>2. CASE s = <<>>
  <2>1. d = Waits(c, s)
    BY <1>2 DEF DecodeHandshake
  <2> HIDE DEF d
  <2>2. d.codec = c /\ d.src = s /\ d.result = "wait"
    BY <2>1 DEF Waits
  <2> QED
    BY <2>2 DEF d
<1>3. CASE s # <<>>
  <2>1. /\ len = s[1] /\ len \in Nat /\ later \in Seq(Items) /\ 2 \in 2 .. Len(script) + 1
        /\ units \in Seq(Nat) /\ Len(units) = len + 4
        /\ Then(units, UnitsFrom(script)[2]) = Then(s, t)
        /\ UnitsFrom(script)[2] \in Seq(Nat)
        /\ Len(s) >= len + 1 /\ pstr # Protocol => all = <<Malformed>> \o later
        /\ Len(s) >= len + 3 /\ pstr = Protocol =>
             /\ s[len + 3] \in Nat
             /\ units[len + 3] = s[len + 3] /\ units[len + 4] \in Nat
             /\ all = <<first, second>> \o later
    <3>1. len = s[1]
      BY <1>1
    <3> HIDE DEF len
    <3> QED
      BY <1>1, <1>3, <3>1, GreetingInBuffer, Zenon
  <2> HIDE DEF later, units
  <2>2. Len(s) \in Nat
    BY LenProperties
  <2>3. seen \in CodecType /\ ~ seen.normal /\ seen.pstrlen = len
        /\ seen.info_hash_sent = c.info_hash_sent
    BY <2>1 DEF CodecType
  <2>4. Greets(script, seen, s, t, items)
    BY <1>1, <1>3, <2>1, <2>3 DEF Greets, Then
  <2>5. c.info_hash_sent => Len(s) >= len + 3 /\ pstr = Protocol
    BY <1>1, <2>1
  <2>6. /\ DecodeHandshake(seen, s) = d
        /\ d = IF Len(s) < len + 1 THEN Waits(seen, s)
                ELSE IF pstr # Protocol THEN Errors(seen, s)
                ELSE IF Len(s) < len + 3 THEN Waits(seen, s)
                ELSE IF ~ seen.info_hash_sent THEN Partial(seen, s, len + 3)
                ELSE IF Len(s) < len + 3 + 1 THEN Waits(seen, s)
                ELSE Yields(NormalCodec, Behind(s, len + 3 + 1),
                            Handshake(pstr, s[len + 3], s[len + 3 + 1]))
    <3>1. seen.pstrlen # NoLength
      BY <2>1, <2>3 DEF NoLength
    <3>2. [seen EXCEPT !.pstrlen = len] = seen
      BY DEF CodecType
    <3> HIDE DEF seen
    <3>3. DecodeHandshake(seen, s) =
            IF Len(s) < len + 1 THEN Waits(seen, s)
            ELSE IF pstr # Protocol THEN Errors(seen, s)
            ELSE IF Len(s) < len + 3 THEN Waits(seen, s)
            ELSE IF ~ seen.info_hash_sent THEN Partial(seen, s, len + 3)
            ELSE IF Len(s) < len + 3 + 1 THEN Waits(seen, s)
            ELSE Yields(NormalCodec, Behind(s, len + 3 + 1),
                        Handshake(pstr, s[len + 3], s[len + 3 + 1]))
      <4> HIDE DEF len
      <4> QED
        BY <1>3, <2>3, <3>1, <3>2, Zenon DEF DecodeHandshake
    <3>4. d = IF Len(s) < len + 1 THEN Waits(seen, s)
              ELSE IF pstr # Protocol THEN Errors(seen, s)
              ELSE IF Len(s) < len + 3 THEN Waits(seen, s)
              ELSE IF ~ seen.info_hash_sent THEN Partial(seen, s, len + 3)
              ELSE IF Len(s) < len + 3 + 1 THEN Waits(seen, s)
              ELSE Yields(NormalCodec, Behind(s, len + 3 + 1),
                          Handshake(pstr, s[len + 3], s[len + 3 + 1]))
      BY <1>3, Zenon DEF DecodeHandshake, seen
    <3> HIDE DEF d, len, pstr
    <3> QED
      BY <3>3, <3>4, Zenon
  <2> HIDE DEF d, len, seen, pstr
  <2>7. CASE d = Waits(seen, s)
    <3>1. d.codec = seen /\ d.src = s /\ d.result = "wait"
      BY <2>7 DEF Waits
    <3> QED
      BY <2>3, <2>4, <2>6, <3>1, Zenon DEF d
  <2>8. CASE Len(s) >= len + 1 /\ pstr # Protocol /\ d = Errors(seen, s)
    <3>1. d.codec = seen /\ d.src = s /\ d.result = "error"
      BY <2>8 DEF Errors
    <3>2. items = <<Malformed>> \o later
      BY <1>1, <2>1, <2>5, <2>8, Zenon
    <3>3. items # <<>> /\ Head(items) = Malformed
      BY <2>1, <3>2, PlainItems, OneMeantFirst
    <3> QED
      BY <2>3, <3>1, <3>3, Zenon DEF d
  <2>9. CASE /\ Len(s) >= len + 3 /\ pstr = Protocol
             /\ ~ seen.info_hash_sent /\ d = Partial(seen, s, len + 3)
    <3> DEFINE told == [seen EXCEPT !.info_hash_sent = TRUE]
    <3>1. d.codec = told /\ d.src = s /\ d.result = "item" /\ d.item = first
      BY <2>9 DEF Partial, Yields
    <3>2. told \in CodecType /\ ~ told.normal /\ told.pstrlen = len /\ told.info_hash_sent
      BY <2>3 DEF CodecType
    <3>3. first \in Items /\ second \in Items /\ all = <<first, second>> \o later
      BY <2>1, <2>9, GreetingItems
    <3> HIDE DEF first, second, told, all
    <3>4. all = <<first>> \o (<<second>> \o later) /\ <<second>> \o later \in Seq(Items)
      BY <2>1, <3>3, TwoMeantFirst, OneMeantFirst, ZenonT(40)
    <3>5. all # <<>> /\ Head(all) = first
      BY <3>3, <3>4, OneMeantFirst
    <3>6. items = all
      BY <1>1, <2>3, <2>9
    <3>7. Greets(script, told, s, t, Tail(items))
      BY <1>1, <1>3, <2>1, <2>9, <3>2, <3>6 DEF Greets, Then, all, pstr
    <3> QED
      BY <3>1, <3>2, <3>5, <3>6, <3>7, Zenon DEF d
  <2>10. CASE /\ Len(s) >= len + 4 /\ pstr = Protocol /\ seen.info_hash_sent
              /\ d = Yields(NormalCodec, Behind(s, len + 3 + 1),
                            Handshake(pstr, s[len + 3], s[len + 3 + 1]))
    <3>1. len + 3 + 1 = len + 4 /\ len + 4 \in 0 .. Len(s) /\ Len(s) >= len + 3
          /\ len + 4 \in 1 .. Len(units) /\ Len(units) <= Len(s)
      <4>1. len \in Nat /\ Len(s) \in Nat /\ Len(s) >= len + 4 /\ Len(units) = len + 4
        BY <2>1, <2>2, <2>10
      <4> DEFINE l == Len(s)
                 m == Len(units)
      <4>2. l \in Nat /\ l >= len + 4 /\ m = len + 4
        BY <4>1
      <4> HIDE DEF l, m
      <4>3. len + 3 + 1 = len + 4 /\ len + 4 \in 0 .. l /\ l >= len + 3
            /\ len + 4 \in 1 .. m /\ m <= l
        BY <4>1, <4>2
      <4> QED
        BY <4>3 DEF l, m
    <3>2. /\ \A i \in 1 .. Len(units) : units[i] = s[i]
          /\ Then(Behind(s, Len(units)), t) = UnitsFrom(script)[2]
      <4>1. Then(s, t) = Then(units, UnitsFrom(script)[2])
        BY <2>1
      <4> QED
        <5>1. units \in Seq(Nat) /\ UnitsFrom(script)[2] \in Seq(Nat) /\ Len(units) <= Len(s)
          BY <2>1, <3>1
        <5> QED
          BY <4>1, <5>1, CutTwice
    <3>3. units[len + 4] = s[len + 4]
      BY <3>1, <3>2
    <3>4. d.codec = NormalCodec /\ d.src = Behind(s, len + 4) /\ d.result = "item"
          /\ d.item = second
      BY <2>10, <3>1, <3>3 DEF Yields
    <3>5. first \in Items /\ second \in Items /\ all = <<first, second>> \o later
      BY <2>1, <2>10, <3>1, GreetingItems
    <3> HIDE DEF first, second, all
    <3>6. all = <<first>> \o (<<second>> \o later) /\ <<second>> \o later \in Seq(Items)
      BY <2>1, <3>5, TwoMeantFirst, OneMeantFirst
    <3>7. items = <<second>> \o later
      BY <1>1, <2>3, <2>10, <3>5, <3>6, OneMeantFirst
    <3>8. items # <<>> /\ Head(items) = second /\ Tail(items) = later
      BY <2>1, <3>5, <3>7, OneMeantFirst
    <3>9. Remains(script, 2, Then(d.src, t), Tail(items))
      BY <2>1, <3>2, <3>4, <3>8 DEF Remains, later
    <3>10. NormalCodec \in CodecType /\ NormalCodec.normal
      BY DEF NormalCodec, CodecType
    <3>11. Behind(s, len + 4) \in Seq(Nat)
      BY <3>1, BehindIs
    <3> QED
      BY <3>4, <3>8, <3>9, <3>10, <3>11, Zenon DEF d
  <2>11. /\ ~ (Len(s) < len + 1) => Len(s) >= len + 1
         /\ ~ (Len(s) < len + 3) => Len(s) >= len + 3
    <3> DEFINE l == Len(s)
    <3>1. l \in Nat /\ len \in Nat
      BY <2>1, <2>2
    <3> HIDE DEF l
    <3>2. (~ (l < len + 1) => l >= len + 1) /\ (~ (l < len + 3) => l >= len + 3)
      BY <3>1
    <3> QED
      BY <3>2 DEF l
  <2>12. ~ (Len(s) < len + 3 + 1) => Len(s) >= len + 4
    BY <2>1, <2>2, SMTT(30)
  <2> QED
    BY <2>6, <2>7, <2>8, <2>9, <2>10, <2>11, <2>12, Zenon
<1> QED
  BY <1>2, <1>3

-----------------------------------------------------------------------------
(* One poll.                                                               *)

LEMMA DecodedFits ==
  ASSUME NEW c \in CodecType, NEW s \in Seq(Nat), NEW t \in Seq(Nat), NEW items,
         InStep(c, s, t, items)
  PROVE  LET d == Decode(c, s) IN
         /\ d.codec \in CodecType /\ d.src \in Seq(Nat)
         /\ \/ /\ d.result = "wait"
               /\ InStep(d.codec, d.src, t, items) /\ NothingLeft(d.codec, d.src)
            \/ /\ d.result = "item"
               /\ items # <<>> /\ d.item = Head(items)
               /\ InStep(d.codec, d.src, t, Tail(items))
            \/ d.result = "error" /\ items # <<>> /\ Head(items) = Malformed
<1>0. c.normal \in BOOLEAN
  BY DEF CodecType
<1>1. CASE c.normal
  <2> DEFINE d == DecodeMessages(c, s)
  <2>1. PICK script \in Scripts : \E k : Remains(script, k, Then(s, t), items)
    BY <1>1 DEF InStep, Then
  <2>2. Decode(c, s) = d
    BY <1>1 DEF Decode
  <2>3. \A u, rest : (\E j : Remains(script, j, Then(u, t), rest)) => InStep(c, u, t, rest)
    BY <1>1, <2>1, Zenon DEF InStep, Remains, Then
  <2>4. /\ d.codec = c /\ d.src \in Seq(Nat)
        /\ \/ /\ d.result = "wait"
              /\ ~ WholeFrame(d.src, 0)
              /\ \E j : Remains(script, j, Then(d.src, t), items)
           \/ /\ d.result = "item"
              /\ items # <<>> /\ d.item = Head(items)
              /\ \E j : Remains(script, j, Then(d.src, t), Tail(items))
           \/ d.result = "error" /\ items # <<>> /\ Head(items) = Malformed
    <3>1. PICK k : Remains(script, k, Then(s, t), items)
      BY <2>1
    <3> QED
      BY <3>1, MessagesDecode, Zenon
  <2> HIDE DEF d
  <2>5. ~ WholeFrame(d.src, 0) => NothingLeft(c, d.src)
    BY <1>1 DEF NothingLeft
  <2> QED
    BY <2>2, <2>3, <2>4, <2>5, Zenon
<1>2. CASE ~ c.normal
  <2> DEFINE d == DecodeHandshake(c, s)
  <2>1. PICK script \in Scripts : Greets(script, c, s, t, items)
    BY <1>2 DEF InStep
  <2>2. Decode(c, s) = d
    BY <1>2 DEF Decode
  <2>3. /\ d.codec \in CodecType /\ d.src \in Seq(Nat)
        /\ \/ /\ d.result = "wait" /\ ~ d.codec.normal
              /\ DecodeHandshake(d.codec, d.src).result = "wait"
              /\ Greets(script, d.codec, d.src, t, items)
           \/ /\ d.result = "item"
              /\ items # <<>> /\ d.item = Head(items)
              /\ \/ ~ d.codec.normal /\ Greets(script, d.codec, d.src, t, Tail(items))
                 \/ d.codec.normal /\ \E k : Remains(script, k, Then(d.src, t), Tail(items))
           \/ d.result = "error" /\ items # <<>> /\ Head(items) = Malformed
    BY <1>2, <2>1, HandshakeDecodes, Zenon
  <2> HIDE DEF d
  <2>4. CASE d.result = "wait"
    BY <2>1, <2>2, <2>3, <2>4 DEF InStep, NothingLeft
  <2>5. CASE d.result = "item"
    <3>1. \/ ~ d.codec.normal /\ Greets(script, d.codec, d.src, t, Tail(items))
          \/ d.codec.normal /\ \E k : Remains(script, k, Then(d.src, t), Tail(items))
      BY <2>3, <2>5
    <3>2. InStep(d.codec, d.src, t, Tail(items))
      BY <2>1, <3>1, Zenon DEF InStep, Remains, Then
    <3> QED
      BY <2>2, <2>3, <2>5, <3>2
  <2>6. CASE d.result = "error"
    BY <2>2, <2>3, <2>6
  <2> QED
    BY <2>3, <2>4, <2>5, <2>6
<1> QED
  BY <1>0, <1>1, <1>2

(* What arrives is moved from one end of the stream to the other.          *)
LEMMA ArrivalFits ==
  ASSUME NEW c, NEW s \in Seq(Nat), NEW t \in Seq(Nat), NEW items, NEW n \in 1 .. Len(t),
         InStep(c, s, t, items)
  PROVE  /\ s \o SubSeq(t, 1, n) \in Seq(Nat)
         /\ SubSeq(t, n + 1, Len(t)) \in Seq(Nat)
         /\ InStep(c, s \o SubSeq(t, 1, n), SubSeq(t, n + 1, Len(t)), items)
<1> DEFINE x == SubSeq(t, 1, n)
           y == SubSeq(t, n + 1, Len(t))
<1>1. n \in 0 .. Len(t) /\ n \in Nat /\ Len(t) \in Nat
  OBVIOUS
<1>2. x \in Seq(Nat)
  <2>1. \A i \in 1 .. n : t[i] \in Nat
    <3>1. \A i \in 1 .. n : i \in 1 .. Len(t)
      BY <1>1
    <3> QED
      BY <3>1, ElementOfSeq
  <2> QED
    BY <1>1, <2>1, SubSeqProperties
<1>3. y \in Seq(Nat)
  BY <1>1, BehindIs DEF Behind
<1>4. x \o y = t
  <2>1. /\ 1 \in 1 .. Len(t) + 1 /\ n \in 1 - 1 .. Len(t) /\ Len(t) \in n .. Len(t)
    BY <1>1
  <2>2. SubSeq(t, 1, n) \o SubSeq(t, n + 1, Len(t)) = SubSeq(t, 1, Len(t))
    BY <2>1, ConcatAdjacentSubSeq
  <2> QED
    BY <2>2, SubSeqFull
<1> HIDE DEF x, y
<1> DEFINE u == Then(s, x)
<1>5. Then(u, y) = Then(s, t)
  <2>1. Then(x, y) = t
    BY <1>4 DEF Then
  <2> QED
    BY <1>2, <1>3, <2>1, ThenRegroups
<1>6. /\ u \in Seq(Nat) /\ Len(u) = Len(s) + Len(x) /\ Len(s) \in Nat /\ Len(x) \in Nat
      /\ \A i \in 1 .. Len(s) : u[i] = s[i]
  <2>1. Len(s) \in Nat /\ Len(x) \in Nat
    BY <1>2, LenProperties
  <2> QED
    BY <1>2, <2>1, ThenIs
<1>7. ASSUME s # <<>>
      PROVE  u # <<>> /\ u[1] = s[1] /\ s[1] \in Nat
  BY <1>6, <1>7, SMTT(30)
<1>8. ASSUME s # <<>>, Len(s) >= s[1] + 3
      PROVE  Len(u) >= u[1] + 3 /\ SubSeq(u, 2, u[1] + 1) = SubSeq(s, 2, s[1] + 1)
  <2>1. u[1] = s[1] /\ s[1] \in Nat
    BY <1>7, <1>8
  <2>2. Len(u) >= u[1] + 3
    <3> DEFINE l == Len(s)
               m == Len(x)
               a == s[1]
    <3> HIDE DEF u
    <3>1. Len(u) = l + m /\ l \in Nat /\ m \in Nat /\ a \in Nat /\ l >= a + 3
      BY <1>6, <1>8, <2>1, Zenon
    <3> HIDE DEF l, m, a
    <3>2. Len(u) >= a + 3
      BY <3>1, SMTT(20)
    <3> QED  BY <2>1, <3>2 DEF a
  <2> DEFINE e == s[1] + 1
  <2>3. e \in Nat /\ e <= Len(s) /\ e <= Len(u) /\ \A i \in 2 .. e : i \in 1 .. Len(s)
    <3>1. /\ e \in Nat /\ e <= Len(s) /\ \A i \in 2 .. e : i \in 1 .. Len(s)
      <4> DEFINE l == Len(s)
                 a == s[1]
      <4>1. l \in Nat /\ a \in Nat /\ l >= a + 3
        BY <1>6, <1>8, <2>1
      <4> HIDE DEF l, a
      <4>2. a + 1 \in Nat /\ a + 1 <= l /\ \A i \in 2 .. a + 1 : i \in 1 .. l
        BY <4>1
      <4> QED
        BY <4>2 DEF l, a
    <3>2. Len(s) <= Len(u) /\ Len(u) \in Nat
      <4> HIDE DEF u
      <4> QED  BY <1>6
    <3> HIDE DEF e, u
    <3> QED
      BY <1>6, <3>1, <3>2
  <2> HIDE DEF e, u
  <2>4. SubSeq(u, 2, e) = SubSeq(s, 2, e)
    BY <1>6, <2>3, SamePart
  <2> QED
    BY <2>1, <2>2, <2>4 DEF e
<1>9. PICK script \in Scripts :
        IF c.normal THEN \E k \in 2 .. Len(script) + 1 : Remains(script, k, Then(s, t), items)
        ELSE Greets(script, c, s, t, items)
  BY DEF InStep, Then
<1>10. ASSUME NEW k, Remains(script, k, Then(s, t), items)
       PROVE  Remains(script, k, Then(u, y), items)
  BY <1>5, <1>10
<1>11. Greets(script, c, s, t, items) => Greets(script, c, u, y, items)
  <2> SUFFICES ASSUME Greets(script, c, s, t, items)
               PROVE  Greets(script, c, u, y, items)
    OBVIOUS
  <2>1. Then(u, y) = UnitsFrom(script)[1]
    BY <1>5 DEF Greets, Then
  <2> HIDE DEF u
  <2>2. c.pstrlen # NoLength => u # <<>> /\ c.pstrlen = u[1]
    BY <1>7 DEF Greets
  <2>3. c.info_hash_sent =>
          u # <<>> /\ Len(u) >= u[1] + 3 /\ SubSeq(u, 2, u[1] + 1) = Protocol
    BY <1>7, <1>8 DEF Greets
  <2> QED
    BY <2>1, <2>2, <2>3 DEF Greets, Then
<1>12. InStep(c, u, y, items)
  <2> HIDE DEF u
  <2> QED  BY <1>9, <1>10, <1>11, Zenon DEF InStep, Then
<1> QED
  BY <1>3, <1>6, <1>12 DEF Then, x, y

-----------------------------------------------------------------------------
(* The invariant holds at first, and every step keeps it.                  *)

LEMMA InitConnectionInv == Init => ConnectionInv
<1> SUFFICES ASSUME Init
             PROVE  ConnectionInv
  OBVIOUS
<1>1. PICK script \in Scripts :
        unsent = UnitsFrom(script)[1] /\ expected = MeansFrom(script)[1]
  BY DEF Init
<1>2. unsent \in Seq(Nat)
  <2>1. 1 \in 1 .. Len(script) + 1
    BY ScriptUnfolds
  <2> QED
    BY <1>1, <2>1, ScriptUnfolds
<1>3. /\ codec \in CodecType /\ ~ codec.normal /\ codec.pstrlen = NoLength
      /\ ~ codec.info_hash_sent /\ src = <<>>
  BY DEF Init, NewCodec, CodecType
<1>4. Greets(script, codec, src, unsent, expected)
  <2>1. <<>> \o unsent = unsent
    BY <1>2, ConcatEmptySeq
  <2> QED
    BY <1>1, <1>3, <2>1 DEF Greets
<1>5. NothingLeft(codec, src)
  BY <1>3 DEF NothingLeft, DecodeHandshake, Waits
<1>6. Aligned
  BY <1>3, <1>4, <1>5 DEF Aligned, InStep
<1>7. TypeOK
  <2>1. /\ codec \in [normal : BOOLEAN, pstrlen : {NoLength} \cup Nat, info_hash_sent : BOOLEAN]
        /\ src \in Seq(Nat)
    BY <1>3 DEF CodecType
  <2>2. incoming \in Seq(Kinds) /\ Len(incoming) <= ChannelSize /\ carried \in Kinds
    BY SizesAssumption DEF Init, Kinds
  <2>3. outgoing \in 0 .. ChannelSize /\ wire_out \in 0 .. WireSize /\ to_send \in 0 .. Burst
    BY SizesAssumption DEF Init
  <2> QED
    BY <1>2, <2>1, <2>2, <2>3 DEF Init, TypeOK
<1> QED
  BY <1>6, <1>7 DEF Init, ConnectionInv

(* A poll of a live reader keeps the buffer in step, or fails for good.    *)
LEMMA PollKeeps ==
  ASSUME ConnectionInv, stage # "over", reader = "reading",
         NEW result \in {"wait", "item", "error"}, Poll(result)
  PROVE  /\ codec' \in CodecType /\ src' \in Seq(Nat) /\ unsent' \in Seq(Nat)
         /\ readable' \in BOOLEAN
         /\ result = "error" => ~ readable'
         /\ result # "error" =>
              /\ InStep(codec', src', unsent', expected')
              /\ ~ readable' => NothingLeft(codec', src')
<1>1. /\ codec \in CodecType /\ src \in Seq(Nat) /\ unsent \in Seq(Nat)
      /\ InStep(codec, src, unsent, expected)
  BY DEF ConnectionInv, Aligned, TypeOK, CodecType
<1> DEFINE d == Decode(codec, src)
<1>2. /\ d.codec \in CodecType /\ d.src \in Seq(Nat)
      /\ \/ /\ d.result = "wait"
            /\ InStep(d.codec, d.src, unsent, expected) /\ NothingLeft(d.codec, d.src)
         \/ /\ d.result = "item"
            /\ expected # <<>> /\ d.item = Head(expected)
            /\ InStep(d.codec, d.src, unsent, Tail(expected))
         \/ d.result = "error" /\ expected # <<>> /\ Head(expected) = Malformed
  BY <1>1, DecodedFits, Zenon
<1>3. /\ d.result = result /\ codec' = d.codec /\ src' = d.src /\ unsent' = unsent
      /\ readable' = (result = "item")
      /\ expected' = IF result = "item" /\ expected # <<>> THEN Tail(expected) ELSE expected
  BY DEF Poll, Decoded
<1> HIDE DEF d
<1>4. CASE result = "wait"
  <2>1. expected' = expected /\ ~ readable' /\ readable' \in BOOLEAN
    BY <1>3, <1>4
  <2> QED
    BY <1>1, <1>2, <1>3, <1>4, <2>1
<1>5. CASE result = "item"
  <2>1. expected' = Tail(expected) /\ readable' = TRUE
    BY <1>2, <1>3, <1>5
  <2> QED
    BY <1>1, <1>2, <1>3, <1>5, <2>1
<1>6. CASE result = "error"
  <2>1. ~ readable' /\ readable' \in BOOLEAN
    BY <1>3, <1>6
  <2> QED
    BY <1>1, <1>2, <1>3, <1>6, <2>1
<1> QED
  BY <1>4, <1>5, <1>6

(* What keeps the buffer, its stage and its reader keeps them aligned.     *)
LEMMA UntouchedKeeps ==
  ASSUME Aligned, UNCHANGED <<codec, src, unsent, readable, expected>>,
         stage = "over" => stage' = "over",
         reader = "ended" /\ ~ readable => reader' = "ended"
  PROVE  Aligned'
BY DEF Aligned

LEMMA EarlyKeeps ==
  ASSUME ConnectionInv, Early
  PROVE  ConnectionInv'
<1> USE DEF peerVars, inVars, outVars, loopVars, wireVars
<1>1. TypeOK /\ Aligned
  BY DEF ConnectionInv
<1>2. ASSUME NEW next \in {"handshake", "asking", "bitfield", "running", "over"},
             stage \in {"handshake", "asking", "bitfield"}, Enter(next),
             greeting' \in {"first", "reply", "sent"}
      PROVE  /\ reader = "reading" /\ reader' = "reading" /\ stage' = next
             /\ manager' = manager /\ to_send' = to_send
             /\ codec' \in CodecType /\ src' \in Seq(Nat) /\ unsent' \in Seq(Nat)
                  /\ readable' \in BOOLEAN => TypeOK'
  BY <1>2 DEF ConnectionInv, TypeOK, Enter, CodecType
<1>3. ASSUME NEW next \in {"handshake", "asking", "bitfield", "running", "over"},
             stage \in {"handshake", "asking", "bitfield"}, Enter(next),
             greeting' \in {"first", "reply", "sent"},
             UNCHANGED <<codec, src, unsent, readable, expected>>
      PROVE  ConnectionInv'
  <2>1. TypeOK'
    BY <1>1, <1>2, <1>3 DEF TypeOK, CodecType
  <2>2. Aligned'
    <3>1. stage # "over" /\ reader # "ended"
      BY <1>2, <1>3
    <3> QED
      BY <1>1, <1>3, <3>1, UntouchedKeeps, Zenon
  <2> QED
    BY <1>2, <1>3, <2>1, <2>2 DEF ConnectionInv
<1>4. ASSUME NEW next \in {"handshake", "asking", "bitfield", "running", "over"},
             stage \in {"handshake", "asking", "bitfield"}, Enter(next),
             greeting' \in {"first", "reply", "sent"},
             NEW result \in {"wait", "item", "error"}, Poll(result),
             result = "error" => next = "over"
      PROVE  ConnectionInv'
  <2>1. /\ codec' \in CodecType /\ src' \in Seq(Nat) /\ unsent' \in Seq(Nat)
        /\ readable' \in BOOLEAN
        /\ result # "error" =>
             /\ InStep(codec', src', unsent', expected')
             /\ ~ readable' => NothingLeft(codec', src')
    BY <1>2, <1>4, PollKeeps
  <2>2. Aligned'
    <3>1. CASE result = "error"
      BY <1>2, <1>4, <3>1 DEF Aligned
    <3>2. CASE result # "error"
      BY <2>1, <3>2, Zenon DEF Aligned
    <3> QED
      BY <3>1, <3>2
  <2> QED
    BY <1>2, <1>4, <2>1, <2>2 DEF ConnectionInv
<1>5. greeting \in {"first", "reply", "sent"}
  BY <1>1 DEF TypeOK
<1>6. CASE SendHandshake
  BY <1>3, <1>6 DEF SendHandshake
<1>7. CASE ReceivePartial
  BY <1>4, <1>5, <1>7 DEF ReceivePartial
<1>8. CASE ReceiveHandshake
  BY <1>4, <1>5, <1>8 DEF ReceiveHandshake
<1>9. CASE SendBitfield
  BY <1>3, <1>5, <1>9 DEF SendBitfield
<1>10. CASE ReceiveBitfield
  BY <1>4, <1>5, <1>10 DEF ReceiveBitfield
<1>11. CASE ReceiveNothing
  BY <1>4, <1>5, <1>11 DEF ReceiveNothing, Listening
<1>12. CASE ReceiveError
  BY <1>4, <1>5, <1>12 DEF ReceiveError, Listening
<1>13. CASE EarlyEnd
  BY <1>3, <1>5, <1>13 DEF EarlyEnd, Listening
<1> QED
  BY <1>6, <1>7, <1>8, <1>9, <1>10, <1>11, <1>12, <1>13 DEF Early

(* Steps that leave the buffer alone.                                      *)
LEMMA ElsewhereKeeps ==
  ASSUME ConnectionInv, UNCHANGED wireVars, TypeOK',
         stage = "over" => stage' = "over",
         stage' \in {"handshake", "asking", "bitfield"} => reader' = "reading",
         reader = "ended" /\ ~ readable => reader' = "ended",
         manager' = "sending" => to_send' # 0
  PROVE  ConnectionInv'
<1>1. Aligned'
  BY UntouchedKeeps DEF ConnectionInv, wireVars
<1> QED
  BY <1>1 DEF ConnectionInv

(* Steps that leave the reader alone, too.                                 *)
LEMMA AsideKeeps ==
  ASSUME ConnectionInv, UNCHANGED wireVars, TypeOK', stage' = stage, reader' = reader,
         manager' = "sending" => to_send' # 0
  PROVE  ConnectionInv'
<1>1. /\ stage = "over" => stage' = "over"
      /\ stage' \in {"handshake", "asking", "bitfield"} => reader' = "reading"
      /\ reader = "ended" /\ ~ readable => reader' = "ended"
  BY DEF ConnectionInv
<1> QED
  BY <1>1, ElsewhereKeeps, Zenon

LEMMA PeerKeeps ==
  ASSUME ConnectionInv,
         PeerChanges \/ PeerReads \/ \E n \in 1 .. Len(unsent) : Arrive(n)
  PROVE  ConnectionInv'
<1> USE DEF peerVars, inVars, outVars, loopVars
<1>1. TypeOK /\ Aligned
  BY DEF ConnectionInv
<1>2. CASE PeerChanges
  <2>1. open' \in BOOLEAN /\ speaks' \in BOOLEAN /\ delivers' \in BOOLEAN /\ reads' \in BOOLEAN
    BY <1>1, <1>2 DEF PeerChanges, TypeOK
  <2>2. UNCHANGED <<stage, wireVars, inVars, outVars, loopVars>>
    BY <1>2 DEF PeerChanges
  <2>3. TypeOK'
    BY <1>1, <2>1, <2>2 DEF TypeOK, wireVars
  <2>4. stage' = stage /\ reader' = reader /\ (manager' = "sending" => to_send' # 0)
    BY <2>2 DEF ConnectionInv
  <2> QED
    <3>1. UNCHANGED wireVars
      BY <2>2
    <3> QED
      BY <2>3, <2>4, <3>1, AsideKeeps, Zenon
<1>3. CASE PeerReads
  <2>1. wire_out' \in 0 .. WireSize
    BY <1>1, <1>3, SizesAssumption DEF PeerReads, TypeOK
  <2>2. TypeOK'
    BY <1>1, <1>3, <2>1 DEF PeerReads, TypeOK, wireVars
  <2>3. UNCHANGED wireVars /\ stage' = stage /\ reader' = reader
        /\ (manager' = "sending" => to_send' # 0)
    BY <1>3 DEF PeerReads, ConnectionInv
  <2> QED
    BY <2>2, <2>3, AsideKeeps, Zenon
<1>4. ASSUME NEW n \in 1 .. Len(unsent), Arrive(n)
      PROVE  ConnectionInv'
  <2>1. src \in Seq(Nat) /\ unsent \in Seq(Nat) /\ InStep(codec, src, unsent, expected)
    BY <1>1, <1>4 DEF Arrive, TypeOK, Aligned
  <2>2. /\ src' = src \o SubSeq(unsent, 1, n)
        /\ unsent' = SubSeq(unsent, n + 1, Len(unsent))
        /\ codec' = codec /\ expected' = expected /\ readable' = TRUE
    BY <1>4 DEF Arrive
  <2>3. src' \in Seq(Nat) /\ unsent' \in Seq(Nat) /\ InStep(codec', src', unsent', expected')
    BY <2>1, <2>2, ArrivalFits, Zenon
  <2>4. Aligned'
    BY <2>2, <2>3, Zenon DEF Aligned
  <2>5. TypeOK'
    <3>1. UNCHANGED <<stage, greeting, codec, peerVars, inVars, outVars, loopVars>>
      BY <1>4 DEF Arrive
    <3> QED
      BY <1>1, <2>2, <2>3, <3>1, SMTT(30) DEF TypeOK
  <2> QED
    BY <1>4, <2>4, <2>5 DEF ConnectionInv, Arrive
<1> QED
  BY <1>2, <1>3, <1>4

LEMMA ReaderKeeps ==
  ASSUME ConnectionInv, Reader
  PROVE  ConnectionInv'
<1> USE DEF peerVars, outVars, loopVars
<1>1. TypeOK /\ Aligned /\ manager' = manager /\ to_send' = to_send /\ Running /\ stage' = stage
  BY DEF ConnectionInv, Reader, ReaderPoll, ReaderNext, ReaderForward, ReaderEnds, DecodeFails
<1>2. CASE ReaderPoll
  <2>1. PICK result \in {"wait", "item", "error"} :
          /\ Poll(result)
          /\ result = "error" <=> reader' = "ended"
          /\ reader' \in {"reading", "sending", "ended"} /\ carried' \in Kinds
    BY <1>1, <1>2 DEF ReaderPoll, TypeOK, KindOf, Kinds
  <2>2. stage # "over" /\ reader = "reading"
    BY <1>2 DEF ReaderPoll, Running
  <2>3. /\ codec' \in CodecType /\ src' \in Seq(Nat) /\ unsent' \in Seq(Nat)
        /\ readable' \in BOOLEAN
        /\ result = "error" => ~ readable'
        /\ result # "error" =>
             /\ InStep(codec', src', unsent', expected')
             /\ ~ readable' => NothingLeft(codec', src')
    BY <2>1, <2>2, PollKeeps
  <2>4. Aligned'
    BY <2>1, <2>3, Zenon DEF Aligned
  <2>5. TypeOK'
    BY <1>1, <1>2, <2>1, <2>3 DEF ReaderPoll, TypeOK, CodecType
  <2> QED
    BY <1>1, <2>4, <2>5 DEF ConnectionInv, Running
<1>3. ASSUME UNCHANGED wireVars, reader # "ended" \/ reader' = "ended", TypeOK'
      PROVE  ConnectionInv'
  <2>1. reader = "ended" /\ ~ readable => reader' = "ended"
    BY <1>3
  <2>2. manager' = "sending" => to_send' # 0
    BY <1>1 DEF ConnectionInv
  <2>3. /\ stage = "over" => stage' = "over"
        /\ stage' \in {"handshake", "asking", "bitfield"} => reader' = "reading"
    BY <1>1 DEF Running
  <2> QED
    BY <1>3, <2>1, <2>2, <2>3, ElsewhereKeeps, Zenon
<1>4. ASSUME NEW kind \in Kinds, ReaderNext(kind)
      PROVE  ConnectionInv'
  <2>1. TypeOK'
    BY <1>1, <1>4 DEF ReaderNext, TypeOK, wireVars
  <2> QED
    BY <1>3, <1>4, <2>1 DEF ReaderNext
<1>5. CASE ReaderForward
  <2>1. incoming' \in Seq(Kinds) /\ Len(incoming') <= ChannelSize
    <3>1. incoming \in Seq(Kinds) /\ Len(incoming) <= ChannelSize /\ carried \in Kinds
      BY <1>1 DEF TypeOK
    <3>2. \/ incoming' = incoming
          \/ Len(incoming) < ChannelSize /\ incoming' = Append(incoming, carried)
      BY <1>5 DEF ReaderForward
    <3> QED
      BY <3>1, <3>2, SizesAssumption
  <2>2. TypeOK'
    BY <1>1, <1>5, <2>1 DEF ReaderForward, TypeOK, wireVars
  <2> QED
    BY <1>3, <1>5, <2>2 DEF ReaderForward
<1>6. CASE ReaderEnds
  <2>1. TypeOK'
    BY <1>1, <1>6 DEF ReaderEnds, TypeOK, wireVars
  <2> QED
    BY <1>3, <1>6, <2>1 DEF ReaderEnds
<1>7. CASE DecodeFails
  <2>1. TypeOK'
    BY <1>1, <1>7 DEF DecodeFails, TypeOK, wireVars
  <2> QED
    BY <1>3, <1>7, <2>1 DEF DecodeFails
<1> QED
  BY <1>2, <1>4, <1>5, <1>6, <1>7 DEF Reader

LEMMA WriterKeeps ==
  ASSUME ConnectionInv, Writer
  PROVE  ConnectionInv'
<1> USE DEF peerVars, inVars, loopVars
<1>1. TypeOK
  BY DEF ConnectionInv
<1>2. writer' \in {"receiving", "writing", "ended"}
      /\ outgoing' \in 0 .. ChannelSize /\ wire_out' \in 0 .. WireSize
  BY <1>1, SizesAssumption DEF Writer, WriterTakes, WriterWrites, WriterEnds, TypeOK
<1>3. UNCHANGED <<stage, wireVars, peerVars, inVars, loopVars>>
  BY DEF Writer, WriterTakes, WriterWrites, WriterEnds
<1>4. TypeOK'
  BY <1>1, <1>2, <1>3 DEF TypeOK, wireVars
<1>5. stage' = stage /\ reader' = reader /\ UNCHANGED wireVars
      /\ (manager' = "sending" => to_send' # 0)
  BY <1>3 DEF ConnectionInv
<1> QED
  BY <1>4, <1>5, AsideKeeps, Zenon

LEMMA LoopKeeps ==
  ASSUME ConnectionInv, Loop \/ DeadlinePasses
  PROVE  ConnectionInv'
<1> USE DEF peerVars, inVars, outVars, loopVars
<1>1. TypeOK /\ (manager = "sending" => to_send # 0)
  BY DEF ConnectionInv
<1>2. ASSUME NEW n \in 0 .. Burst, Sends(n)
      PROVE  /\ to_send' \in 0 .. Burst /\ manager' \in {"loop", "sending", "ended"}
             /\ manager' = "sending" => to_send' # 0
  BY <1>2 DEF Sends
<1>3. ASSUME TypeOK', UNCHANGED <<wireVars, stage, reader>>, manager' = "sending" => to_send' # 0
      PROVE  ConnectionInv'
  <2>1. UNCHANGED wireVars /\ stage' = stage /\ reader' = reader
    BY <1>3
  <2> QED
    BY <1>3, <2>1, AsideKeeps, Zenon
<1>4. ASSUME NEW n \in 0 .. Burst, NEW more \in BOOLEAN, Handle(n, more)
      PROVE  ConnectionInv'
  <2>1. to_send' \in 0 .. Burst /\ manager' \in {"loop", "sending", "ended"}
        /\ (manager' = "sending" => to_send' # 0)
    BY <1>2, <1>4 DEF Handle
  <2>2. incoming' \in Seq(Kinds) /\ Len(incoming') <= ChannelSize
    <3>1. incoming \in Seq(Kinds) /\ Len(incoming) <= ChannelSize
          /\ incoming # <<>> /\ incoming' = Tail(incoming)
      BY <1>1, <1>4 DEF Handle, TypeOK
    <3>2. incoming' \in Seq(Kinds) /\ Len(incoming') = Len(incoming) - 1 /\ Len(incoming) \in Nat
      BY <3>1, HeadTailProperties, LenProperties
    <3> QED
      BY <3>1, <3>2, SizesAssumption
  <2>3. peer_choking' \in BOOLEAN
    BY <1>1, <1>4 DEF Handle, TypeOK
  <2>4. holding' \in BOOLEAN
    BY <1>1, <1>4, <2>3 DEF Handle, TypeOK
  <2>5. deadline' \in {"none", "set", "passed"}
    BY <1>1, <1>4 DEF Handle, TypeOK, Rearm
  <2>6. UNCHANGED <<stage, wireVars, peerVars, reader, carried, outVars>>
    BY <1>4 DEF Handle
  <2>7. TypeOK'
    BY <1>1, <2>1, <2>2, <2>3, <2>4, <2>5, <2>6 DEF TypeOK, wireVars
  <2> QED
    BY <1>3, <2>1, <2>6, <2>7
<1>5. ASSUME NEW n \in 0 .. Burst, Tick(n)
      PROVE  ConnectionInv'
  <2>1. to_send' \in 0 .. Burst /\ manager' \in {"loop", "sending", "ended"}
        /\ (manager' = "sending" => to_send' # 0)
    BY <1>2, <1>5 DEF Tick
  <2>2. TypeOK'
    BY <1>1, <1>5, <2>1 DEF Tick, TypeOK, wireVars
  <2> QED
    BY <1>3, <1>5, <2>1, <2>2 DEF Tick
<1>6. ASSUME NEW n \in 0 .. Burst, Speak(n)
      PROVE  ConnectionInv'
  <2>1. to_send' \in 0 .. Burst /\ manager' \in {"loop", "sending", "ended"}
        /\ (manager' = "sending" => to_send' # 0)
    BY <1>2, <1>6 DEF Speak
  <2>2. TypeOK'
    BY <1>1, <1>6, <2>1 DEF Speak, TypeOK, wireVars
  <2> QED
    BY <1>3, <1>6, <2>1, <2>2 DEF Speak
<1>7. CASE SendMessage
  <2>1. to_send \in 1 .. Burst /\ to_send - 1 \in 0 .. Burst
    BY <1>1, <1>7, SizesAssumption DEF SendMessage, TypeOK
  <2>2. to_send' \in 0 .. Burst /\ manager' \in {"loop", "sending", "ended"}
        /\ (manager' = "sending" => to_send' # 0)
    BY <1>2, <1>7, <2>1 DEF SendMessage
  <2>3. outgoing' \in 0 .. ChannelSize
    BY <1>1, <1>7, SizesAssumption DEF SendMessage, OutgoingHasRoom, TypeOK
  <2>4. UNCHANGED <<stage, wireVars, peerVars, inVars, writer, wire_out, peer_choking,
                    holding, deadline>>
    BY <1>7 DEF SendMessage
  <2>5. TypeOK'
    BY <1>1, <2>2, <2>3, <2>4 DEF TypeOK, wireVars
  <2> QED
    BY <1>3, <2>2, <2>4, <2>5
<1>8. CASE RequestTimeout
  <2>2. holding' \in BOOLEAN /\ deadline' \in {"none", "set", "passed"}
    BY <1>1, <1>8 DEF RequestTimeout, TypeOK
  <2>3. UNCHANGED <<stage, wireVars, peerVars, inVars, outVars, manager, to_send,
                    peer_choking>>
    BY <1>8 DEF RequestTimeout
  <2>1. TypeOK'
    BY <1>1, <2>2, <2>3 DEF TypeOK, wireVars
  <2> QED
    BY <1>1, <1>3, <1>8, <2>1 DEF RequestTimeout
<1>9. CASE DeadlinePasses
  <2>2. holding' \in BOOLEAN /\ deadline' \in {"none", "set", "passed"}
    BY <1>1, <1>9 DEF DeadlinePasses, TypeOK
  <2>3. UNCHANGED <<stage, wireVars, peerVars, inVars, outVars, manager, to_send,
                    peer_choking>>
    BY <1>9 DEF DeadlinePasses
  <2>1. TypeOK'
    BY <1>1, <2>2, <2>3 DEF TypeOK, wireVars
  <2> QED
    BY <1>1, <1>3, <1>9, <2>1 DEF DeadlinePasses
<1>10. CASE LoopReturns
  <2>1. to_send' \in 0 .. Burst /\ incoming' \in Seq(Kinds) /\ Len(incoming') <= ChannelSize
    BY <1>10, SizesAssumption DEF LoopReturns
  <2>2. /\ manager' \in {"loop", "sending", "ended"} /\ manager' # "sending"
        /\ holding' \in BOOLEAN /\ deadline' \in {"none", "set", "passed"}
    BY <1>10 DEF LoopReturns
  <2>3. UNCHANGED <<stage, wireVars, peerVars, reader, carried, outVars, peer_choking>>
    BY <1>10 DEF LoopReturns
  <2>4. TypeOK'
    BY <1>1, <2>1, <2>2, <2>3 DEF TypeOK, wireVars
  <2> QED
    BY <1>3, <2>2, <2>3, <2>4
<1> QED
  BY <1>4, <1>5, <1>6, <1>7, <1>8, <1>9, <1>10
  DEF Loop, Turn, IdleTimeout, InputEnds, UnexpectedMessage, SendFails

LEMMA JoinKeeps ==
  ASSUME ConnectionInv, JoinAll
  PROVE  ConnectionInv'
<1> USE DEF peerVars, inVars, outVars, loopVars
<1>1. TypeOK'
  BY DEF ConnectionInv, JoinAll, Enter, TypeOK, wireVars
<1>2. /\ UNCHANGED wireVars /\ stage' = "over" /\ reader' = reader
      /\ manager' = "sending" => to_send' # 0
  BY DEF ConnectionInv, JoinAll, Enter
<1>3. /\ stage = "over" => stage' = "over"
      /\ stage' \in {"handshake", "asking", "bitfield"} => reader' = "reading"
      /\ reader = "ended" /\ ~ readable => reader' = "ended"
  BY <1>2
<1> QED
  BY <1>1, <1>2, <1>3, ElsewhereKeeps, Zenon

LEMMA NextKeepsConnectionInv == ConnectionInv /\ [Next]_vars => ConnectionInv'
<1> SUFFICES ASSUME ConnectionInv, [Next]_vars
             PROVE  ConnectionInv'
  OBVIOUS
<1>1. CASE Next
  BY <1>1, EarlyKeeps, PeerKeeps, ReaderKeeps, WriterKeeps, LoopKeeps, JoinKeeps DEF Next
<1>2. CASE UNCHANGED vars
  <2>1. TypeOK'
    BY <1>2 DEF ConnectionInv, TypeOK, vars, wireVars, peerVars, inVars, outVars, loopVars
  <2>2. UNCHANGED wireVars /\ stage' = stage /\ reader' = reader
        /\ (manager' = "sending" => to_send' # 0)
    BY <1>2 DEF ConnectionInv, vars, inVars, loopVars
  <2> QED
    BY <2>1, <2>2, AsideKeeps, Zenon
<1> QED
  BY <1>1, <1>2

-----------------------------------------------------------------------------
(* When everything has arrived.                                            *)

LEMMA WholeGreetingDecodes ==
  ASSUME NEW c, NEW s \in Seq(Nat), s # <<>>, s[1] \in Nat, Len(s) >= s[1] + 4,
         c.pstrlen # NoLength => c.pstrlen = s[1]
  PROVE  DecodeHandshake(c, s).result # "wait"
<1> DEFINE d == DecodeHandshake(c, s)
           len == IF c.pstrlen # NoLength THEN c.pstrlen ELSE s[1]
           seen == [c EXCEPT !.pstrlen = len]
           pstr == SubSeq(s, 2, len + 1)
           told == Handshake(pstr, s[len + 3], s[len + 3 + 1])
<1>1. d = IF Len(s) < len + 1 THEN Waits(seen, s)
          ELSE IF pstr # Protocol THEN Errors(seen, s)
          ELSE IF Len(s) < len + 3 THEN Waits(seen, s)
          ELSE IF ~ seen.info_hash_sent THEN Partial(seen, s, len + 3)
          ELSE IF Len(s) < len + 3 + 1 THEN Waits(seen, s)
          ELSE Yields(NormalCodec, Behind(s, len + 3 + 1), told)
  BY Zenon DEF DecodeHandshake
<1>2. len = s[1] /\ Len(s) \in Nat
  BY LenProperties
<1> HIDE DEF d, len, seen, pstr, told
<1>3. ~ (Len(s) < len + 1) /\ ~ (Len(s) < len + 3) /\ ~ (Len(s) < len + 3 + 1)
  BY <1>2
<1>4. \/ d = Errors(seen, s) \/ d = Partial(seen, s, len + 3)
      \/ d = Yields(NormalCodec, Behind(s, len + 3 + 1), told)
  BY <1>1, <1>3, Zenon
<1>5. d.result # "wait"
  BY <1>4 DEF Errors, Partial, Yields
<1> QED
  BY <1>5 DEF d

LEMMA AllIsTold ==
  ASSUME NEW c, NEW s \in Seq(Nat), NEW items,
         InStep(c, s, <<>>, items), NothingLeft(c, s)
  PROVE  items = <<>>
<1>1. <<>> \in Seq(Nat) /\ s \o <<>> = s /\ Len(s) \in Nat
  BY ConcatEmptySeq, LenProperties
<1>2. Then(s, <<>>) = s
  BY <1>1, Zenon DEF Then
<1>3. CASE c.normal
  <2>1. PICK script \in Scripts : \E j : Remains(script, j, s \o <<>>, items)
    BY <1>3, Zenon DEF InStep
  <2>2. PICK k : Remains(script, k, s \o <<>>, items)
    BY <2>1
  <2>3. k \in 2 .. Len(script) + 1 /\ s = UnitsFrom(script)[k] /\ items = MeansFrom(script)[k]
    BY <1>1, <2>2, Zenon DEF Remains
  <2>4. Len(script) \in Nat /\ MeansFrom(script)[Len(script) + 1] = <<>>
    BY ScriptUnfolds, Zenon
  <2> SUFFICES ASSUME k \in 2 .. Len(script)
               PROVE  FALSE
    BY <2>3, <2>4
  <2> DEFINE units == script[k].units
             next  == UnitsFrom(script)[k + 1]
  <2>5. k \in 1 .. Len(script) /\ k # 1 /\ k + 1 \in 1 .. Len(script) + 1
    BY <2>4
  <2>6. units \in Seq(Nat) /\ next \in Seq(Nat) /\ s = Then(units, next)
    BY <2>3, <2>5, ScriptUnfolds DEF Then
  <2>7. IsFrame(units)
    BY <2>5, ScriptsAssumption
  <2> HIDE DEF units, next
  <2>8. /\ Len(units) \in Nat /\ units[1] \in Nat /\ Len(units) = units[1] + 1
    BY <2>6, <2>7 DEF IsFrame
  <2>9. Len(s) = Len(units) + Len(next) /\ s[1] = units[1] /\ Len(next) \in Nat
    <3>1. 1 \in 1 .. Len(units)
      BY <2>8
    <3> QED
      BY <2>6, <3>1, ThenIs, LenProperties
  <2>10. Len(s) \in Nat /\ s[1] \in Nat /\ 1 + s[1] <= Len(s)
    BY <2>8, <2>9
  <2>11. WholeFrame(s, 0)
    <3>1. 0 + 1 = 1
      OBVIOUS
    <3>2. 0 < Len(s)
      BY <2>10
    <3> QED
      BY <2>10, <3>1, <3>2, Zenon DEF WholeFrame
  <2> QED
    BY <1>3, <2>11 DEF NothingLeft
<1>4. CASE ~ c.normal
  <2>1. PICK script \in Scripts : Greets(script, c, s, <<>>, items)
    BY <1>4 DEF InStep
  <2>2. /\ s = UnitsFrom(script)[1]
        /\ items = IF c.info_hash_sent THEN Tail(MeansFrom(script)[1]) ELSE MeansFrom(script)[1]
        /\ c.pstrlen # NoLength => s # <<>> /\ c.pstrlen = s[1]
        /\ c.info_hash_sent => s # <<>>
    BY <1>1, <2>1, Zenon DEF Greets
  <2>3. CASE s # <<>>
    <3>1. Then(s, <<>>) = UnitsFrom(script)[1]
      BY <1>2, <2>2
    <3> DEFINE units == script[1].units
               next  == UnitsFrom(script)[2]
    <3>2. /\ s[1] \in Nat /\ units \in Seq(Nat) /\ Len(units) = s[1] + 4
          /\ next \in Seq(Nat) /\ Then(units, next) = s
      BY <1>1, <1>2, <2>3, <3>1, GreetingInBuffer
    <3> HIDE DEF units, next
    <3>3. Len(s) = Len(units) + Len(next) /\ Len(next) \in Nat
      BY <3>2, ThenIs, LenProperties
    <3>4. Len(s) >= s[1] + 4
      BY <3>2, <3>3
    <3>5. DecodeHandshake(c, s).result # "wait"
      BY <2>2, <2>3, <3>2, <3>4, WholeGreetingDecodes
    <3> QED
      BY <1>4, <3>5 DEF NothingLeft
  <2>4. CASE s = <<>>
    <3>1. Len(script) \in Nat /\ MeansFrom(script)[Len(script) + 1] = <<>>
      BY ScriptUnfolds, Zenon
    <3>2. Len(script) = 0
      <4> SUFFICES ASSUME Len(script) # 0
                   PROVE  FALSE
        OBVIOUS
      <4> DEFINE units == script[1].units
                 next  == UnitsFrom(script)[2]
      <4>1. 1 \in 1 .. Len(script) /\ 2 \in 1 .. Len(script) + 1
        BY <3>1
      <4>2. units \in Seq(Nat) /\ next \in Seq(Nat) /\ s = Then(units, next)
        <5>1. units \in Seq(Nat) /\ UnitsFrom(script)[1] = units \o UnitsFrom(script)[1 + 1]
          BY <4>1, ScriptUnfolds, Zenon
        <5>2. next \in Seq(Nat)
          BY <4>1, ScriptUnfolds, Zenon
        <5>3. 1 + 1 = 2
          OBVIOUS
        <5> QED
          BY <2>2, <5>1, <5>2, <5>3, Zenon DEF Then
      <4>3. IsGreeting(units)
        BY <4>1, ScriptsAssumption
      <4> HIDE DEF units, next
      <4>4. Len(units) > 0 /\ Len(units) \in Nat
        BY <4>2, <4>3 DEF IsGreeting
      <4>5. Len(s) = Len(units) + Len(next) /\ Len(next) \in Nat
        BY <4>2, ThenIs, LenProperties
      <4> QED
        BY <2>4, <4>4, <4>5
    <3> QED
      BY <2>2, <2>4, <3>1, <3>2
  <2> QED
    BY <2>3, <2>4
<1> QED
  BY <1>3, <1>4

-----------------------------------------------------------------------------
(* What Encoder::encode writes.                                            *)

Sendable(type, fields) ==
  IF type \in {"Bitfield", "Piece"} THEN Len(fields) >= Needed(type)
  ELSE Len(fields) = Needed(type)

LEMMA IdsNameTypes ==
  ASSUME NEW i \in DOMAIN MessageTypes
  PROVE  /\ IdOf(MessageTypes[i]) \in 0 .. Len(MessageTypes) - 1
         /\ MessageTypes[IdOf(MessageTypes[i]) + 1] = MessageTypes[i]
<1> DEFINE type == MessageTypes[i]
           j == CHOOSE k \in DOMAIN MessageTypes : MessageTypes[k] = type
<1>1. j \in DOMAIN MessageTypes /\ MessageTypes[j] = type
  BY Zenon
<1>2. DOMAIN MessageTypes = 1 .. Len(MessageTypes) /\ Len(MessageTypes) = 10
  BY DEF MessageTypes
<1>3. IdOf(type) = j - 1
  BY DEF IdOf
<1> HIDE DEF j
<1>4. j \in 1 .. Len(MessageTypes) /\ (j - 1) + 1 = j
  BY <1>1, <1>2
<1> QED
  BY <1>1, <1>2, <1>3, <1>4

LEMMA OneBefore ==
  ASSUME NEW a \in Nat, NEW fields \in Seq(Nat)
  PROVE  LET units == <<a>> \o fields IN
         /\ units \in Seq(Nat) /\ Len(units) = Len(fields) + 1 /\ units[1] = a
         /\ \A i \in 1 .. Len(fields) : units[i + 1] = fields[i]
<1>1. <<a>> \in Seq(Nat) /\ Len(<<a>>) = 1 /\ <<a>>[1] = a /\ Len(fields) \in Nat
  OBVIOUS
<1> QED
  BY <1>1, ConcatProperties

LEMMA FieldsBehindPrefix ==
  ASSUME NEW a \in Nat, NEW b \in Nat, NEW fields \in Seq(Nat)
  PROVE  LET units == <<a, b>> \o fields IN
         /\ units \in Seq(Nat) /\ Len(units) = Len(fields) + 2
         /\ units[1] = a /\ units[2] = b
         /\ SubSeq(units, 3, Len(units)) = fields
<1> DEFINE units == <<a, b>> \o fields
<1>1. /\ <<a, b>> \in Seq(Nat) /\ Len(<<a, b>>) = 2 /\ Len(fields) \in Nat
      /\ <<a, b>>[1] = a /\ <<a, b>>[2] = b
  OBVIOUS
<1>2. /\ units \in Seq(Nat) /\ Len(units) = 2 + Len(fields)
      /\ \A i \in 1 .. 2 : units[i] = <<a, b>>[i]
      /\ \A i \in 1 .. Len(fields) : units[i + 2] = fields[i]
  BY <1>1, ConcatProperties
<1> DEFINE rest == SubSeq(units, 3, Len(units))
           l == Len(fields)
<1>3. units[1] = a /\ units[2] = b
  BY <1>1, <1>2
<1> HIDE DEF units
<1>4. /\ rest \in Seq(Nat) /\ Len(rest) = Len(fields)
      /\ \A i \in 1 .. Len(fields) : rest[i] = units[i + 2]
  BY <1>1, <1>2, SMTT(30)
<1>5. rest = fields
  BY <1>2, <1>4, SeqEqual
<1> QED
  BY <1>1, <1>2, <1>3, <1>5 DEF units

-----------------------------------------------------------------------------
(* The theorems.                                                           *)

(* What lies in the buffer, followed by what has yet to arrive, is always  *)
(* the rest of a script whose items are the ones still to be yielded: the  *)
(* inductive invariant, for any scripts, channel sizes and bursts.         *)
THEOREM ConnectionInvariant == Spec => []ConnectionInv
BY InitConnectionInv, NextKeepsConnectionInv, PTL DEF Spec

(* Every variable has its type; no channel outgrows its capacity.          *)
THEOREM ConnectionTypeCorrect == Spec => []TypeOK
<1>1. ConnectionInv => TypeOK
  BY DEF ConnectionInv
<1> QED
  BY <1>1, ConnectionInvariant, PTL

(* Decoder::decode yields what the peer encoded, in its order, and an error *)
(* exactly where there is one: for any frames, cut anywhere.               *)
THEOREM NothingIsMisread == Spec => []NothingMisread
<1>1. ConnectionInv => NothingMisread
  <2> SUFFICES ASSUME ConnectionInv, stage # "over", readable
               PROVE  CASE Decoded.result = "wait"  -> TRUE
                        [] Decoded.result = "item"  ->
                             expected # <<>> /\ Decoded.item = Head(expected)
                        [] Decoded.result = "error" ->
                             expected # <<>> /\ Head(expected) = Malformed
    BY DEF NothingMisread
  <2>1. InStep(codec, src, unsent, expected)
    BY DEF ConnectionInv, Aligned
  <2>2. codec \in CodecType /\ src \in Seq(Nat) /\ unsent \in Seq(Nat)
    BY DEF ConnectionInv, TypeOK, CodecType
  <2> DEFINE d == Decode(codec, src)
  <2>3. \/ d.result = "wait"
        \/ d.result = "item" /\ expected # <<>> /\ d.item = Head(expected)
        \/ d.result = "error" /\ expected # <<>> /\ Head(expected) = Malformed
    BY <2>1, <2>2, DecodedFits
  <2>4. Decoded = d
    BY DEF Decoded
  <2> HIDE DEF d
  <2> QED
    BY <2>3, <2>4
<1> QED
  BY <1>1, ConnectionInvariant, PTL

(* Once all has arrived and the decoder asks for more, all has been        *)
(* yielded: no keep-alive and no unknown frame hides what is behind it.    *)
THEOREM NothingIsHidden == Spec => []NothingHidden
<1>1. ConnectionInv => NothingHidden
  <2> SUFFICES ASSUME ConnectionInv, stage # "over", reader # "ended", unsent = <<>>,
                      ~ readable
               PROVE  expected = <<>>
    BY DEF NothingHidden
  <2>1. InStep(codec, src, <<>>, expected) /\ NothingLeft(codec, src)
    BY DEF ConnectionInv, Aligned
  <2>2. src \in Seq(Nat)
    BY DEF ConnectionInv, TypeOK
  <2> QED
    BY <2>1, <2>2, AllIsTold
<1> QED
  BY <1>1, ConnectionInvariant, PTL

(* Encoder::encode and Decoder::decode agree: what is written for a message *)
(* is one frame, a keep-alive's too, that means just that message; and what *)
(* is written for a handshake is a greeting that means it.                  *)
THEOREM EncodedIsMeant ==
  /\ IsFrame(Encode(KeepAlive)) /\ Meaning(Encode(KeepAlive)) = <<KeepAlive>>
  /\ \A i \in DOMAIN MessageTypes, fields \in Seq(Nat) :
       LET type  == MessageTypes[i]
           units == Encode(Message(type, fields))
       IN Sendable(type, fields) =>
            IsFrame(units) /\ Meaning(units) = <<Message(type, fields)>>
  /\ \A hash, id \in Nat :
       LET units == Encode(Handshake(Protocol, hash, id)) IN
       /\ IsGreeting(units)
       /\ MeaningOfGreeting(units) =
            <<HandshakePartial(hash), Handshake(Protocol, hash, id)>>
<1>1. IsFrame(Encode(KeepAlive)) /\ Meaning(Encode(KeepAlive)) = <<KeepAlive>>
  <2>1. Encode(KeepAlive) = <<0>>
    BY DEF Encode, KeepAlive, Message
  <2>2. <<0>> # <<>> /\ Len(<<0>>) = 1 /\ <<0>>[1] = 0
    OBVIOUS
  <2> QED
    BY <2>1, <2>2 DEF IsFrame, Meaning
<1>2. ASSUME NEW i \in DOMAIN MessageTypes, NEW fields \in Seq(Nat),
             Sendable(MessageTypes[i], fields)
      PROVE  LET units == Encode(Message(MessageTypes[i], fields)) IN
             IsFrame(units) /\ Meaning(units) = <<Message(MessageTypes[i], fields)>>
  <2> DEFINE type  == MessageTypes[i]
             id    == IdOf(type)
             units == Encode(Message(type, fields))
  <2>1. id \in 0 .. Len(MessageTypes) - 1 /\ MessageTypes[id + 1] = type
    BY IdsNameTypes, Zenon
  <2>2. type # "Handshake" /\ type # "KeepAlive"
    BY DEF MessageTypes
  <2>3. Len(MessageTypes) = 10 /\ Len(fields) \in Nat /\ Len(fields) + 1 \in Nat
    BY DEF MessageTypes
  <2>11. id \in 0 .. 9
    BY <2>1, <2>3
  <2>4. units = <<Len(fields) + 1, id>> \o fields
    BY <2>2 DEF Encode, Message
  <2> HIDE DEF id
  <2>5. /\ units \in Seq(Nat) /\ Len(units) = Len(fields) + 2
        /\ units[1] = Len(fields) + 1 /\ units[2] = id
        /\ SubSeq(units, 3, Len(units)) = fields
    BY <2>3, <2>4, <2>11, FieldsBehindPrefix
  <2> HIDE DEF units
  <2>6. IsFrame(units)
    BY <2>3, <2>5 DEF IsFrame
  <2>7. Meaning(units) = MeaningOfMessage(type, fields)
    <3>1. Len(units) # 1 /\ ~ (Len(units) > 1 /\ units[2] >= Len(MessageTypes))
      BY <2>3, <2>5, <2>11
    <3>2. MessageTypes[units[2] + 1] = type
      BY <2>1, <2>5
    <3> HIDE DEF type
    <3> QED
      BY <2>5, <3>1, <3>2 DEF Meaning
  <2>8. Needed(type) \in Nat
    BY DEF Needed
  <2>9. Len(fields) >= Needed(type) /\ Fields(type, fields) = fields
    <3>1. CASE type \in {"Bitfield", "Piece"}
      BY <1>2, <3>1 DEF Sendable, Fields
    <3>2. CASE type \notin {"Bitfield", "Piece"}
      <4>1. Len(fields) = Needed(type)
        BY <1>2, <3>2 DEF Sendable
      <4>2. SubSeq(fields, 1, Len(fields)) = fields
        BY <2>3
      <4> QED
        BY <2>3, <3>2, <4>1, <4>2 DEF Fields
    <3> QED
      BY <3>1, <3>2
  <2>10. MeaningOfMessage(type, fields) = <<Message(type, fields)>>
    BY <2>3, <2>8, <2>9 DEF MeaningOfMessage
  <2> QED
    BY <2>6, <2>7, <2>10 DEF units
<1>3. ASSUME NEW hash \in Nat, NEW id \in Nat
      PROVE  LET units == Encode(Handshake(Protocol, hash, id)) IN
             /\ IsGreeting(units)
             /\ MeaningOfGreeting(units) =
                  <<HandshakePartial(hash), Handshake(Protocol, hash, id)>>
  <2> DEFINE units == Encode(Handshake(Protocol, hash, id))
  <2>1. Protocol \o <<0, hash, id>> = <<19, 0, hash, id>>
    <3> DEFINE one == <<19>> \o <<0, hash, id>>
               two == <<19, 0, hash, id>>
    <3>1. <<0, hash, id>> \in Seq(Nat) /\ Len(<<0, hash, id>>) = 3
      OBVIOUS
    <3>2. /\ one \in Seq(Nat) /\ Len(one) = 3 + 1 /\ one[1] = 19
          /\ \A i \in 1 .. 3 : one[i + 1] = <<0, hash, id>>[i]
      BY <3>1, OneBefore
    <3> HIDE DEF one
    <3>3. one[2] = 0 /\ one[3] = hash /\ one[4] = id
      BY <3>2
    <3>4. two \in Seq(Nat) /\ Len(two) = 4
      OBVIOUS
    <3>5. \A i \in 1 .. 4 : one[i] = two[i]
      BY <3>2, <3>3
    <3>6. one = two
      BY <3>2, <3>4, <3>5, SeqEqual
    <3> QED
      BY <3>6, Zenon DEF one, Protocol
  <2>2. units = <<1, 19, 0, hash, id>>
    <3>1. Handshake(Protocol, hash, id) = Message("Handshake", <<19, 0, hash, id>>)
      BY <2>1 DEF Handshake
    <3> DEFINE fields == <<19, 0, hash, id>>
               one == <<1>> \o fields
               two == <<1, 19, 0, hash, id>>
    <3>2. fields \in Seq(Nat) /\ Len(fields) = 4 /\ Len(fields) - 3 = 1
      OBVIOUS
    <3>3. units = <<Len(fields) - 3>> \o fields
      BY <3>1 DEF Encode, Message
    <3>4. units = one
      BY <3>2, <3>3
    <3>5. /\ one \in Seq(Nat) /\ Len(one) = 4 + 1 /\ one[1] = 1
          /\ \A i \in 1 .. 4 : one[i + 1] = fields[i]
      BY <3>2, OneBefore
    <3> HIDE DEF one, units
    <3>6. one[2] = 19 /\ one[3] = 0 /\ one[4] = hash /\ one[5] = id
      BY <3>5
    <3>7. two \in Seq(Nat) /\ Len(two) = 5
      OBVIOUS
    <3>8. \A i \in 1 .. 5 : one[i] = two[i]
      BY <3>5, <3>6
    <3>9. one = two
      BY <3>5, <3>7, <3>8, SeqEqual
    <3> QED
      BY <3>4, <3>9
  <2> HIDE DEF units
  <2>3. IsGreeting(units)
    BY <2>2 DEF IsGreeting
  <2>4. /\ units[1] = 1 /\ units[1 + 3] = hash /\ units[1 + 4] = id
        /\ SubSeq(units, 2, 1 + 1) = Protocol
    <3>1. /\ units \in Seq(Nat) /\ Len(units) = 5
          /\ units[1] = 1 /\ units[2] = 19 /\ units[4] = hash /\ units[5] = id
      BY <2>2
    <3>2. SubSeq(units, 2, 2) = <<19>>
      <4> DEFINE part == SubSeq(units, 2, 2)
      <4>1. part \in Seq(Nat) /\ Len(part) = 1 /\ part[1] = 19
        BY <3>1, SubSeqProperties
      <4>2. <<19>> \in Seq(Nat) /\ Len(<<19>>) = 1 /\ <<19>>[1] = 19
        OBVIOUS
      <4> HIDE DEF part
      <4>3. \A i \in 1 .. 1 : part[i] = <<19>>[i]
        BY <4>1, <4>2
      <4>4. part = <<19>>
        BY <4>1, <4>2, <4>3, SeqEqual
      <4> QED
        BY <4>4 DEF part
    <3> QED
      BY <3>1, <3>2 DEF Protocol
  <2>5. MeaningOfGreeting(units) =
          <<HandshakePartial(hash), Handshake(Protocol, hash, id)>>
    BY <2>4 DEF MeaningOfGreeting
  <2> QED
    BY <2>3, <2>5 DEF units
<1> QED
  BY <1>1, <1>2, <1>3
=============================================================================
