------------------------------- MODULE Flattening -------------------------------
(***************************************************************************)
(* Lemmas about least indexes and about FlattenSeq, for the modules whose  *)
(* reference is a sequence of sequences.                                   *)
(***************************************************************************)
EXTENDS Integers, Sequences, SequencesExt, SequenceTheorems, WellFoundedInduction, TLAPS

(* A set of indexes has a least one, which the choice of Min gives.        *)
LEMMA LeastExists ==
  ASSUME NEW I \in SUBSET Nat, I # {}
  PROVE  Min(I) \in I /\ \A j \in I : Min(I) <= j
<1> DEFINE R == OpToRel(<, Nat)
<1>1. IsWellFoundedOn(R, Nat)
  BY NatLessThanWellFounded
<1>2. \A x, y \in Nat : x < y => <<x, y>> \in R
  BY DEF OpToRel
<1>. HIDE DEF R
<1>3. PICK m \in I : \A j \in I : ~(<<j, m>> \in R)
  BY <1>1, WFMin
<1>4. ASSUME NEW j \in I PROVE m <= j
  <2>1. j \in Nat /\ m \in Nat
    OBVIOUS
  <2>2. ~(<<j, m>> \in R)
    BY <1>3
  <2>3. ~(j < m)
    BY <1>2, <2>1, <2>2, Zenon
  <2>. QED
    BY <2>1, <2>3
<1>. QED
  BY <1>4 DEF Min

(* The sequences FlattenSeq has flattened up to each of them.              *)
FlattenUpTo(ss, f) == [i \in 1 .. Len(ss) |-> IF i = 1 THEN ss[i] ELSE f[i - 1] \o ss[i]]
Flattened(ss) == CHOOSE f : f = FlattenUpTo(ss, f)
Before(ss, n) == IF n = 0 THEN <<>> ELSE Flattened(ss)[n]

(* Such sequences exist, whatever is flattened.                            *)
LEMMA FlattenExists ==
  ASSUME NEW ss, Len(ss) \in Nat
  PROVE  \E f : f = FlattenUpTo(ss, f)
  <1> DEFINE UpTo(n, f) == f = [i \in 1 .. n |-> IF i = 1 THEN ss[i] ELSE f[i - 1] \o ss[i]]
             I == {n \in Nat : ~\E f : UpTo(n, f)}
             m == Min(I)
  <1>1. I = {}
    <2>1. SUFFICES ASSUME I # {} PROVE FALSE
      OBVIOUS
    <2>2. m \in I /\ m \in Nat /\ \A n \in I : m <= n
      BY <2>1, LeastExists
    <2> HIDE DEF m
    <2>3. CASE m = 0
      <3>1. UpTo(0, [i \in 1 .. 0 |-> <<>>])
        OBVIOUS
      <3> QED
        BY <2>2, <2>3, <3>1
    <2>4. CASE m # 0
      <3>1. m - 1 \in Nat /\ m - 1 \notin I
        <4> HIDE DEF I
        <4> QED
          BY <2>2, <2>4
      <3>2. PICK f : UpTo(m - 1, f)
        BY <3>1
      <3> DEFINE g == [i \in 1 .. m |-> IF i = 1 THEN ss[i] ELSE f[i - 1] \o ss[i]]
      <3>3. ASSUME NEW i \in 1 .. m, i # 1 PROVE g[i - 1] = f[i - 1]
        <4>1. i - 1 \in 1 .. m /\ i - 1 \in 1 .. m - 1
          BY <2>2, <3>3
        <4> QED
          BY <3>2, <4>1
      <3>4. UpTo(m, g)
        BY <3>3
      <3> HIDE DEF g
      <3> QED
        BY <2>2, <3>4
    <2> QED
      BY <2>3, <2>4
  <1>2. \E f : UpTo(Len(ss), f)
    BY <1>1
  <1> QED
    BY <1>2 DEF FlattenUpTo

(* The recursion of what is flattened up to a place.                       *)
LEMMA FlattenedIs ==
  ASSUME NEW ss, Len(ss) \in Nat
  PROVE  /\ Flattened(ss) = FlattenUpTo(ss, Flattened(ss))
         /\ Len(ss) # 0 => FlattenSeq(ss) = Flattened(ss)[Len(ss)]
  <1>1. Flattened(ss) = FlattenUpTo(ss, Flattened(ss))
    BY FlattenExists DEF Flattened
  <1>2. Len(ss) # 0 => FlattenSeq(ss) = Flattened(ss)[Len(ss)]
    BY DEF FlattenSeq, Flattened, FlattenUpTo
  <1> QED
    BY <1>1, <1>2

(* Nothing in front of a sequence changes nothing.                         *)
LEMMA EmptyBegins == ASSUME NEW S, NEW s \in Seq(S) PROVE <<>> \o s = s
  OBVIOUS

(* One sequence more.                                                      *)
LEMMA BeforeNext ==
  ASSUME NEW S, NEW ss \in Seq(Seq(S)), NEW n \in 1 .. Len(ss), Before(ss, n - 1) \in Seq(S)
  PROVE  Before(ss, n) = Before(ss, n - 1) \o ss[n]
  <1>1. Len(ss) \in Nat /\ ss[n] \in Seq(S)
    OBVIOUS
  <1>2. Flattened(ss) = FlattenUpTo(ss, Flattened(ss))
    BY <1>1, FlattenedIs
  <1>3. Flattened(ss)[n] = IF n = 1 THEN ss[n] ELSE Flattened(ss)[n - 1] \o ss[n]
    BY <1>2 DEF FlattenUpTo
  <1>4. CASE n = 1
    <2>1. Before(ss, n) = ss[n] /\ Before(ss, n - 1) = <<>>
      BY <1>3, <1>4 DEF Before
    <2>2. <<>> \o ss[n] = ss[n]
      BY <1>1, EmptyBegins
    <2> QED
      BY <1>1, <2>1, <2>2
  <1>5. CASE n # 1
    <2>1. n # 0 /\ n - 1 # 0
      BY <1>5
    <2>2. Before(ss, n) = Before(ss, n - 1) \o ss[n]
      BY <1>3, <1>5, <2>1 DEF Before
    <2> QED
      BY <1>1, <2>2
  <1> QED
    BY <1>4, <1>5

(* What is flattened is a sequence of the same elements.                   *)
LEMMA BeforeTyped ==
  ASSUME NEW S, NEW ss \in Seq(Seq(S)), NEW n \in 0 .. Len(ss)
  PROVE  Before(ss, n) \in Seq(S)
  <1> DEFINE I == {k \in Nat : k <= Len(ss) /\ Before(ss, k) \notin Seq(S)}
             m == Min(I)
  <1>1. SUFFICES I = {}
    OBVIOUS
  <1>2. SUFFICES ASSUME I # {} PROVE FALSE
    OBVIOUS
  <1>3. m \in I /\ m \in Nat /\ \A k \in I : m <= k
    BY <1>2, LeastExists
  <1> HIDE DEF m
  <1>4. m # 0
    <2>1. Before(ss, 0) \in Seq(S)
      BY DEF Before
    <2> QED
      BY <1>3, <2>1
  <1>5. m - 1 \in Nat /\ m - 1 \notin I /\ m \in 1 .. Len(ss)
    BY <1>3, <1>4
  <1>6. Before(ss, m - 1) \in Seq(S)
    BY <1>3, <1>5
  <1>7. Before(ss, m) = Before(ss, m - 1) \o ss[m]
    BY <1>5, <1>6, BeforeNext
  <1>8. ss[m] \in Seq(S)
    BY <1>5
  <1>9. Before(ss, m) \in Seq(S)
    BY <1>6, <1>7, <1>8
  <1> QED
    BY <1>3, <1>9

(* What is flattened up to a place, from what is flattened before it.       *)
LEMMA BeforeIs ==
  ASSUME NEW S, NEW ss \in Seq(Seq(S)), NEW n \in 0 .. Len(ss)
  PROVE  /\ Before(ss, n) \in Seq(S)
         /\ n # 0 => Before(ss, n) = Before(ss, n - 1) \o ss[n]
  <1>1. CASE n = 0
    BY <1>1, BeforeTyped
  <1>2. CASE n # 0
    <2>1. n \in 1 .. Len(ss) /\ n - 1 \in 0 .. Len(ss)
      BY <1>2
    <2>2. Before(ss, n - 1) \in Seq(S)
      BY <2>1, BeforeTyped
    <2>3. Before(ss, n) = Before(ss, n - 1) \o ss[n]
      BY <2>1, <2>2, BeforeNext
    <2> QED
      BY <1>2, <2>3, BeforeTyped
  <1> QED
    BY <1>1, <1>2

(* FlattenSeq is what is flattened up to the last place.                   *)
LEMMA FlattenIs ==
  ASSUME NEW S, NEW ss \in Seq(Seq(S))
  PROVE  FlattenSeq(ss) = Before(ss, Len(ss)) /\ FlattenSeq(ss) \in Seq(S)
  <1>1. Len(ss) \in Nat /\ Len(ss) \in 0 .. Len(ss)
    OBVIOUS
  <1>2. CASE Len(ss) = 0
    <2>1. ss = <<>>
      BY <1>2
    <2>2. FlattenSeq(ss) = ss
      BY <1>2 DEF FlattenSeq
    <2>3. Before(ss, Len(ss)) = <<>> /\ <<>> \in Seq(S)
      BY <1>2 DEF Before
    <2> QED
      BY <2>1, <2>2, <2>3
  <1>3. CASE Len(ss) # 0
    <2>1. FlattenSeq(ss) = Before(ss, Len(ss))
      BY <1>1, <1>3, FlattenedIs DEF Before
    <2> QED
      BY <1>1, <2>1, BeforeTyped
  <1> QED
    BY <1>2, <1>3

(* Where an element of one sequence is in the flattened one.               *)
LEMMA BeforePlace ==
  ASSUME NEW S, NEW ss \in Seq(Seq(S)), NEW i \in 1 .. Len(ss), NEW k \in 1 .. Len(ss[i]),
         NEW n \in i .. Len(ss)
  PROVE  /\ Len(Before(ss, i - 1)) + k \in 1 .. Len(Before(ss, n))
         /\ Before(ss, n)[Len(Before(ss, i - 1)) + k] = ss[i][k]
  <1> DEFINE at == Len(Before(ss, i - 1)) + k
             Right(j) == at \in 1 .. Len(Before(ss, j)) /\ Before(ss, j)[at] = ss[i][k]
             I == {j \in Nat : i <= j /\ j <= Len(ss) /\ ~Right(j)}
             m == Min(I)
  <1>0. i - 1 \in 0 .. Len(ss) /\ i \in 0 .. Len(ss) /\ i # 0 /\ ss[i] \in Seq(S) /\ i \in Nat
    OBVIOUS
  <1>1. Before(ss, i - 1) \in Seq(S) /\ at \in Nat /\ at > 0
    BY <1>0, BeforeTyped
  <1>2. SUFFICES ASSUME I # {} PROVE FALSE
    <2>1. n \in Nat /\ i <= n /\ n <= Len(ss)
      OBVIOUS
    <2>2. n \in I \/ Right(n)
      BY <2>1
    <2> QED
      BY <2>2
  <1>3. m \in I /\ m \in Nat /\ \A j \in I : m <= j
    BY <1>2, LeastExists
  <1> HIDE DEF m
  <1>4. m # i
    <2>1. Before(ss, i) = Before(ss, i - 1) \o ss[i]
      BY <1>0, BeforeIs
    <2> DEFINE b == Before(ss, i - 1)
               c == ss[i]
    <2>2. b \in Seq(S) /\ c \in Seq(S) /\ k \in 1 .. Len(c) /\ at = Len(b) + k
      BY <1>0, <1>1
    <2> HIDE DEF b, c, at
    <2>3. at \in 1 .. Len(b \o c) /\ (b \o c)[at] = c[k]
      BY <2>2
    <2>4. Right(i)
      BY <2>1, <2>3 DEF b, c
    <2> QED
      BY <1>3, <2>4
  <1>5. m - 1 \in Nat /\ m - 1 \notin I /\ i <= m - 1 /\ m - 1 <= Len(ss)
        /\ m \in 0 .. Len(ss) /\ m # 0 /\ m - 1 \in 0 .. Len(ss) /\ m \in 1 .. Len(ss)
    <2>1. i <= m /\ m <= Len(ss) /\ Len(ss) \in Nat
      BY <1>3
    <2> HIDE DEF I
    <2>2. m - 1 \in Nat /\ m - 1 \notin I
      BY <1>0, <1>3, <1>4, <2>1
    <2> QED
      BY <1>0, <1>3, <1>4, <2>1, <2>2
  <1>6. Right(m - 1)
    BY <1>5
  <1>7. Before(ss, m) = Before(ss, m - 1) \o ss[m] /\ Before(ss, m - 1) \in Seq(S)
        /\ ss[m] \in Seq(S)
    <2>1. Before(ss, m - 1) \in Seq(S)
      BY <1>5, BeforeTyped
    <2>2. ss[m] \in Seq(S)
      BY <1>5
    <2>3. Before(ss, m) = Before(ss, m - 1) \o ss[m]
      BY <1>5, <2>1, BeforeNext
    <2> QED
      BY <2>1, <2>2, <2>3
  <1>8. Right(m)
    <2> DEFINE b == Before(ss, m - 1)
               c == ss[m]
    <2>1. b \in Seq(S) /\ c \in Seq(S) /\ at \in 1 .. Len(b) /\ b[at] = ss[i][k]
      BY <1>6, <1>7
    <2> HIDE DEF b, c, at
    <2>2. at \in 1 .. Len(b \o c) /\ (b \o c)[at] = b[at]
      BY <2>1
    <2> QED
      BY <1>7, <2>1, <2>2 DEF b, c
  <1> QED
    BY <1>3, <1>8

(* Empty sequences add nothing.                                            *)
LEMMA BeforeStays ==
  ASSUME NEW S, NEW ss \in Seq(Seq(S)), NEW i \in 0 .. Len(ss),
         \A j \in i + 1 .. Len(ss) : ss[j] = <<>>
  PROVE  Before(ss, Len(ss)) = Before(ss, i)
  <1> DEFINE I == {j \in Nat : i <= j /\ j <= Len(ss) /\ Before(ss, j) # Before(ss, i)}
             m == Min(I)
  <1>1. SUFFICES ASSUME I # {} PROVE FALSE
    OBVIOUS
  <1>2. m \in I /\ m \in Nat /\ \A j \in I : m <= j
    BY <1>1, LeastExists
  <1> HIDE DEF m
  <1>3. m # i
    BY <1>2
  <1>4. m - 1 \in Nat /\ m - 1 \notin I /\ i <= m - 1 /\ m - 1 <= Len(ss)
        /\ m \in 0 .. Len(ss) /\ m # 0 /\ m - 1 \in 0 .. Len(ss) /\ m \in i + 1 .. Len(ss)
    BY <1>2, <1>3
  <1>5. Before(ss, m - 1) = Before(ss, i) /\ ss[m] = <<>>
    BY <1>4
  <1>6. Before(ss, m) = Before(ss, m - 1) \o ss[m] /\ Before(ss, m - 1) \in Seq(S)
    BY <1>4, BeforeIs
  <1>7. Before(ss, m) = Before(ss, i)
    BY <1>5, <1>6
  <1> QED
    BY <1>2, <1>7

(* What is flattened up to a place is of the sequences up to it only.      *)
LEMMA BeforeAgrees ==
  ASSUME NEW S, NEW ss \in Seq(Seq(S)), NEW tt \in Seq(Seq(S)), NEW n \in Nat,
         n <= Len(ss), n <= Len(tt), \A i \in 1 .. n : ss[i] = tt[i]
  PROVE  Before(ss, n) = Before(tt, n)
  <1> DEFINE I == {j \in Nat : j <= n /\ Before(ss, j) # Before(tt, j)}
             m == Min(I)
  <1>1. SUFFICES ASSUME I # {} PROVE FALSE
    OBVIOUS
  <1>2. m \in I /\ m \in Nat /\ \A j \in I : m <= j
    BY <1>1, LeastExists
  <1> HIDE DEF m
  <1>3. m # 0
    BY <1>2 DEF Before
  <1>4. m - 1 \in Nat /\ m - 1 \notin I /\ m - 1 <= n /\ m \in 1 .. n
        /\ m \in 1 .. Len(ss) /\ m \in 1 .. Len(tt)
        /\ m \in 0 .. Len(ss) /\ m \in 0 .. Len(tt)
    BY <1>2, <1>3
  <1>5. Before(ss, m - 1) = Before(tt, m - 1) /\ ss[m] = tt[m]
    BY <1>4
  <1>6. Before(ss, m) = Before(ss, m - 1) \o ss[m]
    BY <1>3, <1>4, BeforeIs
  <1>7. Before(tt, m) = Before(tt, m - 1) \o tt[m]
    BY <1>3, <1>4, BeforeIs
  <1> QED
    BY <1>2, <1>5, <1>6, <1>7

(* Nothing behind a sequence changes nothing.                              *)
LEMMA EmptyEnds == ASSUME NEW S, NEW s \in Seq(S) PROVE s \o <<>> = s
  OBVIOUS

(* Sequences may be put together in any order.                             *)
LEMMA Associates ==
  ASSUME NEW S, NEW a \in Seq(S), NEW b \in Seq(S), NEW c \in Seq(S)
  PROVE  (a \o b) \o c = a \o (b \o c)
  OBVIOUS

(* An element more is a sequence of one element behind.                    *)
LEMMA AppendIs ==
  ASSUME NEW S, NEW a \in Seq(S), NEW x \in S
  PROVE  Append(a, x) = a \o <<x>>
  OBVIOUS
================================================================================
