--------------------------- MODULE DataStream_proofs ---------------------------
(***************************************************************************)
(* What reads of the data give, for any number of threads and entries, any *)
(* arrays of extents and sizes they cover, and any geometry of the volume. *)
(* First the arithmetic the code rests on: the segments of a stream lie    *)
(* one behind the other, so an offset is in exactly one of them, and the   *)
(* address of a block is the place on the disk that holds it.  Then the    *)
(* interleavings: what lets the position a thread has set still be the one *)
(* it reads from.                                                          *)
(***************************************************************************)
EXTENDS DataStream, WellFoundedInduction, TLAPS

------------------------------------------------------------------------------
(* Numbers and sequences                                                   *)

(* A set of numbers that is not empty has a least one.                     *)
LEMMA LeastNumber ==
  ASSUME NEW I \in SUBSET Nat, I # {}
  PROVE  \E m \in I : \A j \in I : m <= j
<1> DEFINE R == OpToRel(<, Nat)
<1>1. IsWellFoundedOn(R, Nat)
  BY NatLessThanWellFounded
<1>2. \A x, y \in Nat : x < y => <<x, y>> \in R
  BY DEF OpToRel
<1>. HIDE DEF R
<1>3. PICK m \in I : \A j \in I : ~(<<j, m>> \in R)
  BY <1>1, WFMin
<1>4. ASSUME NEW j \in I PROVE m <= j
  <2>1. j \in Nat /\ m \in Nat
    OBVIOUS
  <2>2. ~(<<j, m>> \in R)
    BY <1>3
  <2>3. ~(j < m)
    BY <1>2, <2>1, <2>2, Zenon
  <2>. QED
    BY <2>1, <2>3
<1>. QED
  BY <1>4

(* A product grows by its factor.                                          *)
LEMMA ProductGrows ==
  ASSUME NEW a \in Nat, NEW b \in Nat, NEW m \in Nat, a < b
  PROVE  a * m + m <= b * m
<1>1. b = a + 1 + (b - a - 1) /\ b - a - 1 \in Nat
  OBVIOUS
<1> DEFINE c == b - a - 1
<1>2. b * m = a * m + m + c * m /\ c * m \in Nat /\ a * m \in Nat
  BY <1>1
<1>. QED
  BY <1>2

(* What a quotient and a remainder are put together from.                  *)
LEMMA Quotient ==
  ASSUME NEW p \in Nat, NEW m \in Nat \ {0}
  PROVE  /\ p \div m \in Nat
         /\ p % m \in 0 .. m - 1
         /\ p = (p \div m) * m + (p % m)
  OBVIOUS

LEMMA QuotientOf ==
  ASSUME NEW q \in Nat, NEW m \in Nat \ {0}, NEW r \in 0 .. m - 1
  PROVE  (q * m + r) \div m = q /\ (q * m + r) % m = r
<1> DEFINE p == q * m + r
           d == p \div m
           s == p % m
<1>1. q * m \in Nat /\ p \in Nat
  OBVIOUS
<1>2. d \in Nat /\ s \in 0 .. m - 1 /\ p = d * m + s
  BY <1>1, Quotient
<1>. HIDE DEF d, s
<1>3. d * m \in Nat
  BY <1>2
<1>4. d < q => d * m + m <= q * m
  BY <1>2, ProductGrows
<1>5. q < d => q * m + m <= d * m
  BY <1>2, ProductGrows
<1>6. ~(d < q)
  BY <1>1, <1>2, <1>3, <1>4
<1>7. ~(q < d)
  BY <1>1, <1>2, <1>3, <1>5
<1>8. d = q
  BY <1>2, <1>6, <1>7
<1>9. s = r
  BY <1>1, <1>2, <1>8
<1>. QED
  BY <1>8, <1>9 DEF d, s

------------------------------------------------------------------------------
(* Segments                                                                *)

Starts(e, n, f) ==
  f = [k \in 1 .. n |-> IF k = 1 THEN 0 ELSE f[k - 1] + ExtentsOf[e][k - 1].blocks]

(* A partial sum of the lengths of the segments exists for every number of *)
(* them: the first that had none could be made from the one before.        *)
LEMMA StartsExist ==
  ASSUME NEW e \in Entries, NEW n \in 1 .. Len(ExtentsOf[e]) + 1
  PROVE  \E f : Starts(e, n, f)
<1> DEFINE I == {k \in 1 .. Len(ExtentsOf[e]) + 1 : ~\E f : Starts(e, k, f)}
<1>1. SUFFICES ASSUME I # {} PROVE FALSE
  OBVIOUS
<1>2. Len(ExtentsOf[e]) \in Nat /\ I \in SUBSET Nat
  BY DataStreamAssumption
<1>3. PICK m \in I : \A j \in I : m <= j
  BY <1>1, <1>2, LeastNumber
<1>4. CASE m = 1
  <2> DEFINE f == [k \in 1 .. 1 |-> 0]
  <2>1. Starts(e, 1, f)
    BY DEF Starts
  <2>. QED
    BY <1>4, <2>1
<1>5. CASE m # 1
  <2>1. m - 1 \in 1 .. Len(ExtentsOf[e]) + 1 /\ m - 1 \notin I /\ m \in Nat /\ m > 1
    BY <1>2, <1>3, <1>5
  <2>2. PICK f : Starts(e, m - 1, f)
    BY <2>1
  <2> DEFINE g == [k \in 1 .. m |-> IF k < m THEN f[k]
                                    ELSE f[m - 1] + ExtentsOf[e][m - 1].blocks]
  <2>3. ASSUME NEW k \in 1 .. m
        PROVE  g[k] = IF k = 1 THEN 0 ELSE g[k - 1] + ExtentsOf[e][k - 1].blocks
    <3>1. CASE k = m
      BY <2>1, <3>1
    <3>2. CASE k # m
      <4>1. k \in 1 .. m - 1 /\ (k # 1 => k - 1 \in 1 .. m - 1)
        BY <2>1, <3>2
      <4>2. f[k] = IF k = 1 THEN 0 ELSE f[k - 1] + ExtentsOf[e][k - 1].blocks
        BY <2>2, <4>1 DEF Starts
      <4>3. g[k] = f[k] /\ (k # 1 => g[k - 1] = f[k - 1])
        BY <2>1, <4>1
      <4>. QED
        BY <4>2, <4>3
    <3>. QED
      BY <3>1, <3>2
  <2>4. Starts(e, m, g)
    BY <2>3 DEF Starts
  <2>. QED
    BY <2>4
<1>. QED
  BY <1>4, <1>5

(* So the recursion defines it.                                            *)
LEMMA SegmentStartIs ==
  ASSUME NEW e \in Entries
  PROVE  /\ SegmentStart(e, 1) = 0
         /\ \A i \in 1 .. Len(ExtentsOf[e]) :
              SegmentStart(e, i + 1) = SegmentStart(e, i) + ExtentsOf[e][i].blocks
<1> DEFINE n == Len(ExtentsOf[e]) + 1
           start == CHOOSE f : Starts(e, n, f)
<1>1. n \in 1 .. Len(ExtentsOf[e]) + 1 /\ Len(ExtentsOf[e]) \in Nat
  BY DataStreamAssumption
<1>2. Starts(e, n, start)
  BY <1>1, StartsExist
<1>3. \A i : SegmentStart(e, i) = start[i]
  BY DEF SegmentStart, Starts
<1>. HIDE DEF start
<1>4. start[1] = 0
  BY <1>1, <1>2 DEF Starts
<1>5. ASSUME NEW i \in 1 .. Len(ExtentsOf[e])
      PROVE  start[i + 1] = start[i] + ExtentsOf[e][i].blocks
  <2>1. i + 1 \in 1 .. n /\ i + 1 # 1 /\ (i + 1) - 1 = i
    BY <1>1
  <2>. QED
    BY <1>2, <2>1 DEF Starts
<1>. QED
  BY <1>3, <1>4, <1>5

LEMMA ExtentFacts ==
  ASSUME NEW e \in Entries
  PROVE  /\ Len(ExtentsOf[e]) \in Nat
         /\ \A i \in 1 .. Len(ExtentsOf[e]) :
              /\ ExtentsOf[e][i].blocks \in Nat \ {0}
              /\ ExtentsOf[e][i].physical \in Nat
<1>1. ExtentsOf[e] \in Seq(Extent)
  BY DataStreamAssumption
<1>2. \A i \in 1 .. Len(ExtentsOf[e]) : ExtentsOf[e][i] \in Extent
  BY <1>1
<1>3. \A x \in Extent : x.blocks \in Nat \ {0} /\ x.physical \in Nat
  BY DEF Extent
<1>. QED
  BY <1>1, <1>2, <1>3

LEMMA SegmentStartType ==
  ASSUME NEW e \in Entries
  PROVE  \A i \in 1 .. Len(ExtentsOf[e]) + 1 : SegmentStart(e, i) \in Nat
<1> DEFINE n == Len(ExtentsOf[e])
           I == {k \in 1 .. n + 1 : SegmentStart(e, k) \notin Nat}
<1>1. SUFFICES ASSUME I # {} PROVE FALSE
  OBVIOUS
<1>2. n \in Nat /\ I \in SUBSET Nat
  BY ExtentFacts
<1>3. PICK m \in I : \A j \in I : m <= j
  BY <1>1, <1>2, LeastNumber
<1>4. m # 1
  BY SegmentStartIs
<1>5. m - 1 \in 1 .. n /\ m - 1 \notin I
  BY <1>2, <1>3, <1>4
<1>6. SegmentStart(e, m - 1) \in Nat
  BY <1>2, <1>5
<1>7. SegmentStart(e, (m - 1) + 1) \in Nat
  <2>1. ExtentsOf[e][m - 1].blocks \in Nat
    BY <1>5, ExtentFacts
  <2>2. SegmentStart(e, (m - 1) + 1) = SegmentStart(e, m - 1) + ExtentsOf[e][m - 1].blocks
    BY <1>5, SegmentStartIs
  <2>. QED
    BY <1>6, <2>1, <2>2
<1>8. (m - 1) + 1 = m
  BY <1>2
<1>. QED
  BY <1>7, <1>8

SegmentEnd(e, i) == SegmentStart(e, i) + ExtentsOf[e][i].blocks

(* The offset is in segment i.                                             *)
Within(e, i, o) == SegmentStart(e, i) <= o /\ o < SegmentEnd(e, i)

(* A segment begins where, or behind where, an earlier one ends.           *)
LEMMA SegmentsInOrder ==
  ASSUME NEW e \in Entries, NEW i \in 1 .. Len(ExtentsOf[e]),
         NEW j \in 1 .. Len(ExtentsOf[e]), i < j
  PROVE  SegmentEnd(e, i) <= SegmentStart(e, j)
<1> DEFINE n == Len(ExtentsOf[e])
           I == {k \in i + 1 .. n : ~(SegmentEnd(e, i) <= SegmentStart(e, k))}
<1>1. SUFFICES ASSUME I # {} PROVE FALSE
  BY ExtentFacts
<1>2. n \in Nat /\ I \in SUBSET Nat
  BY ExtentFacts
<1>3. PICK m \in I : \A k \in I : m <= k
  BY <1>1, <1>2, LeastNumber
<1>4. m - 1 \in 1 .. n /\ (m - 1) + 1 = m /\ i \in Nat
  BY <1>2
<1>5. SegmentStart(e, m) = SegmentStart(e, m - 1) + ExtentsOf[e][m - 1].blocks
  BY <1>4, SegmentStartIs
<1>6. SegmentStart(e, m - 1) \in Nat /\ SegmentStart(e, m) \in Nat
  BY <1>2, <1>4, SegmentStartType
<1>7. ExtentsOf[e][m - 1].blocks \in Nat
  BY <1>4, ExtentFacts
<1>8. CASE m - 1 = i
  BY <1>5, <1>6, <1>7, <1>8 DEF SegmentEnd
<1>9. CASE m - 1 # i
  <2>1. m - 1 \in i + 1 .. n /\ m - 1 \notin I
    BY <1>2, <1>3, <1>4, <1>9
  <2>2. SegmentEnd(e, i) <= SegmentStart(e, m - 1)
    BY <2>1
  <2>3. SegmentEnd(e, i) \in Nat
    <3>1. SegmentStart(e, i) \in Nat
      BY <1>2, SegmentStartType
    <3>. QED
      BY <3>1, ExtentFacts DEF SegmentEnd
  <2>. QED
    BY <1>5, <1>6, <1>7, <2>2, <2>3
<1>. QED
  BY <1>8, <1>9

(* An offset is in one segment only, which is the one that is looked for.  *)
LEMMA SegmentIsOne ==
  ASSUME NEW e \in Entries, NEW o \in Nat,
         NEW i \in 1 .. Len(ExtentsOf[e]), Within(e, i, o)
  PROVE  SegmentAt(e, o) = i
<1>1. ASSUME NEW j \in 1 .. Len(ExtentsOf[e]), Within(e, j, o)
      PROVE  i = j
  <2>1. /\ SegmentStart(e, i) \in Nat /\ SegmentEnd(e, i) \in Nat
        /\ SegmentStart(e, j) \in Nat /\ SegmentEnd(e, j) \in Nat
    BY ExtentFacts, SegmentStartType DEF SegmentEnd
  <2>2. ~(i < j)
    BY <1>1, <2>1, SegmentsInOrder DEF Within
  <2>3. ~(j < i)
    BY <1>1, <2>1, SegmentsInOrder DEF Within
  <2>. QED
    BY <2>2, <2>3, ExtentFacts
<1>. QED
  BY <1>1 DEF SegmentAt, Within, SegmentEnd

(* An offset below the end of the last segment is in a segment.            *)
LEMMA SegmentExists ==
  ASSUME NEW e \in Entries, NEW o \in Nat,
         o < SegmentStart(e, Len(ExtentsOf[e]) + 1)
  PROVE  /\ SegmentAt(e, o) \in 1 .. Len(ExtentsOf[e])
         /\ Within(e, SegmentAt(e, o), o)
<1> DEFINE n == Len(ExtentsOf[e])
           I == {k \in 1 .. n + 1 : o < SegmentStart(e, k)}
<1>1. n \in Nat /\ n + 1 \in 1 .. n + 1 /\ I \in SUBSET Nat
  BY ExtentFacts
<1>2. PICK m \in I : \A k \in I : m <= k
  BY <1>1, LeastNumber
<1>3. m # 1
  BY SegmentStartIs
<1>4. m - 1 \in 1 .. n /\ m - 1 \notin I /\ (m - 1) + 1 = m
  BY <1>1, <1>2, <1>3
<1>5. SegmentStart(e, m - 1) \in Nat
  BY <1>1, <1>4, SegmentStartType
<1>6. SegmentStart(e, m - 1) <= o
  BY <1>1, <1>4, <1>5
<1>7. SegmentStart(e, m) = SegmentEnd(e, m - 1)
  BY <1>4, SegmentStartIs DEF SegmentEnd
<1>8. Within(e, m - 1, o)
  BY <1>6, <1>7 DEF Within
<1>. QED
  BY <1>4, <1>8, SegmentIsOne

------------------------------------------------------------------------------
(* Blocks on the disk                                                      *)

(* The address of a block of an extent holds that block.                   *)
LEMMA DiskHolds ==
  ASSUME NEW e \in Entries, NEW i \in 1 .. Len(ExtentsOf[e]), ~ExtentsOf[e][i].sparse,
         NEW k \in 0 .. ExtentsOf[e][i].blocks - 1
  PROVE  Disk(Address(ExtentsOf[e][i].physical) + k) = ExtentsOf[e][i].physical + k
<1> DEFINE p == ExtentsOf[e][i].physical
           b == ExtentsOf[e][i].blocks
           q == p \div Relative
           r == p % Relative
<1>1. p \in Nat /\ b \in Nat
  BY ExtentFacts
<1>2. Relative \in Nat \ {0} /\ GroupBlocks \in Nat \ {0} /\ GroupBlocks <= Relative
  BY DataStreamAssumption
<1>3. q \in Nat /\ r \in 0 .. Relative - 1 /\ p = q * Relative + r
  BY <1>1, <1>2, Quotient
<1>4. r + b <= GroupBlocks
  BY UndamagedAssumption
<1>. HIDE DEF p, b, q, r
<1>5. r + k \in 0 .. GroupBlocks - 1 /\ k \in Nat
  BY <1>1, <1>2, <1>3, <1>4 DEF b
<1>6. Address(p) + k = q * GroupBlocks + (r + k)
  <2>1. q * GroupBlocks \in Nat
    BY <1>2, <1>3
  <2>2. Address(p) = q * GroupBlocks + r
    BY DEF Address, q, r
  <2>. QED
    BY <1>3, <1>5, <2>1, <2>2
<1> DEFINE a == Address(p) + k
<1>7. a \div GroupBlocks = q /\ a % GroupBlocks = r + k
  <2> DEFINE w == r + k
  <2>1. w \in 0 .. GroupBlocks - 1 /\ a = q * GroupBlocks + w
    BY <1>5, <1>6
  <2>. HIDE DEF w, a
  <2>2. (q * GroupBlocks + w) \div GroupBlocks = q /\ (q * GroupBlocks + w) % GroupBlocks = w
    BY <1>2, <1>3, <2>1, QuotientOf
  <2>. QED
    BY <2>1, <2>2 DEF w
<1>. HIDE DEF a
<1>8. Disk(a) = q * Relative + (r + k)
  BY <1>7 DEF Disk
<1>9. q * Relative \in Nat
  BY <1>2, <1>3
<1>10. Disk(a) = p + k
  BY <1>1, <1>3, <1>5, <1>8, <1>9
<1>. QED
  BY <1>10 DEF a, p

LEMMA AddressType == \A p \in Nat : Address(p) \in Nat /\ Disk(p) \in Nat
<1> SUFFICES ASSUME NEW p \in Nat PROVE Address(p) \in Nat /\ Disk(p) \in Nat
  OBVIOUS
<1>1. Relative \in Nat \ {0} /\ GroupBlocks \in Nat \ {0}
  BY DataStreamAssumption
<1>2. /\ p \div Relative \in Nat /\ p % Relative \in Nat
      /\ p \div GroupBlocks \in Nat /\ p % GroupBlocks \in Nat
  BY <1>1, Quotient
<1>. QED
  BY <1>1, <1>2 DEF Address, Disk

(* What is at an offset of an entry with extents, and at the offsets up to *)
(* the end of its segment, is at the addresses from its own on.            *)
LEMMA SegmentData ==
  ASSUME NEW e \in Entries, ~InMemory(e), NEW o \in Nat, o < SizeOf[e]
  PROVE  LET i == SegmentAt(e, o)
             x == ExtentsOf[e][i]
         IN  /\ i \in 1 .. Len(ExtentsOf[e])
             /\ SegmentStart(e, i) \in Nat /\ SegmentStart(e, i) <= o
             /\ x.blocks \in Nat /\ x.physical \in Nat
             /\ o < SegmentStart(e, i) + x.blocks
             /\ \A j \in o .. SegmentStart(e, i) + x.blocks - 1 :
                  BlockAt(e, j) = IF x.sparse THEN 0
                                  ELSE Disk(Address(x.physical) + j - SegmentStart(e, i))
<1> DEFINE i == SegmentAt(e, o)
           x == ExtentsOf[e][i]
<1>1. o < SegmentStart(e, Len(ExtentsOf[e]) + 1)
  <2>1. SizeOf[e] <= SegmentStart(e, Len(ExtentsOf[e]) + 1)
    BY UndamagedAssumption
  <2>2. Len(ExtentsOf[e]) + 1 \in 1 .. Len(ExtentsOf[e]) + 1
    BY ExtentFacts
  <2>3. SegmentStart(e, Len(ExtentsOf[e]) + 1) \in Nat /\ SizeOf[e] \in Nat
    BY <2>2, SegmentStartType, DataStreamAssumption
  <2>. QED
    BY <2>1, <2>3
<1>2. i \in 1 .. Len(ExtentsOf[e]) /\ Within(e, i, o)
  BY <1>1, SegmentExists
<1>3. x.blocks \in Nat /\ x.physical \in Nat
  BY <1>2, ExtentFacts
<1>4. SegmentStart(e, i) \in Nat
  <2>1. i \in 1 .. Len(ExtentsOf[e]) + 1
    BY <1>2, ExtentFacts
  <2>. QED
    BY <2>1, SegmentStartType
<1>5. SegmentStart(e, i) <= o /\ o < SegmentStart(e, i) + x.blocks
  BY <1>2 DEF Within, SegmentEnd
<1>. HIDE DEF i
<1>6. ASSUME NEW j \in o .. SegmentStart(e, i) + x.blocks - 1
      PROVE  BlockAt(e, j) = IF x.sparse THEN 0
                             ELSE Disk(Address(x.physical) + j - SegmentStart(e, i))
  <2> DEFINE s == SegmentStart(e, i)
             b == x.blocks
             k == j - s
  <2>1. s \in Nat /\ b \in Nat /\ s <= o /\ j \in o .. s + b - 1
    BY <1>3, <1>4, <1>5, <1>6
  <2>. HIDE DEF s, b
  <2>2. j \in Nat /\ k \in 0 .. b - 1 /\ s <= j /\ j < s + b
    BY <2>1
  <2>3. Within(e, i, j)
    BY <2>2 DEF Within, SegmentEnd, s, b
  <2>4. SegmentAt(e, j) = i
    BY <1>2, <2>2, <2>3, SegmentIsOne
  <2>5. BlockAt(e, j) = IF x.sparse THEN 0 ELSE x.physical + j - s
    BY <2>4 DEF BlockAt, s
  <2>6. CASE x.sparse
    BY <2>5, <2>6
  <2>7. CASE ~x.sparse
    <3>1. Disk(Address(x.physical) + k) = x.physical + k
      BY <1>2, <2>2, <2>7, DiskHolds DEF b
    <3>2. Address(x.physical) \in Nat
      BY <1>3, AddressType
    <3>3. /\ Address(x.physical) + k = Address(x.physical) + j - s
          /\ x.physical + k = x.physical + j - s
      BY <1>3, <2>1, <2>2, <3>2
    <3>. QED
      BY <2>5, <2>7, <3>1, <3>3 DEF s
  <2>. QED
    BY <2>6, <2>7
<1>. QED
  BY <1>2, <1>3, <1>4, <1>5, <1>6 DEF i

------------------------------------------------------------------------------
(* The inductive invariant                                                 *)

Active(t) == pc[t] # "idle"
UsesDisk(t) == Active(t) /\ ~InMemory(entry[t])

(* Data of an entry from an offset on.                                     *)
Holds(data, e, from) == \A k \in 1 .. Len(data) : data[k] = BlockAt(e, from + k - 1)

(* A thread in a call has the lock of its entry.                           *)
Locked == \A t \in Threads : Active(t) => owner[entry[t]] = t

(* Among disciplined callers one at a time uses the file IO handle.        *)
OneReader == \A s, t \in Threads : UsesDisk(s) /\ UsesDisk(t) => s = t

(* What a call has read is the data from its offset on, and what it still  *)
(* wants is there.                                                         *)
Gathered(t) ==
  Active(t) =>
    /\ at[t] = offset[entry[t]] + Len(buffer[t])
    /\ Holds(buffer[t], entry[t], offset[entry[t]])
    /\ todo[t] > 0 => at[t] + todo[t] <= SizeOf[entry[t]]

(* The address of an offset of an entry with extents.                      *)
Place(e, o) ==
  LET i == SegmentAt(e, o)
  IN  Address(ExtentsOf[e][i].physical) + o - SegmentStart(e, i)

(* Between the seek and the read the position is the one of the seek.      *)
Placed(t) ==
  pc[t] = "data" =>
    /\ todo[t] > 0
    /\ IF InMemory(entry[t]) THEN cursor[entry[t]] = at[t]
       ELSE position = Place(entry[t], at[t])

(* The offset of a stream is the end of what was read of it.               *)
Served(e) ==
  /\ offset[e] = served[e].from + Len(served[e].data)
  /\ Holds(served[e].data, e, served[e].from)

IInv ==
  /\ TypeOK
  /\ Locked
  /\ OneReader
  /\ \A t \in Threads : Gathered(t) /\ Placed(t)
  /\ \A e \in Entries : Served(e)
  /\ ReadsItsData

------------------------------------------------------------------------------
(* Data that follows data                                                  *)

LEMMA Joined ==
  ASSUME NEW d \in Seq(Nat), NEW b \in Seq(Nat)
  PROVE  /\ d \o b \in Seq(Nat)
         /\ Len(d \o b) = Len(d) + Len(b)
         /\ \A k \in 1 .. Len(d) : (d \o b)[k] = d[k]
         /\ \A k \in Len(d) + 1 .. Len(d) + Len(b) : (d \o b)[k] = b[k - Len(d)]
  OBVIOUS

LEMMA HoldsJoined ==
  ASSUME NEW d \in Seq(Nat), NEW b \in Seq(Nat), NEW e, NEW from \in Nat,
         Holds(d, e, from), Holds(b, e, from + Len(d))
  PROVE  Holds(d \o b, e, from)
<1>1. Len(d) \in Nat /\ Len(b) \in Nat /\ Len(d \o b) = Len(d) + Len(b)
  BY Joined
<1> SUFFICES ASSUME NEW k \in 1 .. Len(d) + Len(b)
             PROVE  (d \o b)[k] = BlockAt(e, from + k - 1)
  BY <1>1 DEF Holds
<1>2. CASE k \in 1 .. Len(d)
  BY <1>2, Joined DEF Holds
<1>3. CASE k \notin 1 .. Len(d)
  <2> DEFINE j == k - Len(d)
  <2>1. j \in 1 .. Len(b) /\ k \in Len(d) + 1 .. Len(d) + Len(b)
    BY <1>1, <1>3
  <2>2. (d \o b)[k] = b[j]
    BY <2>1, Joined
  <2>3. b[j] = BlockAt(e, from + Len(d) + j - 1)
    BY <2>1 DEF Holds
  <2>4. from + Len(d) + j - 1 = from + k - 1
    BY <1>1
  <2>. QED
    BY <2>2, <2>3, <2>4
<1>. QED
  BY <1>2, <1>3

LEMMA NothingHolds == \A e, from : Holds(<<>>, e, from)
  BY DEF Holds

LEMMA NoAnswerIs ==
  /\ NoAnswer \in [entry : Entries, from : Nat, data : Seq(Nat)]
  /\ NoAnswer.data = <<>>
  BY DataStreamAssumption DEF NoAnswer

------------------------------------------------------------------------------
(* Threads beside each other                                               *)

(* Two threads in calls work on two entries.                               *)
LEMMA Apart ==
  ASSUME IInv, NEW t \in Threads, NEW u \in Threads, u # t, Active(t), Active(u)
  PROVE  entry[t] # entry[u]
  BY DEF IInv, Locked

(* Nobody works on an entry whose lock is free.                            *)
LEMMA FreeEntry ==
  ASSUME IInv, NEW e \in Entries, owner[e] = NoThread, NEW u \in Threads, Active(u)
  PROVE  entry[u] # e
<1>1. owner[entry[u]] = u
  BY DEF IInv, Locked
<1>. QED
  BY <1>1, DataStreamAssumption

(* What a step must leave alone for the call of a thread to go on.         *)
Kept(u) ==
  /\ pc'[u] = pc[u] /\ entry'[u] = entry[u]
  /\ at'[u] = at[u] /\ todo'[u] = todo[u] /\ buffer'[u] = buffer[u]
  /\ Active(u) => offset'[entry[u]] = offset[entry[u]]
  /\ Active(u) => IF InMemory(entry[u]) THEN cursor'[entry[u]] = cursor[entry[u]]
                  ELSE position' = position

LEMMA KeptGoesOn ==
  ASSUME IInv, NEW u \in Threads, Kept(u)
  PROVE  Gathered(u)' /\ Placed(u)'
<1>1. Gathered(u) /\ Placed(u)
  BY DEF IInv
<1>2. Gathered(u)'
  BY <1>1 DEF Gathered, Kept, Active
<1>3. Placed(u)'
  BY <1>1 DEF Placed, Kept, Active
<1>. QED
  BY <1>2, <1>3

------------------------------------------------------------------------------
(* The steps                                                               *)

LEMMA InitHolds == Init => IInv
<1> SUFFICES ASSUME Init PROVE IInv
  OBVIOUS
<1>1. (CHOOSE e \in Entries : TRUE) \in Entries
  BY DataStreamAssumption
<1>2. TypeOK
  BY <1>1, NoAnswerIs DEF Init, TypeOK
<1>3. Locked /\ OneReader /\ \A t \in Threads : Gathered(t) /\ Placed(t)
  BY DEF Init, Locked, OneReader, UsesDisk, Active, Gathered, Placed
<1>4. \A e \in Entries : Served(e)
  BY NothingHolds DEF Init, Served
<1>5. ReadsItsData
  BY NoAnswerIs DEF Init, ReadsItsData
<1>. QED
  BY <1>2, <1>3, <1>4, <1>5 DEF IInv

(* A call takes the lock of its entry; the lock or the discipline keeps    *)
(* the others away.                                                        *)
LEMMA BeginSteps ==
  ASSUME Disciplined, IInv, NEW t \in Threads, NEW e \in Entries,
         NEW o \in Nat, NEW n \in Nat, Begin(t, e, o, n),
         \/ o = offset[e] /\ UNCHANGED served
         \/ served' = [served EXCEPT ![e] = [from |-> o, data |-> <<>>]]
  PROVE  IInv'
<1>1. TypeOK
  BY DEF IInv
<1>2. ~Active(t) /\ owner[e] = NoThread
  BY DEF Begin, Active
<1>3. TypeOK'
  <2>1. SizeOf[e] \in Nat /\ (o < SizeOf[e] => SizeOf[e] - o \in Nat)
    BY DataStreamAssumption
  <2>2. (IF o < SizeOf[e] THEN Smaller(n, SizeOf[e] - o) ELSE 0) \in Nat
    BY <2>1 DEF Smaller
  <2>3. served' \in [Entries -> [from : Nat, data : Seq(Nat)]]
    <3>1. [from |-> o, data |-> <<>>] \in [from : Nat, data : Seq(Nat)]
      OBVIOUS
    <3>. QED
      BY <1>1, <3>1 DEF TypeOK
  <2>4. todo' \in [Threads -> Nat]
    BY <1>1, <2>2 DEF TypeOK, Begin
  <2>5. answer' \in [entry : Entries, from : Nat, data : Seq(Nat)] /\ given' \in Nat \X Nat
    BY NoAnswerIs DEF Begin, Forgotten
  <2>6. position' \in Nat /\ cursor' \in [Entries -> Nat] /\ offset' \in [Entries -> Nat]
    BY <1>1 DEF TypeOK, Begin
  <2>7. /\ owner' \in [Entries -> Threads \cup {NoThread}]
        /\ pc' \in [Threads -> {"idle", "segment", "data"}]
        /\ entry' \in [Threads -> Entries]
    BY <1>1 DEF TypeOK, Begin
  <2>8. at' \in [Threads -> Nat]
    BY <1>1 DEF TypeOK, Begin
  <2>9. buffer' \in [Threads -> Seq(Nat)]
    <3>1. <<>> \in Seq(Nat)
      OBVIOUS
    <3>. QED
      BY <1>1, <3>1 DEF TypeOK, Begin
  <2>. QED
    BY <2>3, <2>4, <2>5, <2>6, <2>7, <2>8, <2>9 DEF TypeOK
<1>4. ASSUME NEW u \in Threads, u # t
      PROVE  /\ Kept(u)
             /\ Active(u) => entry[u] # e
             /\ UsesDisk(u) => InMemory(e)
  <2>1. Active(u) => entry[u] # e
    BY <1>2, FreeEntry
  <2>2. Kept(u)
    BY <1>1, <1>4, <2>1 DEF TypeOK, Kept, Begin
  <2>3. UsesDisk(u) => InMemory(e)
    BY <2>1 DEF Begin, MayRead, UsesDisk, Active
  <2>. QED
    BY <2>1, <2>2, <2>3
<1>5. pc'[t] = "segment" /\ entry'[t] = e /\ at'[t] = o /\ buffer'[t] = <<>> /\ offset'[e] = o
  <2>1. pc'[t] = "segment" /\ entry'[t] = e
    BY <1>1 DEF TypeOK, Begin
  <2>2. at'[t] = o /\ buffer'[t] = <<>>
    BY <1>1 DEF TypeOK, Begin
  <2>3. offset'[e] = o
    BY <1>1 DEF TypeOK, Begin
  <2>. QED
    BY <2>1, <2>2, <2>3
<1>6. Locked'
  <2>1. owner'[e] = t
    BY <1>1 DEF TypeOK, Begin
  <2>2. ASSUME NEW u \in Threads, u # t, Active(u)' PROVE owner'[entry'[u]] = u
    <3>1. Active(u) /\ entry'[u] = entry[u] /\ entry[u] # e /\ entry[u] \in Entries
      BY <1>1, <1>4, <2>2 DEF Active, Kept, TypeOK
    <3>2. owner[entry[u]] = u
      BY <3>1 DEF IInv, Locked
    <3>. QED
      BY <1>1, <3>1, <3>2 DEF TypeOK, Begin
  <2>. QED
    BY <1>5, <2>1, <2>2 DEF Locked
<1>7. OneReader'
  BY <1>4, <1>5 DEF IInv, OneReader, UsesDisk, Active, Kept
<1>8. Gathered(t)' /\ Placed(t)'
  <2>1. todo'[t] > 0 => o + todo'[t] <= SizeOf[e]
    <3>1. todo'[t] = IF o < SizeOf[e] THEN Smaller(n, SizeOf[e] - o) ELSE 0
      BY <1>1 DEF TypeOK, Begin
    <3>2. SizeOf[e] \in Nat
      BY DataStreamAssumption
    <3>. QED
      BY <3>1, <3>2 DEF Smaller
  <2>2. Gathered(t)'
    BY <1>5, <2>1, NothingHolds DEF Gathered
  <2>. QED
    BY <1>5, <2>2 DEF Placed
<1>9. \A u \in Threads : Gathered(u)' /\ Placed(u)'
  BY <1>4, <1>8, KeptGoesOn
<1>10. ASSUME NEW x \in Entries PROVE Served(x)'
  <2>1. CASE x # e \/ (o = offset[e] /\ UNCHANGED served)
    <3>1. offset'[x] = offset[x] /\ served'[x] = served[x]
      BY <1>1, <2>1 DEF TypeOK, Begin
    <3>. QED
      BY <3>1 DEF IInv, Served
  <2>2. CASE x = e /\ served' = [served EXCEPT ![e] = [from |-> o, data |-> <<>>]]
    <3>1. served'[x].from = o /\ served'[x].data = <<>>
      BY <1>1, <2>2 DEF TypeOK
    <3>. QED
      BY <1>5, <2>2, <3>1, NothingHolds DEF Served
  <2>. QED
    BY <2>1, <2>2
<1>11. ReadsItsData'
  BY NoAnswerIs DEF Begin, Forgotten, ReadsItsData
<1>. QED
  BY <1>3, <1>6, <1>7, <1>9, <1>10, <1>11 DEF IInv

(* Another offset for a stream nobody reads.                               *)
LEMMA SeekSteps ==
  ASSUME IInv, NEW t \in Threads, NEW e \in Entries, NEW o \in Nat, SeekOffset(t, e, o)
  PROVE  IInv'
<1>1. TypeOK
  BY DEF IInv
<1>2. answer' \in [entry : Entries, from : Nat, data : Seq(Nat)] /\ given' \in Nat \X Nat
  BY NoAnswerIs DEF SeekOffset, Forgotten
<1>3. TypeOK'
  <2>1. served' \in [Entries -> [from : Nat, data : Seq(Nat)]]
    <3>1. [from |-> o, data |-> <<>>] \in [from : Nat, data : Seq(Nat)]
      OBVIOUS
    <3>. QED
      BY <1>1, <3>1 DEF TypeOK, SeekOffset
  <2>. QED
    BY <1>1, <1>2, <2>1 DEF TypeOK, SeekOffset, thread
<1>4. Locked' /\ OneReader'
  BY DEF IInv, Locked, OneReader, UsesDisk, Active, SeekOffset, thread
<1>5. ASSUME NEW u \in Threads PROVE Kept(u)
  <2>1. Active(u) => entry[u] # e
    BY FreeEntry DEF SeekOffset
  <2>. QED
    BY <1>1, <2>1 DEF TypeOK, Kept, SeekOffset, thread
<1>6. \A u \in Threads : Gathered(u)' /\ Placed(u)'
  BY <1>5, KeptGoesOn
<1>7. ASSUME NEW x \in Entries PROVE Served(x)'
  <2>1. CASE x # e
    <3>1. offset'[x] = offset[x] /\ served'[x] = served[x]
      BY <1>1, <2>1 DEF TypeOK, SeekOffset
    <3>. QED
      BY <3>1 DEF IInv, Served
  <2>2. CASE x = e
    <3>1. offset'[x] = o /\ served'[x].from = o /\ served'[x].data = <<>>
      BY <1>1, <2>2 DEF TypeOK, SeekOffset
    <3>. QED
      BY <3>1, NothingHolds DEF Served
  <2>. QED
    BY <2>1, <2>2
<1>8. ReadsItsData'
  BY NoAnswerIs DEF SeekOffset, Forgotten, ReadsItsData
<1>. QED
  BY <1>3, <1>4, <1>6, <1>7, <1>8 DEF IInv

(* The seek of a segment leaves the position where the data is.            *)
LEMMA WantedIsThere ==
  ASSUME IInv, NEW t \in Threads, Active(t), todo[t] > 0
  PROVE  /\ entry[t] \in Entries /\ at[t] \in Nat /\ todo[t] \in Nat
         /\ SizeOf[entry[t]] \in Nat
         /\ at[t] < SizeOf[entry[t]] /\ at[t] + todo[t] <= SizeOf[entry[t]]
<1>1. entry[t] \in Entries /\ at[t] \in Nat /\ todo[t] \in Nat
  BY DEF IInv, TypeOK
<1>2. SizeOf[entry[t]] \in Nat
  BY <1>1, DataStreamAssumption
<1>3. at[t] + todo[t] <= SizeOf[entry[t]]
  BY DEF IInv, Gathered
<1>. QED
  BY <1>1, <1>2, <1>3

(* While a thread uses the file IO handle the others do not, and while it  *)
(* is in a call its entry is not another's.                                *)
LEMMA OthersKept ==
  ASSUME IInv, NEW t \in Threads, Active(t), NEW u \in Threads, u # t,
         pc' = [pc EXCEPT ![t] = pc'[t]], entry' = entry,
         \A v \in Threads \ {t} : at'[v] = at[v] /\ todo'[v] = todo[v] /\ buffer'[v] = buffer[v],
         \A x \in Entries \ {entry[t]} : offset'[x] = offset[x] /\ cursor'[x] = cursor[x],
         InMemory(entry[t]) => position' = position
  PROVE  Kept(u)
<1>1. pc'[u] = pc[u] /\ entry[u] \in Entries
  BY DEF IInv, TypeOK
<1>2. Active(u) => entry[u] # entry[t]
  BY Apart
<1>3. Active(u) /\ ~InMemory(entry[u]) => position' = position
  BY DEF IInv, OneReader, UsesDisk
<1>. QED
  BY <1>1, <1>2, <1>3 DEF Kept

(* Steps in a call keep who has which lock.                                *)
LEMMA LocksStay ==
  ASSUME IInv, NEW t \in Threads, Active(t),
         pc' = [pc EXCEPT ![t] = pc'[t]], UNCHANGED <<owner, entry>>
  PROVE  Locked' /\ OneReader'
<1>1. \A u \in Threads : Active(u)' => Active(u)
  BY DEF IInv, TypeOK, Active
<1>2. Locked'
  BY <1>1 DEF IInv, Locked
<1>3. OneReader'
  BY <1>1 DEF IInv, OneReader, UsesDisk
<1>. QED
  BY <1>2, <1>3

LEMMA SeekSegmentSteps ==
  ASSUME IInv, NEW t \in Threads, SeekSegment(t)
  PROVE  IInv'
<1> DEFINE e == entry[t]
<1>1. TypeOK /\ Active(t) /\ ~InMemory(e) /\ todo[t] > 0
  BY DEF IInv, Active, SeekSegment
<1>2. position' = Place(e, at[t])
  BY DEF SeekSegment, Place
<1>3. position' \in Nat
  <2> DEFINE i == SegmentAt(e, at[t])
             a == Address(ExtentsOf[e][i].physical)
  <2>1. e \in Entries /\ at[t] \in Nat /\ at[t] < SizeOf[e]
    BY <1>1, WantedIsThere
  <2>2. /\ SegmentStart(e, i) \in Nat /\ SegmentStart(e, i) <= at[t]
        /\ ExtentsOf[e][i].physical \in Nat
    BY <1>1, <2>1, SegmentData
  <2>3. a \in Nat
    BY <2>2, AddressType
  <2>4. position' = a + at[t] - SegmentStart(e, i)
    BY <1>2 DEF Place
  <2>. HIDE DEF a, i, e
  <2>. QED
    BY <2>1, <2>2, <2>3, <2>4
<1>4. pc'[t] = "data" /\ pc' = [pc EXCEPT ![t] = pc'[t]]
  BY <1>1 DEF TypeOK, SeekSegment
<1>5. TypeOK'
  BY <1>1, <1>3 DEF TypeOK, SeekSegment
<1>6. Locked' /\ OneReader'
  BY <1>1, <1>4, LocksStay DEF SeekSegment
<1>7. ASSUME NEW u \in Threads PROVE Gathered(u)' /\ Placed(u)'
  <2>1. CASE u # t
    <3>1. Kept(u)
      BY <1>1, <1>4, <2>1, OthersKept DEF SeekSegment
    <3>. QED
      BY <3>1, KeptGoesOn
  <2>2. CASE u = t
    <3>1. Gathered(t)'
      BY <1>1 DEF IInv, Gathered, Active, SeekSegment
    <3>2. Placed(t)'
      BY <1>1, <1>2, <1>4 DEF Placed, SeekSegment
    <3>. QED
      BY <2>2, <3>1, <3>2
  <2>. QED
    BY <2>1, <2>2
<1>8. (\A x \in Entries : Served(x)') /\ ReadsItsData'
  BY DEF IInv, Served, ReadsItsData, SeekSegment
<1>. QED
  BY <1>5, <1>6, <1>7, <1>8 DEF IInv

LEMMA SeekBufferSteps ==
  ASSUME IInv, NEW t \in Threads, SeekBuffer(t)
  PROVE  IInv'
<1>1. TypeOK /\ Active(t) /\ InMemory(entry[t]) /\ todo[t] > 0
  BY DEF IInv, Active, SeekBuffer
<1>2. pc'[t] = "data" /\ pc' = [pc EXCEPT ![t] = pc'[t]] /\ entry[t] \in Entries
  BY <1>1 DEF TypeOK, SeekBuffer
<1>3. TypeOK'
  BY <1>1 DEF TypeOK, SeekBuffer
<1>4. Locked' /\ OneReader'
  BY <1>1, <1>2, LocksStay DEF SeekBuffer
<1>5. ASSUME NEW u \in Threads PROVE Gathered(u)' /\ Placed(u)'
  <2>1. CASE u # t
    <3>1. \A x \in Entries \ {entry[t]} : cursor'[x] = cursor[x]
      BY <1>1 DEF TypeOK, SeekBuffer
    <3>2. Kept(u)
      BY <1>1, <1>2, <2>1, <3>1, OthersKept DEF SeekBuffer
    <3>. QED
      BY <3>2, KeptGoesOn
  <2>2. CASE u = t
    <3>1. Gathered(t)'
      BY <1>1 DEF IInv, Gathered, Active, SeekBuffer
    <3>2. cursor'[entry[t]] = at[t]
      BY <1>1, <1>2 DEF TypeOK, SeekBuffer
    <3>3. Placed(t)'
      BY <1>1, <3>2 DEF Placed, SeekBuffer
    <3>. QED
      BY <2>2, <3>1, <3>3
  <2>. QED
    BY <2>1, <2>2
<1>6. (\A x \in Entries : Served(x)') /\ ReadsItsData'
  BY DEF IInv, Served, ReadsItsData, SeekBuffer
<1>. QED
  BY <1>3, <1>4, <1>5, <1>6 DEF IInv

(* A piece of the data of the entry is put behind what was read so far.    *)
LEMMA PieceSteps ==
  ASSUME IInv, NEW t \in Threads, pc[t] = "data",
         NEW n \in 1 .. todo[t], NEW piece \in Seq(Nat), Len(piece) = n,
         Holds(piece, entry[t], at[t]),
         buffer' = [buffer EXCEPT ![t] = @ \o piece],
         at' = [at EXCEPT ![t] = @ + n],
         todo' = [todo EXCEPT ![t] = @ - n],
         pc' = [pc EXCEPT ![t] = "segment"],
         UNCHANGED <<offset, owner, entry, answer, given, served>>,
         position' \in Nat, cursor' \in [Entries -> Nat],
         InMemory(entry[t]) => position' = position,
         \A x \in Entries \ {entry[t]} : cursor'[x] = cursor[x]
  PROVE  IInv'
<1> DEFINE e == entry[t]
<1>1. TypeOK /\ Active(t) /\ Gathered(t)
  BY DEF IInv, Active
<1>2. todo[t] > 0
  BY DEF IInv, Placed
<1>3. /\ e \in Entries /\ at[t] \in Nat /\ todo[t] \in Nat /\ SizeOf[e] \in Nat
      /\ at[t] + todo[t] <= SizeOf[e]
  BY <1>1, <1>2, WantedIsThere
<1>4. buffer[t] \in Seq(Nat) /\ offset[e] \in Nat
  BY <1>1, <1>3 DEF TypeOK
<1>5. buffer'[t] = buffer[t] \o piece /\ at'[t] = at[t] + n /\ todo'[t] = todo[t] - n
  BY <1>1 DEF TypeOK
<1>6. pc'[t] = "segment" /\ pc' = [pc EXCEPT ![t] = pc'[t]]
  BY <1>1 DEF TypeOK
<1>7. buffer[t] \o piece \in Seq(Nat) /\ Len(buffer[t] \o piece) = Len(buffer[t]) + n
  BY <1>4, Joined
<1>8. TypeOK'
  <2>1. at' \in [Threads -> Nat] /\ todo' \in [Threads -> Nat]
    <3>1. at[t] + n \in Nat /\ todo[t] - n \in Nat
      BY <1>3
    <3>. QED
      BY <1>1, <3>1 DEF TypeOK
  <2>2. buffer' \in [Threads -> Seq(Nat)]
    BY <1>1, <1>7 DEF TypeOK
  <2>3. pc' \in [Threads -> {"idle", "segment", "data"}]
    BY <1>1 DEF TypeOK
  <2>. QED
    BY <1>1, <2>1, <2>2, <2>3 DEF TypeOK
<1>9. Locked' /\ OneReader'
  BY <1>1, <1>6, LocksStay
<1>10. Gathered(t)'
  <2>1. at[t] = offset[e] + Len(buffer[t]) /\ Holds(buffer[t], e, offset[e])
    BY <1>1 DEF Gathered
  <2>2. Len(buffer[t]) \in Nat
    BY <1>4
  <2>3. at'[t] = offset[e] + Len(buffer'[t])
    <3> DEFINE b == Len(buffer[t])
               c == Len(buffer'[t])
    <3>1. c = b + n /\ b \in Nat /\ at[t] = offset[e] + b
      BY <1>5, <1>7, <2>1, <2>2
    <3>. HIDE DEF b, c, e
    <3>2. at'[t] = offset[e] + c
      BY <1>3, <1>4, <1>5, <3>1
    <3>. QED
      BY <3>2 DEF c, e
  <2>4. Holds(buffer'[t], e, offset[e])
    <3>1. Holds(piece, e, offset[e] + Len(buffer[t]))
      BY <2>1
    <3>2. Holds(buffer[t] \o piece, e, offset[e])
      <4>. HIDE DEF e
      <4>. QED
        BY <1>4, <2>1, <3>1, HoldsJoined
    <3>. QED
      BY <1>5, <3>2
  <2>5. at'[t] + todo'[t] <= SizeOf[e]
    <3>. HIDE DEF e
    <3>1. n \in Nat /\ at'[t] + todo'[t] = at[t] + todo[t]
      BY <1>3, <1>5
    <3>. QED
      BY <1>3, <3>1
  <2>. QED
    BY <2>3, <2>4, <2>5 DEF Gathered
<1>11. Placed(t)'
  BY <1>6 DEF Placed
<1>12. ASSUME NEW u \in Threads, u # t PROVE Gathered(u)' /\ Placed(u)'
  <2>1. \A v \in Threads \ {t} : at'[v] = at[v] /\ todo'[v] = todo[v] /\ buffer'[v] = buffer[v]
    BY <1>1 DEF TypeOK
  <2>2. Kept(u)
    BY <1>1, <1>6, <1>12, <2>1, OthersKept
  <2>. QED
    BY <2>2, KeptGoesOn
<1>13. (\A x \in Entries : Served(x)') /\ ReadsItsData'
  BY DEF IInv, Served, ReadsItsData
<1>. QED
  BY <1>8, <1>9, <1>10, <1>11, <1>12, <1>13 DEF IInv

(* The place of an offset moves with the offset in a segment.              *)
LEMMA ReadSegmentSteps ==
  ASSUME IInv, NEW t \in Threads, ReadSegment(t)
  PROVE  IInv'
<1> DEFINE e == entry[t]
           o == at[t]
           i == SegmentAt(e, o)
           x == ExtentsOf[e][i]
           s == SegmentStart(e, i)
           n == Smaller(todo[t], s + x.blocks - o)
           piece == [k \in 1 .. n |-> IF x.sparse THEN 0 ELSE Disk(position + k - 1)]
<1>1. TypeOK /\ Active(t) /\ ~InMemory(e) /\ pc[t] = "data"
  BY DEF IInv, Active, ReadSegment
<1>2. todo[t] > 0 /\ position = Place(e, o) /\ position \in Nat
  BY <1>1 DEF IInv, Placed, TypeOK
<1>3. e \in Entries /\ o \in Nat /\ todo[t] \in Nat /\ o < SizeOf[e]
  BY <1>1, <1>2, WantedIsThere
<1>4. /\ s \in Nat /\ s <= o /\ x.blocks \in Nat /\ x.physical \in Nat /\ o < s + x.blocks
      /\ \A j \in o .. s + x.blocks - 1 :
           BlockAt(e, j) = IF x.sparse THEN 0 ELSE Disk(Address(x.physical) + j - s)
  BY <1>1, <1>3, SegmentData
<1>5. position = Address(x.physical) + o - s /\ Address(x.physical) \in Nat
  BY <1>2, <1>4, AddressType DEF Place
<1>6. /\ buffer' = [buffer EXCEPT ![t] = @ \o piece]
      /\ position' = IF x.sparse THEN position ELSE position + n
      /\ at' = [at EXCEPT ![t] = @ + n]
      /\ todo' = [todo EXCEPT ![t] = @ - n]
      /\ pc' = [pc EXCEPT ![t] = "segment"]
      /\ UNCHANGED <<cursor, offset, owner, entry, answer, given, served>>
  BY DEF ReadSegment
<1> DEFINE b == x.blocks
           a == Address(x.physical)
<1>7. n \in 1 .. todo[t] /\ n <= s + b - o
  <2>. HIDE DEF s, b, o
  <2>. QED
    BY <1>2, <1>3, <1>4 DEF Smaller, b
<1>. HIDE DEF n
<1>8. piece \in Seq(Nat) /\ Len(piece) = n
  <2>1. ASSUME NEW k \in 1 .. n PROVE piece[k] \in Nat
    <3>1. position + k - 1 \in Nat
      BY <1>2, <1>7
    <3>. QED
      BY <3>1, AddressType
  <2>2. n \in Nat
    BY <1>3, <1>7
  <2>. QED
    BY <2>1, <2>2
<1>9. Holds(piece, e, o)
  <2> SUFFICES ASSUME NEW k \in 1 .. n PROVE piece[k] = BlockAt(e, o + k - 1)
    BY <1>8 DEF Holds
  <2>1. o + k - 1 \in o .. s + b - 1 /\ position + k - 1 = a + (o + k - 1) - s
    <3>. HIDE DEF s, b, o, a
    <3>. QED
      BY <1>3, <1>4, <1>5, <1>7 DEF a, b
  <2>2. BlockAt(e, o + k - 1) = IF x.sparse THEN 0 ELSE Disk(a + (o + k - 1) - s)
    BY <1>4, <2>1
  <2>. QED
    BY <2>1, <2>2
<1>10. position' \in Nat /\ cursor' \in [Entries -> Nat]
  <2>1. position + n \in Nat
    BY <1>2, <1>3, <1>7
  <2>2. position' \in {position, position + n}
    BY <1>6
  <2>3. cursor' = cursor
    BY DEF ReadSegment
  <2>. QED
    BY <1>1, <1>2, <2>1, <2>2, <2>3 DEF TypeOK
<1>. HIDE DEF piece
<1>. QED
  BY <1>1, <1>6, <1>7, <1>8, <1>9, <1>10, PieceSteps

LEMMA ReadBufferDataSteps ==
  ASSUME IInv, NEW t \in Threads, ReadBufferData(t)
  PROVE  IInv'
<1> DEFINE e == entry[t]
           o == at[t]
           n == Smaller(todo[t], SizeOf[e] - cursor[e])
           piece == SubSeq(InlineOf[e], cursor[e] + 1, cursor[e] + n)
<1>1. TypeOK /\ Active(t) /\ InMemory(e) /\ pc[t] = "data"
  BY DEF IInv, Active, ReadBufferData
<1>2. todo[t] > 0 /\ cursor[e] = o
  BY <1>1 DEF IInv, Placed
<1>3. /\ e \in Entries /\ o \in Nat /\ todo[t] \in Nat /\ SizeOf[e] \in Nat
      /\ o + todo[t] <= SizeOf[e]
  BY <1>1, <1>2, WantedIsThere
<1>4. InlineOf[e] \in Seq(Nat) /\ SizeOf[e] <= Len(InlineOf[e])
  BY <1>1, <1>3, DataStreamAssumption, UndamagedAssumption
<1>5. n = todo[t]
  BY <1>2, <1>3 DEF Smaller
<1>6. piece = SubSeq(InlineOf[e], o + 1, o + n)
  BY <1>2
<1>7. /\ buffer' = [buffer EXCEPT ![t] = @ \o piece]
      /\ cursor' = [cursor EXCEPT ![e] = @ + n]
      /\ at' = [at EXCEPT ![t] = @ + n]
      /\ todo' = [todo EXCEPT ![t] = @ - n]
      /\ pc' = [pc EXCEPT ![t] = "segment"]
      /\ UNCHANGED <<position, offset, owner, entry, answer, given, served>>
  BY DEF ReadBufferData
<1>. HIDE DEF n, piece
<1>8. n \in 1 .. todo[t] /\ o + n <= Len(InlineOf[e]) /\ n \in Nat /\ Len(InlineOf[e]) \in Nat
  BY <1>2, <1>3, <1>4, <1>5
<1>9. /\ piece \in Seq(Nat) /\ Len(piece) = n
      /\ \A k \in 1 .. n : piece[k] = InlineOf[e][o + k]
  <2> DEFINE d == InlineOf[e]
             p == o
  <2>. HIDE DEF d, p
  <2>1. d \in Seq(Nat) /\ p \in Nat /\ n \in Nat /\ p + n <= Len(d) /\ n > 0
    BY <1>3, <1>4, <1>8 DEF d, p
  <2>2. SubSeq(d, p + 1, p + n) = [k \in 1 .. n |-> d[p + k]]
    <3>1. p + 1 \in 1 .. Len(d) /\ p + n \in p + 1 - 1 .. Len(d)
      BY <2>1
    <3>2. Len(SubSeq(d, p + 1, p + n)) = n
      BY <2>1, <3>1
    <3>. QED
      BY <2>1, <3>1, <3>2
  <2>3. \A k \in 1 .. n : p + k \in 1 .. Len(d) /\ d[p + k] \in Nat
    BY <2>1
  <2>4. piece = [k \in 1 .. n |-> d[p + k]]
    BY <1>6, <2>2 DEF d, p
  <2>5. piece \in Seq(Nat) /\ Len(piece) = n
    BY <2>1, <2>3, <2>4
  <2>. QED
    BY <2>4, <2>5 DEF d, p
<1>10. Holds(piece, e, o)
  <2> SUFFICES ASSUME NEW k \in 1 .. n PROVE piece[k] = BlockAt(e, o + k - 1)
    BY <1>9 DEF Holds
  <2>1. (o + k - 1) + 1 = o + k
    BY <1>3, <1>8
  <2>2. BlockAt(e, o + k - 1) = InlineOf[e][o + k]
    BY <1>1, <2>1 DEF BlockAt
  <2>. QED
    BY <1>9, <2>2
<1>11. /\ position' \in Nat /\ cursor' \in [Entries -> Nat]
       /\ \A x \in Entries \ {e} : cursor'[x] = cursor[x]
  <2>1. position' = position /\ cursor' = [cursor EXCEPT ![e] = @ + n]
    BY <1>7
  <2>2. cursor[e] + n \in Nat
    BY <1>2, <1>3, <1>8
  <2>. QED
    BY <1>1, <2>1, <2>2 DEF TypeOK
<1>. QED
  BY <1>1, <1>7, <1>8, <1>9, <1>10, <1>11, PieceSteps

(* A read that ends hands its data on and leaves the offset behind it.     *)
LEMMA ReadEndsSteps ==
  ASSUME IInv, NEW t \in Threads, ReadEnds(t)
  PROVE  IInv'
<1> DEFINE e == entry[t]
<1>1. TypeOK /\ Active(t) /\ Gathered(t)
  BY DEF IInv, Active, ReadEnds
<1>2. /\ e \in Entries /\ buffer[t] \in Seq(Nat) /\ at[t] \in Nat /\ offset[e] \in Nat
      /\ served[e].from \in Nat /\ served[e].data \in Seq(Nat)
  BY <1>1 DEF TypeOK
<1>3. at[t] = offset[e] + Len(buffer[t]) /\ Holds(buffer[t], e, offset[e])
  BY <1>1 DEF Gathered
<1>4. pc'[t] = "idle" /\ pc' = [pc EXCEPT ![t] = pc'[t]]
  BY <1>1 DEF TypeOK, ReadEnds
<1>5. /\ served' = [served EXCEPT ![e].data = @ \o buffer[t]]
      /\ offset' = [offset EXCEPT ![e] = at[t]]
      /\ owner' = [owner EXCEPT ![e] = NoThread]
      /\ answer' = [entry |-> e, from |-> offset[e], data |-> buffer[t]]
      /\ at' = [at EXCEPT ![t] = 0] /\ buffer' = [buffer EXCEPT ![t] = <<>>]
      /\ UNCHANGED <<position, cursor, entry, todo, given>>
  BY DEF ReadEnds, Forget
<1>. HIDE DEF e
<1>6. TypeOK'
  <2>1. /\ pc' \in [Threads -> {"idle", "segment", "data"}]
        /\ owner' \in [Entries -> Threads \cup {NoThread}]
    BY <1>1, <1>4, <1>5 DEF TypeOK
  <2>2. offset' \in [Entries -> Nat] /\ at' \in [Threads -> Nat]
    BY <1>1, <1>2, <1>5 DEF TypeOK
  <2>3. buffer' \in [Threads -> Seq(Nat)]
    <3>1. <<>> \in Seq(Nat)
      OBVIOUS
    <3>. QED
      BY <1>1, <1>5, <3>1 DEF TypeOK
  <2>4. served' \in [Entries -> [from : Nat, data : Seq(Nat)]]
    <3>1. served[e].data \o buffer[t] \in Seq(Nat)
      BY <1>2, Joined
    <3>2. [served[e] EXCEPT !.data = @ \o buffer[t]] \in [from : Nat, data : Seq(Nat)]
      <4>1. served[e] \in [from : Nat, data : Seq(Nat)]
        BY <1>1, <1>2 DEF TypeOK
      <4>. QED
        BY <3>1, <4>1
    <3>3. served' = [served EXCEPT ![e] = [served[e] EXCEPT !.data = @ \o buffer[t]]]
      BY <1>5
    <3>. QED
      BY <1>1, <1>2, <3>2, <3>3 DEF TypeOK
  <2>5. answer' \in [entry : Entries, from : Nat, data : Seq(Nat)]
    BY <1>2, <1>5
  <2>. QED
    BY <1>1, <1>5, <2>1, <2>2, <2>3, <2>4, <2>5 DEF TypeOK
<1>7. ASSUME NEW u \in Threads, u # t
      PROVE  Kept(u) /\ (Active(u) => entry[u] # e)
  <2>1. /\ \A v \in Threads \ {t} : at'[v] = at[v] /\ todo'[v] = todo[v] /\ buffer'[v] = buffer[v]
        /\ \A x \in Entries \ {entry[t]} : offset'[x] = offset[x] /\ cursor'[x] = cursor[x]
    BY <1>1, <1>5 DEF TypeOK, e
  <2>2. Kept(u)
    BY <1>1, <1>4, <1>5, <1>7, <2>1, OthersKept
  <2>3. Active(u) => entry[u] # e
    BY <1>1, <1>7, Apart DEF e
  <2>. QED
    BY <2>2, <2>3
<1>8. ~Active(t)'
  BY <1>4 DEF Active
<1>9. Locked'
  BY <1>1, <1>5, <1>7, <1>8 DEF IInv, TypeOK, Locked, Kept, Active
<1>10. OneReader'
  BY <1>7, <1>8 DEF IInv, OneReader, UsesDisk, Kept, Active
<1>11. ASSUME NEW u \in Threads PROVE Gathered(u)' /\ Placed(u)'
  <2>1. CASE u = t
    BY <1>4, <2>1 DEF Gathered, Placed, Active
  <2>2. CASE u # t
    BY <1>7, <2>2, KeptGoesOn
  <2>. QED
    BY <2>1, <2>2
<1>12. ASSUME NEW x \in Entries PROVE Served(x)'
  <2>1. CASE x # e
    <3>1. offset'[x] = offset[x] /\ served'[x] = served[x]
      BY <1>1, <1>5, <2>1 DEF TypeOK
    <3>. QED
      BY <3>1 DEF IInv, Served
  <2>2. CASE x = e
    <3>1. /\ served'[e].data = served[e].data \o buffer[t] /\ served'[e].from = served[e].from
          /\ offset'[e] = at[t]
      <4>1. served'[e] = [served[e] EXCEPT !.data = @ \o buffer[t]] /\ offset'[e] = at[t]
        BY <1>1, <1>2, <1>5 DEF TypeOK
      <4>2. served[e] \in [from : Nat, data : Seq(Nat)]
        BY <1>1, <1>2 DEF TypeOK
      <4>. QED
        BY <4>1, <4>2
    <3>2. /\ offset[e] = served[e].from + Len(served[e].data)
          /\ Holds(served[e].data, e, served[e].from)
      BY <1>2 DEF IInv, Served
    <3>3. Holds(served[e].data \o buffer[t], e, served[e].from)
      BY <1>2, <1>3, <3>2, HoldsJoined
    <3>4. /\ Len(served[e].data \o buffer[t]) = Len(served[e].data) + Len(buffer[t])
          /\ Len(served[e].data) \in Nat /\ Len(buffer[t]) \in Nat
      BY <1>2, Joined
    <3>5. at[t] = served[e].from + Len(served[e].data \o buffer[t])
      <4> DEFINE f == served[e].from
                 d == Len(served[e].data)
                 b == Len(buffer[t])
                 j == Len(served[e].data \o buffer[t])
      <4>1. f \in Nat /\ d \in Nat /\ b \in Nat /\ j = d + b
        BY <1>2, <3>4
      <4>2. at[t] = offset[e] + b /\ offset[e] = f + d
        BY <1>3, <3>2
      <4>. HIDE DEF f, d, b, j
      <4>3. at[t] = f + j
        BY <4>1, <4>2
      <4>. QED
        BY <4>3 DEF f, j
    <3>. QED
      BY <2>2, <3>1, <3>3, <3>5 DEF Served
  <2>. QED
    BY <2>1, <2>2
<1>13. ReadsItsData'
  BY <1>3, <1>5 DEF ReadsItsData, Holds
<1>. QED
  BY <1>6, <1>9, <1>10, <1>11, <1>12, <1>13 DEF IInv

(* A read that fails leaves the stream somewhere, with nothing served.     *)
LEMMA ReadFailsSteps ==
  ASSUME IInv, NEW t \in Threads, ReadFails(t)
  PROVE  IInv'
<1> DEFINE e == entry[t]
<1>1. TypeOK /\ Active(t)
  BY DEF IInv, Active, ReadFails
<1>2. e \in Entries /\ offset[e] \in Nat /\ at[t] \in Nat
  BY <1>1 DEF TypeOK
<1>3. PICK o \in offset[e] .. at[t] :
        /\ offset' = [offset EXCEPT ![e] = o]
        /\ served' = [served EXCEPT ![e] = [from |-> o, data |-> <<>>]]
  BY DEF ReadFails
<1>4. o \in Nat
  BY <1>2, <1>3
<1>5. /\ owner' = [owner EXCEPT ![e] = NoThread]
      /\ todo' = [todo EXCEPT ![t] = 0]
      /\ at' = [at EXCEPT ![t] = 0] /\ buffer' = [buffer EXCEPT ![t] = <<>>]
      /\ UNCHANGED <<position, cursor, entry, answer, given>>
  BY DEF ReadFails, Forget
<1>6. pc'[t] = "idle" /\ pc' = [pc EXCEPT ![t] = pc'[t]]
  BY <1>1 DEF TypeOK, ReadFails
<1>. HIDE DEF e
<1>7. TypeOK'
  <2>1. /\ pc' \in [Threads -> {"idle", "segment", "data"}]
        /\ owner' \in [Entries -> Threads \cup {NoThread}]
    BY <1>1, <1>5, <1>6 DEF TypeOK
  <2>2. offset' \in [Entries -> Nat] /\ at' \in [Threads -> Nat] /\ todo' \in [Threads -> Nat]
    BY <1>1, <1>3, <1>4, <1>5 DEF TypeOK
  <2>3. <<>> \in Seq(Nat) /\ [from |-> o, data |-> <<>>] \in [from : Nat, data : Seq(Nat)]
    BY <1>4
  <2>4. buffer' \in [Threads -> Seq(Nat)]
    BY <1>1, <1>5, <2>3 DEF TypeOK
  <2>5. served' \in [Entries -> [from : Nat, data : Seq(Nat)]]
    BY <1>1, <1>3, <2>3 DEF TypeOK
  <2>. QED
    BY <1>1, <1>5, <2>1, <2>2, <2>4, <2>5 DEF TypeOK
<1>8. ASSUME NEW u \in Threads, u # t
      PROVE  Kept(u) /\ (Active(u) => entry[u] # e)
  <2>1. /\ \A v \in Threads \ {t} : at'[v] = at[v] /\ todo'[v] = todo[v] /\ buffer'[v] = buffer[v]
        /\ \A x \in Entries \ {entry[t]} : offset'[x] = offset[x] /\ cursor'[x] = cursor[x]
    BY <1>1, <1>3, <1>5 DEF TypeOK, e
  <2>2. Kept(u)
    BY <1>1, <1>5, <1>6, <1>8, <2>1, OthersKept
  <2>3. Active(u) => entry[u] # e
    BY <1>1, <1>8, Apart DEF e
  <2>. QED
    BY <2>2, <2>3
<1>9. ~Active(t)'
  BY <1>6 DEF Active
<1>10. Locked'
  BY <1>1, <1>5, <1>8, <1>9 DEF IInv, TypeOK, Locked, Kept, Active
<1>11. OneReader'
  BY <1>8, <1>9 DEF IInv, OneReader, UsesDisk, Kept, Active
<1>12. ASSUME NEW u \in Threads PROVE Gathered(u)' /\ Placed(u)'
  <2>1. CASE u = t
    BY <1>6, <2>1 DEF Gathered, Placed, Active
  <2>2. CASE u # t
    BY <1>8, <2>2, KeptGoesOn
  <2>. QED
    BY <2>1, <2>2
<1>13. ASSUME NEW x \in Entries PROVE Served(x)'
  <2>1. CASE x # e
    <3>1. offset'[x] = offset[x] /\ served'[x] = served[x]
      BY <1>1, <1>3, <2>1 DEF TypeOK
    <3>. QED
      BY <3>1 DEF IInv, Served
  <2>2. CASE x = e
    <3>1. offset'[x] = o /\ served'[x].from = o /\ served'[x].data = <<>>
      BY <1>1, <1>3, <2>2 DEF TypeOK
    <3>. QED
      BY <1>4, <3>1, NothingHolds DEF Served
  <2>. QED
    BY <2>1, <2>2
<1>14. ReadsItsData'
  BY <1>5 DEF IInv, ReadsItsData
<1>. QED
  BY <1>7, <1>10, <1>11, <1>12, <1>13, <1>14 DEF IInv

LEMMA GetExtentSteps ==
  ASSUME IInv, NEW t \in Threads, NEW e \in Entries, NEW i \in 1 .. Len(ExtentsOf[e]),
         GetExtent(t, e, i)
  PROVE  IInv'
<1>1. UNCHANGED <<stream, thread, served>> /\ answer' = NoAnswer
  BY DEF GetExtent
<1>2. given' \in Nat \X Nat
  BY ExtentFacts DEF GetExtent
<1>3. TypeOK'
  BY <1>1, <1>2, NoAnswerIs DEF IInv, TypeOK, stream, thread
<1>4. Locked' /\ OneReader'
  BY <1>1 DEF IInv, Locked, OneReader, UsesDisk, Active, stream, thread
<1>5. \A u \in Threads : Gathered(u)' /\ Placed(u)'
  BY <1>1, KeptGoesOn DEF Kept, stream, thread
<1>6. \A x \in Entries : Served(x)'
  BY <1>1 DEF IInv, Served, stream
<1>7. ReadsItsData'
  BY <1>1, NoAnswerIs DEF ReadsItsData
<1>. QED
  BY <1>3, <1>4, <1>5, <1>6, <1>7 DEF IInv

------------------------------------------------------------------------------
(* The theorems                                                            *)

LEMMA StepHolds ==
  ASSUME Disciplined, IInv, [Next]_vars
  PROVE  IInv'
<1>1. ASSUME NEW t \in Threads, Call(t) PROVE IInv'
  <2>1. PICK e \in Entries :
          \/ \E n \in 1 .. MaxRead : ReadBuffer(t, e, n)
          \/ \E o \in 0 .. SizeOf[e] : ReadBufferAtOffset(t, e, o, MaxRead) \/ SeekOffset(t, e, o)
          \/ \E i \in 1 .. Len(ExtentsOf[e]) : GetExtent(t, e, i)
    BY <1>1 DEF Call
  <2>2. offset[e] \in Nat /\ SizeOf[e] \in Nat /\ MaxRead \in Nat
    BY DataStreamAssumption DEF IInv, TypeOK
  <2>3. ASSUME NEW n \in 1 .. MaxRead, ReadBuffer(t, e, n) PROVE IInv'
    <3>1. n \in Nat /\ Begin(t, e, offset[e], n) /\ UNCHANGED served
      BY <2>2, <2>3 DEF ReadBuffer
    <3>. QED
      BY <2>2, <3>1, BeginSteps
  <2>4. ASSUME NEW o \in 0 .. SizeOf[e], ReadBufferAtOffset(t, e, o, MaxRead) PROVE IInv'
    <3>1. /\ o \in Nat /\ Begin(t, e, o, MaxRead)
          /\ served' = [served EXCEPT ![e] = [from |-> o, data |-> <<>>]]
      BY <2>2, <2>4 DEF ReadBufferAtOffset
    <3>. QED
      BY <2>2, <3>1, BeginSteps
  <2>5. ASSUME NEW o \in 0 .. SizeOf[e], SeekOffset(t, e, o) PROVE IInv'
    <3>1. o \in Nat
      BY <2>2, <2>5
    <3>. QED
      BY <2>5, <3>1, SeekSteps
  <2>6. ASSUME NEW i \in 1 .. Len(ExtentsOf[e]), GetExtent(t, e, i) PROVE IInv'
    BY <2>6, GetExtentSteps
  <2>. QED
    BY <2>1, <2>3, <2>4, <2>5, <2>6
<1>2. ASSUME NEW t \in Threads, Continue(t) \/ ReadFails(t) PROVE IInv'
  BY <1>2, SeekSegmentSteps, ReadSegmentSteps, SeekBufferSteps, ReadBufferDataSteps,
     ReadEndsSteps, ReadFailsSteps DEF Continue
<1>3. CASE UNCHANGED vars
  <2>1. TypeOK' /\ Locked' /\ OneReader'
    BY <1>3 DEF IInv, TypeOK, Locked, OneReader, UsesDisk, Active, vars, stream, thread
  <2>2. \A u \in Threads : Gathered(u)' /\ Placed(u)'
    BY <1>3, KeptGoesOn DEF Kept, vars, stream, thread
  <2>3. (\A x \in Entries : Served(x)') /\ ReadsItsData'
    BY <1>3 DEF IInv, Served, ReadsItsData, vars, stream
  <2>. QED
    BY <2>1, <2>2, <2>3 DEF IInv
<1>. QED
  BY <1>1, <1>2, <1>3 DEF Next

(* Under disciplined callers the position a thread has set is the one it   *)
(* reads from, and what every call has read is of its own entry.           *)
THEOREM Safety ==
  ASSUME Disciplined
  PROVE  Spec => []IInv
<1>1. IInv /\ [Next]_vars => IInv'
  BY StepHolds
<1>. QED
  BY <1>1, InitHolds, PTL DEF Spec

(* Every offset and count stays in its type, and what is read is blocks.   *)
THEOREM TypeCorrect ==
  ASSUME Disciplined
  PROVE  Spec => []TypeOK
<1>1. IInv => TypeOK
  BY DEF IInv
<1>. QED
  BY <1>1, Safety, PTL

(* Every read gives the data of its own entry at its own offset.           *)
THEOREM ReadsAreRight ==
  ASSUME Disciplined
  PROVE  Spec => []ReadsItsData
<1>1. IInv => ReadsItsData
  BY DEF IInv
<1>. QED
  BY <1>1, Safety, PTL

(* Reads that follow each other give successive pieces of their entry.     *)
THEOREM StreamsContinue ==
  ASSUME Disciplined
  PROVE  Spec => []StreamContinues
<1>1. IInv => StreamContinues
  BY DEF IInv, Served, Holds, StreamContinues
<1>. QED
  BY <1>1, Safety, PTL
===============================================================================
