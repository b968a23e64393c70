-------------------------- MODULE ExtentTree_proofs --------------------------
(***************************************************************************)
(* Proofs about the extents reader for every set of records, any number of *)
(* leaves and every limit of the block count.  The inductive invariant     *)
(* adds to the properties what the reader itself relies on: its running    *)
(* block number is the end of the array, and the last extent of the array  *)
(* is the last record of the image.                                        *)
(*                                                                         *)
(* The walk over an extent list or an extent B+ tree is such a reader, so  *)
(* what is proved of it holds of every tree, and a walk that ends has read *)
(* the whole fork.                                                         *)
(*                                                                         *)
(* Behind them, the proofs about the inode whose forks these are (module   *)
(* Inode), for every superblock and inode on disk and for every size of a  *)
(* header, a record and an inode.                                          *)
(***************************************************************************)
EXTENDS ExtentTree, Inode, Flattening, FiniteSetTheorems, WellFoundedInduction, TLAPS

(* The last extent of the array is the last record read, so that the       *)
(* reader of a leaf continues where the image did.                         *)
LastIsRecord ==
  pc \in {"leaf", "loop"} =>
    /\ array = <<>> <=> records = <<>>
    /\ array # <<>> => array[Len(array)] = records[Len(records)]

(* The local variable of the loop is the end of the array.                 *)
LogicalIsEnd == pc = "loop" => logical = NextBlock(array)

IInv ==
  /\ TypeOK
  /\ LastIsRecord
  /\ LogicalIsEnd
  /\ Tiling
  /\ Covering
  /\ NoDataLost
  /\ NothingAfterError

------------------------------------------------------------------------------

(* What is kept of a number that wraps.                                    *)
LEMMA ModRange == \A a \in Int, m \in Nat \ {0} : a % m \in 0 .. m - 1
  OBVIOUS

LEMMA ModSmall == \A m \in Nat \ {0} : \A n \in 0 .. m - 1 : n % m = n
  OBVIOUS

(* A record on disk is an extent of the array as it is.                    *)
LEMMA RecordIsExtent == Record \subseteq Extent
  BY ExtentsAssumption DEF Record, Extent

(* A hole is a sparse extent, and its length is exact when it fits.        *)
LEMMA HoleFacts ==
  ASSUME NEW first \in Nat, NEW count \in Nat
  PROVE  /\ Hole(first, count) \in Extent
         /\ Hole(first, count).sparse
         /\ Hole(first, count).logical = first
         /\ count < Limit => EndOf(Hole(first, count)) = first + count
  <1>1. /\ count % Limit \in 0 .. Limit - 1
        /\ count < Limit => count % Limit = count
    BY ExtentsAssumption
  <1>2. QED
    BY <1>1, ExtentsAssumption DEF Hole, Extent, EndOf

(* The block after the last extent is a block number.                      *)
LEMMA NextBlockIsNat ==
  ASSUME NEW s \in Seq(Extent)
  PROVE  NextBlock(s) \in Nat
  <1>1. CASE s = <<>>
    BY <1>1 DEF NextBlock
  <1>2. CASE s # <<>>
    <2>1. s[Len(s)] \in Extent
      BY <1>2
    <2>2. QED
      BY <2>1, <1>2, ExtentsAssumption DEF NextBlock, EndOf, Extent
  <1>3. QED
    BY <1>1, <1>2

(* A prefix of an image that is in order is in order.                      *)
LEMMA PrefixInOrder ==
  ASSUME NEW s \in Seq(Record), NEW e \in Record, InOrder(Append(s, e))
  PROVE  /\ InOrder(s)
         /\ NextBlock(s) <= e.logical
         /\ e.logical - NextBlock(s) < Limit
  <1> DEFINE t == Append(s, e)
  <1>1. /\ t \in Seq(Record)
        /\ Len(t) = Len(s) + 1
        /\ t[Len(s) + 1] = e
        /\ \A k \in 1 .. Len(s) : t[k] = s[k]
    OBVIOUS
  <1>2. InOrder(s)
    BY <1>1 DEF InOrder, Sorted, HolesFit
  <1>3. CASE s = <<>>
    <2>1. t[1] = e /\ t # <<>>
      BY <1>1, <1>3
    <2>2. e.logical \in Nat /\ e.logical < Limit
      BY <2>1, ExtentsAssumption DEF InOrder, HolesFit, Record
    <2>3. QED
      BY <1>2, <1>3, <2>2, ExtentsAssumption DEF NextBlock
  <1>4. CASE s # <<>>
    <2>1. Len(s) \in 1 .. Len(t) - 1
      BY <1>1, <1>4
    <2>2. /\ EndOf(t[Len(s)]) <= t[Len(s) + 1].logical
          /\ t[Len(s) + 1].logical - EndOf(t[Len(s)]) < Limit
      BY <2>1 DEF InOrder, Sorted, HolesFit
    <2>3. QED
      BY <1>1, <1>2, <1>4, <2>1, <2>2 DEF NextBlock
  <1>5. QED
    BY <1>3, <1>4

(* Appending an extent that starts at the end of the array keeps it tiled. *)
LEMMA AppendTiles ==
  ASSUME NEW s \in Seq(Extent), NEW e \in Extent,
         Tiles(s), e.logical = NextBlock(s)
  PROVE  /\ Tiles(Append(s, e))
         /\ NextBlock(Append(s, e)) = EndOf(e)
  <1> DEFINE t == Append(s, e)
  <1>1. /\ Len(t) = Len(s) + 1
        /\ t[Len(s) + 1] = e
        /\ \A k \in 1 .. Len(s) : t[k] = s[k]
        /\ t # <<>>
    OBVIOUS
  <1>2. NextBlock(t) = EndOf(e)
    BY <1>1 DEF NextBlock
  <1>3. t[1].logical = 0
    BY <1>1 DEF Tiles, NextBlock
  <1>4. ASSUME NEW i \in 1 .. Len(t) - 1
        PROVE  t[i + 1].logical = EndOf(t[i])
    <2>1. CASE i = Len(s)
      BY <1>1, <2>1 DEF NextBlock
    <2>2. CASE i < Len(s)
      BY <1>1, <2>2 DEF Tiles
    <2>3. QED
      BY <1>1, <2>1, <2>2
  <1>5. QED
    BY <1>2, <1>3, <1>4 DEF Tiles

(* The tail turns an array of extents into an array of extents.            *)
LEMMA WithTailType ==
  ASSUME TypeOK
  PROVE  WithTail(array) \in Seq(Extent)
  <1> DEFINE missing == numberOfBlocks - NextBlock(array)
             last == array[Len(array)]
  <1>1. /\ array \in Seq(Extent)
        /\ numberOfBlocks \in Nat
        /\ NextBlock(array) \in Nat
    BY NextBlockIsNat DEF TypeOK
  <1>2. CASE ~addSparse \/ missing <= 0
    BY <1>1, <1>2 DEF WithTail
  <1>3. CASE ~(~addSparse \/ missing <= 0) /\ array # <<>> /\ last.sparse
    <2>1. Len(array) \in 1 .. Len(array) /\ last \in Extent
      BY <1>1, <1>3
    <2>2. (last.blocks + missing) % Limit \in 0 .. Limit - 1
      <3>1. last.blocks + missing \in Int
        BY <1>1, <2>1, ExtentsAssumption DEF Extent
      <3>2. QED
        BY <3>1, ModRange, ExtentsAssumption
    <2>3. [last EXCEPT !.blocks = (@ + missing) % Limit] \in Extent
      BY <2>1, <2>2 DEF Extent
    <2>4. WithTail(array)
            = [array EXCEPT ![Len(array)] = [last EXCEPT !.blocks = (@ + missing) % Limit]]
      BY <1>1, <1>3, <2>1 DEF WithTail
    <2>5. QED
      BY <1>1, <2>1, <2>3, <2>4
  <1>4. CASE ~(~addSparse \/ missing <= 0) /\ ~(array # <<>> /\ last.sparse)
    <2>1. Hole(NextBlock(array), missing) \in Extent
      BY <1>1, <1>4, HoleFacts
    <2>2. WithTail(array) = Append(array, Hole(NextBlock(array), missing))
      BY <1>4 DEF WithTail
    <2>3. QED
      BY <1>1, <2>1, <2>2
  <1>5. QED
    BY <1>2, <1>3, <1>4

(* Iteration of the loop on an array that tiles.                           *)
LEMMA ReadRecordTiles ==
  ASSUME TypeOK, LastIsRecord, LogicalIsEnd, Tiling,
         NEW e \in Record, ReadRecord(e)
  PROVE  Tiling'
  <1> SUFFICES ASSUME addSparse, InOrder(Append(records, e))
               PROVE  Tiles(array')
    BY DEF Tiling, ReadRecord, fork
  <1>1. /\ array \in Seq(Extent)
        /\ records \in Seq(Record)
        /\ logical \in Nat
        /\ e \in Extent
        /\ e.logical \in Nat
    BY RecordIsExtent, ExtentsAssumption DEF TypeOK, Record
  <1>2. /\ InOrder(records)
        /\ NextBlock(records) <= e.logical
        /\ e.logical - NextBlock(records) < Limit
    BY <1>1, PrefixInOrder
  <1>3. /\ pc = "loop"
        /\ logical = NextBlock(array)
        /\ NextBlock(array) = NextBlock(records)
    BY DEF ReadRecord, LogicalIsEnd, LastIsRecord, NextBlock
  <1>4. Tiles(array)
    BY <1>2, <1>3 DEF Tiling
  <1>5. CASE e.logical > logical
    <2> DEFINE h == Hole(logical, e.logical - logical)
    <2>1. e.logical - logical \in Nat /\ e.logical - logical < Limit
      BY <1>1, <1>2, <1>3, <1>5
    <2>2. /\ h \in Extent
          /\ h.logical = logical
          /\ EndOf(h) = logical + (e.logical - logical)
      BY <1>1, <2>1, HoleFacts
    <2> HIDE DEF h
    <2>6. Append(array, h) \in Seq(Extent)
      BY <1>1, <2>2
    <2>3. /\ Tiles(Append(array, h))
          /\ NextBlock(Append(array, h)) = e.logical
      <3>1. EndOf(h) = e.logical
        BY <1>1, <2>2
      <3>2. QED
        BY <1>1, <1>3, <1>4, <2>2, <3>1, AppendTiles
    <2>4. Tiles(Append(Append(array, h), e))
      BY <1>1, <2>6, <2>3, AppendTiles
    <2>5. array' = Append(Append(array, h), e)
      <3>1. array' = array \o <<h, e>>
        BY <1>5 DEF ReadRecord, h
      <3>2. QED
        BY <1>1, <2>2, <3>1
    <2>7. QED
      BY <2>4, <2>5
  <1>6. CASE ~(e.logical > logical)
    <2>1. e.logical = NextBlock(array)
      BY <1>1, <1>2, <1>3, <1>6
    <2>2. array' = Append(array, e)
      BY <1>6 DEF ReadRecord
    <2>3. QED
      BY <1>1, <1>4, <2>1, <2>2, AppendTiles
  <1>7. QED
    BY <1>5, <1>6

------------------------------------------------------------------------------

(* What the tail can do: nothing, lengthen the last extent, append a hole. *)
TailKept == WithTail(array) = array /\ (addSparse => numberOfBlocks <= NextBlock(array))

TailLengthened ==
  LET t == WithTail(array)
      last == array[Len(array)]
      missing == numberOfBlocks - NextBlock(array)
  IN  /\ addSparse
      /\ missing > 0
      /\ array # <<>>
      /\ last.sparse
      /\ Len(t) = Len(array)
      /\ \A i \in 1 .. Len(array) - 1 : t[i] = array[i]
      /\ t[Len(array)].logical = last.logical
      /\ t[Len(array)].blocks = (last.blocks + missing) % Limit
      /\ t[Len(array)].sparse

TailAppended ==
  LET missing == numberOfBlocks - NextBlock(array)
  IN  /\ addSparse
      /\ missing > 0
      /\ array # <<>> => ~array[Len(array)].sparse
      /\ WithTail(array) = Append(array, Hole(NextBlock(array), missing))

LEMMA TailCases ==
  ASSUME TypeOK
  PROVE  TailKept \/ TailLengthened \/ TailAppended
  <1> DEFINE missing == numberOfBlocks - NextBlock(array)
             last == array[Len(array)]
  <1>1. /\ array \in Seq(Extent)
        /\ numberOfBlocks \in Nat
        /\ NextBlock(array) \in Nat
        /\ addSparse \in BOOLEAN
    BY NextBlockIsNat DEF TypeOK
  <1>2. CASE ~addSparse \/ missing <= 0
    <2>1. WithTail(array) = array
      BY <1>2 DEF WithTail
    <2>2. addSparse => numberOfBlocks <= NextBlock(array)
      BY <1>1, <1>2
    <2>3. QED
      BY <2>1, <2>2 DEF TailKept
  <1>3. CASE ~(~addSparse \/ missing <= 0) /\ array # <<>> /\ last.sparse
    <2>1. Len(array) \in 1 .. Len(array) /\ last \in Extent
      BY <1>1, <1>3
    <2>2. WithTail(array)
            = [array EXCEPT ![Len(array)] = [last EXCEPT !.blocks = (@ + missing) % Limit]]
      BY <1>1, <1>3, <2>1 DEF WithTail
    <2> DEFINE long == [last EXCEPT !.blocks = (@ + missing) % Limit]
    <2>3. /\ long.logical = last.logical
          /\ long.blocks = (last.blocks + missing) % Limit
          /\ long.sparse = last.sparse
      BY <2>1 DEF Extent
    <2> HIDE DEF long
    <2>4. /\ WithTail(array) = [array EXCEPT ![Len(array)] = long]
          /\ missing > 0
      BY <1>1, <1>3, <2>2 DEF long
    <2>5. /\ Len(WithTail(array)) = Len(array)
          /\ WithTail(array)[Len(array)] = long
          /\ \A i \in 1 .. Len(array) - 1 : WithTail(array)[i] = array[i]
      BY <1>1, <2>1, <2>4
    <2>6. TailLengthened
      BY <1>3, <2>3, <2>4, <2>5 DEF TailLengthened
    <2>7. QED
      BY <2>6
  <1>4. CASE ~(~addSparse \/ missing <= 0) /\ ~(array # <<>> /\ last.sparse)
    <2>1. missing > 0 /\ WithTail(array) = Append(array, Hole(NextBlock(array), missing))
      BY <1>1, <1>4 DEF WithTail
    <2>2. QED
      BY <1>4, <2>1 DEF TailAppended
  <1>5. QED
    BY <1>2, <1>3, <1>4

(* The tail completes an array that tiles to the size of the file.         *)
LEMMA TailCovers ==
  ASSUME TypeOK, LastIsRecord, Tiling, Finish, addSparse, InOrder(records), TailFits
  PROVE  /\ Tiles(WithTail(array))
         /\ NextBlock(WithTail(array)) =
              IF NextBlock(array) < numberOfBlocks THEN numberOfBlocks ELSE NextBlock(array)
  <1> DEFINE missing == numberOfBlocks - NextBlock(array)
             last == array[Len(array)]
  <1>1. /\ array \in Seq(Extent)
        /\ numberOfBlocks \in Nat
        /\ NextBlock(array) \in Nat
    BY NextBlockIsNat DEF TypeOK
  <1>2. /\ Tiles(array)
        /\ NextBlock(array) = NextBlock(records)
        /\ array = <<>> <=> records = <<>>
        /\ array # <<>> => last = records[Len(records)]
    BY DEF Tiling, LastIsRecord, Finish, NextBlock
  <1>3. CASE TailKept
    <2>1. WithTail(array) = array /\ ~(NextBlock(array) < numberOfBlocks)
      BY <1>1, <1>3 DEF TailKept
    <2>2. QED
      BY <1>2, <2>1
  <1>4. CASE TailLengthened
    <2> DEFINE t == WithTail(array)
               n == last.blocks + missing
    <2>1. /\ Len(array) \in 1 .. Len(array)
          /\ last.logical \in Nat
          /\ last.blocks \in Nat
          /\ NextBlock(array) = last.logical + last.blocks
      <3>1. array # <<>>
        BY <1>4 DEF TailLengthened
      <3>2. Len(array) \in 1 .. Len(array) /\ last \in Extent
        BY <1>1, <3>1
      <3>3. QED
        BY <3>1, <3>2, ExtentsAssumption DEF Extent, NextBlock, EndOf
    <2>2. numberOfBlocks - last.logical < Limit
      BY <1>2, <1>4 DEF TailLengthened, TailFits
    <2>3. missing > 0
      BY <1>4 DEF TailLengthened
    <2>4. n \in Nat /\ n < Limit /\ last.logical + n = numberOfBlocks
      <3>1. last.logical + n = numberOfBlocks /\ n > 0 /\ n \in Int
        BY <1>1, <2>1, <2>3
      <3>2. QED
        BY <1>1, <2>1, <2>2, <3>1, ExtentsAssumption
    <2>5. n % Limit = n
      <3>1. n \in 0 .. Limit - 1 /\ Limit \in Nat \ {0}
        BY <2>4, ExtentsAssumption
      <3>2. QED
        BY <3>1, ModSmall
    <2>6. t \in Seq(Extent) /\ Len(t) = Len(array)
      BY <1>4, WithTailType DEF TailLengthened
    <2>7. /\ t[Len(t)].logical = last.logical
          /\ t[Len(t)].blocks = n
          /\ \A i \in 1 .. Len(t) - 1 : t[i] = array[i]
      BY <1>4, <2>5, <2>6 DEF TailLengthened
    <2>8. NextBlock(t) = numberOfBlocks
      BY <2>1, <2>4, <2>6, <2>7 DEF NextBlock, EndOf
    <2>9. /\ \A i \in 1 .. Len(t) : t[i].logical = array[i].logical
          /\ \A i \in 1 .. Len(t) - 1 : EndOf(t[i]) = EndOf(array[i])
      BY <2>1, <2>6, <2>7
    <2>10. Tiles(t)
      BY <1>2, <2>1, <2>6, <2>9 DEF Tiles
    <2>11. QED
      BY <1>1, <2>3, <2>8, <2>10
  <1>5. CASE TailAppended
    <2> DEFINE h == Hole(NextBlock(array), missing)
    <2>1. missing \in Nat /\ missing < Limit /\ NextBlock(array) + missing = numberOfBlocks
      BY <1>1, <1>2, <1>5 DEF TailAppended, TailFits
    <2>2. /\ h \in Extent
          /\ h.logical = NextBlock(array)
          /\ EndOf(h) = NextBlock(array) + missing
      BY <1>1, <2>1, HoleFacts
    <2>3. Tiles(Append(array, h)) /\ NextBlock(Append(array, h)) = EndOf(h)
      BY <1>1, <1>2, <2>2, AppendTiles
    <2>4. QED
      BY <1>1, <1>5, <2>1, <2>2, <2>3 DEF TailAppended
  <1>6. QED
    BY <1>3, <1>4, <1>5, TailCases

LEMMA FinishCovers ==
  ASSUME TypeOK, LastIsRecord, Tiling, Finish
  PROVE  Covering'
  <1> SUFFICES ASSUME addSparse, InOrder(records), TailFits
               PROVE  Tiles(WithTail(array)) /\ numberOfBlocks <= NextBlock(WithTail(array))
    BY DEF Covering, TailFits, Finish, fork
  <1>1. numberOfBlocks \in Nat /\ NextBlock(array) \in Nat
    BY NextBlockIsNat DEF TypeOK
  <1>2. QED
    BY <1>1, TailCovers

(* An iteration keeps every extent of the array and adds the one it read.  *)
LEMMA ReadRecordKeeps ==
  ASSUME TypeOK, LastIsRecord, LogicalIsEnd, NoDataLost,
         NEW e \in Record, ReadRecord(e)
  PROVE  NoDataLost' /\ LastIsRecord' /\ LogicalIsEnd'
  <1>1. /\ array \in Seq(Extent)
        /\ records \in Seq(Record)
        /\ e \in Extent
        /\ pc = "loop"
        /\ pc' = "loop"
        /\ addSparse' = addSparse
        /\ logical' = EndOf(e)
        /\ records' = Append(records, e)
    BY RecordIsExtent DEF TypeOK, ReadRecord, fork
  <1>2. \E g \in Seq(Extent) :
          /\ array' = Append(g, e)
          /\ Len(array) <= Len(g)
          /\ \A i \in 1 .. Len(array) : g[i] = array[i]
          /\ \A i \in 1 .. Len(g) : i > Len(array) => g[i].sparse
          /\ ~addSparse => g = array
    <2>1. CASE addSparse /\ e.logical > logical
      <3> DEFINE h == Hole(logical, e.logical - logical)
      <3>1. logical \in Nat /\ e.logical \in Nat /\ e.logical - logical \in Nat
        BY <1>1, <2>1, ExtentsAssumption DEF TypeOK, Extent
      <3>2. h \in Extent /\ h.sparse
        BY <3>1, HoleFacts
      <3>3. array' = array \o <<h, e>>
        BY <2>1 DEF ReadRecord
      <3> HIDE DEF h
      <3>4. array' = Append(Append(array, h), e)
        BY <1>1, <3>2, <3>3
      <3> DEFINE g == Append(array, h)
      <3>5. /\ g \in Seq(Extent)
            /\ Len(g) = Len(array) + 1
            /\ g[Len(array) + 1] = h
            /\ \A i \in 1 .. Len(array) : g[i] = array[i]
        BY <1>1, <3>2
      <3>6. \A i \in 1 .. Len(g) : i > Len(array) => g[i].sparse
        BY <1>1, <3>2, <3>5
      <3> HIDE DEF g
      <3>7. array' = Append(g, e)
        BY <3>4 DEF g
      <3>8. Len(array) <= Len(g)
        BY <1>1, <3>5
      <3>9. QED
        BY <2>1, <3>5, <3>6, <3>7, <3>8
    <2>2. CASE ~(addSparse /\ e.logical > logical)
      <3>1. array' = Append(array, e)
        BY <2>2 DEF ReadRecord
      <3>2. \A i \in 1 .. Len(array) : ~(i > Len(array))
        BY <1>1
      <3>3. Len(array) <= Len(array)
        BY <1>1
      <3>4. QED
        BY <1>1, <3>1, <3>2, <3>3
    <2>3. QED
      BY <2>1, <2>2
  <1>3. PICK g \in Seq(Extent) :
          /\ array' = Append(g, e)
          /\ Len(array) <= Len(g)
          /\ \A i \in 1 .. Len(array) : g[i] = array[i]
          /\ \A i \in 1 .. Len(g) : i > Len(array) => g[i].sparse
          /\ ~addSparse => g = array
    BY <1>2
  <1>4. /\ Len(array') = Len(g) + 1
        /\ array'[Len(g) + 1] = e
        /\ \A i \in 1 .. Len(g) : array'[i] = g[i]
        /\ Len(records') = Len(records) + 1
        /\ records'[Len(records) + 1] = e
        /\ \A k \in 1 .. Len(records) : records'[k] = records[k]
        /\ array' # <<>> /\ records' # <<>>
    <2>1. ASSUME NEW S, NEW s \in Seq(S), NEW x \in S
          PROVE  /\ Len(Append(s, x)) = Len(s) + 1
                 /\ Append(s, x)[Len(s) + 1] = x
                 /\ \A i \in 1 .. Len(s) : Append(s, x)[i] = s[i]
                 /\ Append(s, x) # <<>>
      OBVIOUS
    <2>2. /\ Len(array') = Len(g) + 1
          /\ array'[Len(g) + 1] = e
          /\ \A i \in 1 .. Len(g) : array'[i] = g[i]
          /\ array' # <<>>
      BY <1>1, <1>3, <2>1
    <2>3. /\ Len(records') = Len(records) + 1
          /\ records'[Len(records) + 1] = e
          /\ \A k \in 1 .. Len(records) : records'[k] = records[k]
          /\ records' # <<>>
      BY <1>1, <2>1
    <2>4. QED
      BY <2>2, <2>3
  <1>5. LastIsRecord' /\ LogicalIsEnd'
    BY <1>1, <1>3, <1>4 DEF LastIsRecord, LogicalIsEnd, NextBlock
  <1>6. ASSUME NEW k \in 1 .. Len(records'), ~records'[k].sparse
        PROVE  \E i \in 1 .. Len(array') : array'[i] = records'[k]
    <2>1. CASE k = Len(records) + 1
      BY <1>1, <1>3, <1>4, <2>1
    <2>2. CASE k \in 1 .. Len(records)
      <3>1. PICK i \in 1 .. Len(array) : array[i] = records[k]
        BY <1>1, <1>4, <1>6, <2>2 DEF NoDataLost
      <3>2. i \in 1 .. Len(array') /\ array'[i] = records'[k]
        BY <1>1, <1>3, <1>4, <2>2, <3>1
      <3>3. QED
        BY <3>2
    <2>3. QED
      BY <1>1, <1>4, <2>1, <2>2
  <1>7. ASSUME NEW i \in 1 .. Len(array'), ~array'[i].sparse
        PROVE  \E k \in 1 .. Len(records') : records'[k] = array'[i]
    <2>1. CASE i = Len(g) + 1
      BY <1>1, <1>3, <1>4, <2>1
    <2>2. CASE i \in 1 .. Len(array)
      <3>1. array'[i] = array[i]
        BY <1>1, <1>3, <1>4, <2>2
      <3>2. PICK k \in 1 .. Len(records) : records[k] = array[i]
        BY <1>1, <1>7, <2>2, <3>1 DEF NoDataLost
      <3>3. QED
        BY <1>1, <1>4, <3>1, <3>2
    <2>3. i \in 1 .. Len(g) => i \in 1 .. Len(array)
      BY <1>1, <1>3, <1>4, <1>7
    <2>4. QED
      BY <1>3, <1>4, <2>1, <2>2, <2>3
  <1>8. ~addSparse => array' = records'
    BY <1>1, <1>3 DEF NoDataLost
  <1>9. QED
    BY <1>1, <1>5, <1>6, <1>7, <1>8 DEF NoDataLost

(* The tail changes no written extent.                                     *)
LEMMA FinishKeeps ==
  ASSUME TypeOK, NoDataLost, Finish
  PROVE  NoDataLost'
  <1> DEFINE t == WithTail(array)
  <1>1. /\ array \in Seq(Extent)
        /\ records' = records
        /\ addSparse' = addSparse
        /\ array' = t
        /\ pc = "leaf"
        /\ t \in Seq(Extent)
    BY WithTailType DEF TypeOK, Finish, fork
  <1> HIDE DEF t
  <1>2. /\ Len(array) <= Len(t)
        /\ \A i \in 1 .. Len(array) : t[i] = array[i] \/ (array[i].sparse /\ t[i].sparse)
        /\ \A i \in 1 .. Len(t) : i > Len(array) => t[i].sparse
        /\ ~addSparse => t = array
    <2>1. CASE TailKept
      BY <1>1, <2>1 DEF TailKept, t
    <2>2. CASE TailLengthened
      BY <1>1, <2>2 DEF TailLengthened, t
    <2>3. CASE TailAppended
      <3> DEFINE h == Hole(NextBlock(array), numberOfBlocks - NextBlock(array))
      <3>1. numberOfBlocks - NextBlock(array) \in Nat /\ NextBlock(array) \in Nat
        BY <2>3, NextBlockIsNat DEF TailAppended, TypeOK
      <3>2. h \in Extent /\ h.sparse
        BY <3>1, HoleFacts
      <3>3. t = Append(array, h)
        BY <2>3 DEF TailAppended, t
      <3> HIDE DEF h
      <3>4. QED
        BY <1>1, <2>3, <3>2, <3>3 DEF TailAppended
    <2>4. QED
      BY <2>1, <2>2, <2>3, TailCases
  <1>3. ASSUME NEW k \in 1 .. Len(records), ~records[k].sparse
        PROVE  \E i \in 1 .. Len(t) : t[i] = records[k]
    <2>1. PICK i \in 1 .. Len(array) : array[i] = records[k]
      BY <1>1, <1>3 DEF NoDataLost
    <2>2. QED
      BY <1>1, <1>2, <1>3, <2>1
  <1>4. ASSUME NEW i \in 1 .. Len(t), ~t[i].sparse
        PROVE  \E k \in 1 .. Len(records) : records[k] = t[i]
    <2>1. i \in 1 .. Len(array) /\ t[i] = array[i]
      BY <1>1, <1>2, <1>4
    <2>2. QED
      BY <1>1, <1>4, <2>1 DEF NoDataLost
  <1>5. ~addSparse => t = records
    BY <1>1, <1>2 DEF NoDataLost
  <1>6. QED
    BY <1>1, <1>3, <1>4, <1>5 DEF NoDataLost

------------------------------------------------------------------------------

(* The array, the counters and the history keep their types: block counts  *)
(* stay below the limit because every sum is taken modulo it.              *)
THEOREM TypeCorrect == Spec => []TypeOK
  <1>1. Init => TypeOK
    BY ExtentsAssumption DEF Init, TypeOK
  <1>2. TypeOK /\ [Next]_vars => TypeOK'
    <2> SUFFICES ASSUME TypeOK, [Next]_vars
                 PROVE  TypeOK'
      OBVIOUS
    <2>1. CASE BeginLeaf
      BY <2>1, NextBlockIsNat DEF BeginLeaf, TypeOK, fork
    <2>2. ASSUME NEW e \in Record, ReadRecord(e)
          PROVE  TypeOK'
      <3>1. e \in Extent /\ EndOf(e) \in Nat /\ e.logical \in Nat
        <4>1. e \in Extent
          BY RecordIsExtent
        <4>2. QED
          BY <4>1, ExtentsAssumption DEF Extent, EndOf
      <3>2. array' \in Seq(Extent)
        <4>1. CASE addSparse /\ e.logical > logical
          <5>1. e.logical - logical \in Nat
            BY <3>1, <4>1 DEF TypeOK
          <5>2. Hole(logical, e.logical - logical) \in Extent
            BY <5>1, HoleFacts DEF TypeOK
          <5>3. array' = array \o <<Hole(logical, e.logical - logical), e>>
            BY <2>2, <4>1 DEF ReadRecord
          <5>4. <<Hole(logical, e.logical - logical), e>> \in Seq(Extent)
            BY <3>1, <5>2
          <5>5. QED
            BY <5>3, <5>4 DEF TypeOK
        <4>2. CASE ~(addSparse /\ e.logical > logical)
          BY <2>2, <3>1, <4>2 DEF ReadRecord, TypeOK
        <4>3. QED
          BY <4>1, <4>2
      <3>3. QED
        BY <2>2, <3>1, <3>2 DEF ReadRecord, TypeOK, fork
    <2>3. CASE EndLeaf
      BY <2>3 DEF EndLeaf, TypeOK, fork
    <2>4. CASE Finish
      <3>1. WithTail(array) \in Seq(Extent)
        BY WithTailType
      <3>2. QED
        BY <2>4, <3>1 DEF Finish, TypeOK, fork
    <2>5. CASE Fail
      BY <2>5 DEF Fail, TypeOK, fork
    <2>6. CASE Ended \/ UNCHANGED vars
      BY <2>6 DEF Ended, vars, TypeOK
    <2>7. QED
      BY <2>1, <2>2, <2>3, <2>4, <2>5, <2>6 DEF Next
  <1>3. QED
    BY <1>1, <1>2, PTL DEF Spec

(* The inductive invariant holds in every reachable state.                 *)
THEOREM Safety == Spec => []IInv
  <1>1. Init => IInv
    <2> SUFFICES ASSUME Init PROVE IInv
      OBVIOUS
    <2>1. array = <<>> /\ records = <<>> /\ pc = "leaf" /\ Len(array) = 0
      BY DEF Init
    <2>2. TypeOK
      BY ExtentsAssumption DEF Init, TypeOK
    <2>3. QED
      BY <2>1, <2>2 DEF IInv, LastIsRecord, LogicalIsEnd, Tiling, Tiles, Covering,
                        NoDataLost, NothingAfterError
  <1>2. IInv /\ TypeOK' /\ [Next]_vars => IInv'
    <2> SUFFICES ASSUME IInv, TypeOK', [Next]_vars
                 PROVE  IInv'
      OBVIOUS
    <2> USE DEF IInv
    <2>1. CASE BeginLeaf
      <3>1. LastIsRecord' /\ LogicalIsEnd'
        BY <2>1 DEF BeginLeaf, LastIsRecord, LogicalIsEnd, NextBlock
      <3>2. Tiling' /\ Covering' /\ NoDataLost' /\ NothingAfterError'
        BY <2>1 DEF BeginLeaf, fork, Tiling, Covering, NoDataLost, NothingAfterError
      <3>3. QED
        BY <3>1, <3>2
    <2>2. ASSUME NEW e \in Record, ReadRecord(e)
          PROVE  IInv'
      <3>1. NoDataLost' /\ LastIsRecord' /\ LogicalIsEnd'
        BY <2>2, ReadRecordKeeps
      <3>2. Tiling'
        BY <2>2, ReadRecordTiles
      <3>3. Covering' /\ NothingAfterError'
        BY <2>2 DEF ReadRecord, Covering, NothingAfterError
      <3>4. QED
        BY <3>1, <3>2, <3>3
    <2>3. CASE EndLeaf
      <3>1. LastIsRecord' /\ LogicalIsEnd'
        BY <2>3 DEF EndLeaf, LastIsRecord, LogicalIsEnd
      <3>2. Tiling' /\ Covering' /\ NoDataLost' /\ NothingAfterError'
        BY <2>3 DEF EndLeaf, fork, Tiling, Covering, NoDataLost, NothingAfterError
      <3>3. QED
        BY <3>1, <3>2
    <2>4. CASE Finish
      <3>1. Covering'
        BY <2>4, FinishCovers
      <3>2. NoDataLost'
        BY <2>4, FinishKeeps
      <3>3. LastIsRecord' /\ LogicalIsEnd' /\ Tiling' /\ NothingAfterError'
        BY <2>4 DEF Finish, LastIsRecord, LogicalIsEnd, Tiling, NothingAfterError
      <3>4. QED
        BY <3>1, <3>2, <3>3
    <2>5. CASE Fail
      <3>1. pc' = "error" /\ array' = <<>> /\ Len(array') = 0
        BY <2>5 DEF Fail
      <3>2. QED
        BY <3>1 DEF LastIsRecord, LogicalIsEnd, Tiling, Tiles, Covering,
                    NoDataLost, NothingAfterError
    <2>6. CASE Ended \/ UNCHANGED vars
      <3>1. UNCHANGED vars
        BY <2>6 DEF Ended
      <3>2. QED
        BY <3>1 DEF vars, LastIsRecord, LogicalIsEnd, NextBlock, Tiling, Covering,
                    TailFits, NoDataLost, NothingAfterError
    <2>7. QED
      BY <2>1, <2>2, <2>3, <2>4, <2>5, <2>6 DEF Next
  <1>3. QED
    BY <1>1, <1>2, TypeCorrect, PTL DEF Spec

(* The extents of a file whose records are in order have neither a gap nor *)
(* an overlap while its leaves are read, for every number of leaves, and   *)
(* cover the file up to its size when the reader is done.                  *)
THEOREM FileIsMapped == Spec => []IsMapOfFile
  BY Safety, PTL DEF IInv, IsMapOfFile

(* Every written extent of an image, damaged or not, is in the array, and  *)
(* nothing else is; a directory has exactly the extents of its records,    *)
(* and a fork that could not be read has no extents.                       *)
THEOREM DataIsKept == Spec => []AllOrNothing
  BY Safety, PTL DEF IInv, AllOrNothing

------------------------------------------------------------------------------
(* The walk.                                                               *)

(* A walk has records of the image in hand.                                *)
LeafTyped == root \in Node /\ left \in Seq(Record)

(* A step of the walk is a step of the reader or leaves it alone.          *)
LEMMA TreeStep == LeafTyped /\ [TreeNext]_treeVars => LeafTyped' /\ [Next]_vars
  <1> SUFFICES ASSUME LeafTyped, [TreeNext]_treeVars PROVE LeafTyped' /\ [Next]_vars
    OBVIOUS
  <1>1. ASSUME NEW place, NEW count \in Nat, BeginLeafAt(place, count)
        PROVE  LeafTyped' /\ [Next]_vars
    BY <1>1 DEF BeginLeafAt, LeafTyped, Next
  <1>2. CASE BeginList
    BY <1>1, <1>2, ExtentTreeAssumption DEF BeginList, LeafTyped, Node
  <1>3. ASSUME NEW n \in Node, BeginBlock(n) PROVE LeafTyped' /\ [Next]_vars
    BY <1>1, <1>3, ExtentTreeAssumption DEF BeginBlock, Node
  <1>4. CASE ReadNext
    <2>1. Head(left) \in Record /\ Tail(left) \in Seq(Record)
      BY <1>4 DEF ReadNext, LeafTyped
    <2> QED
      BY <1>4, <2>1 DEF ReadNext, LeafTyped, Next
  <1>5. CASE EndBlock
    BY <1>5 DEF EndBlock, tree, LeafTyped, Next
  <1>6. CASE FinishTree
    BY <1>6 DEF FinishTree, tree, LeafTyped, Next
  <1>7. CASE RefuseTree
    BY <1>7 DEF RefuseTree, tree, LeafTyped, Next
  <1>8. CASE TreeEnded
    BY <1>8 DEF TreeEnded, tree, LeafTyped, Next
  <1>9. CASE UNCHANGED treeVars
    BY <1>9 DEF treeVars, tree, vars, LeafTyped
  <1> QED
    BY <1>2, <1>3, <1>4, <1>5, <1>6, <1>7, <1>8, <1>9 DEF TreeNext

(* The walk implements the reader.                                         *)
THEOREM TreeImplementsReader == TreeSpec => Spec
  <1>1. TreeInit => Init /\ LeafTyped
    BY DEF TreeInit, LeafTyped
  <1>2. QED
    BY <1>1, TreeStep, PTL DEF TreeSpec, Spec

(* So the map a tree gives is one of the file it is the tree of.           *)
THEOREM TreeIsMapped == TreeSpec => []IsMapOfFile
  BY TreeImplementsReader, FileIsMapped, PTL

(* And its data is kept or given up as a whole.                            *)
THEOREM TreeDataIsKept == TreeSpec => []AllOrNothing
  BY TreeImplementsReader, DataIsKept, PTL

(* The type of the reader's state in a walk.                               *)
THEOREM TreeTypeCorrect == TreeSpec => []TypeOK
  BY TreeImplementsReader, TypeCorrect, PTL

(* The leaves begun so far are the first ones of the root, and what was    *)
(* read with what is left of the current one are their records.            *)
Walked ==
  /\ LeafTyped
  /\ named \in Seq(Blocks \cup {ListPlace}) /\ Len(named) = IF isBtree THEN root.count ELSE 1
  /\ ~isBtree => named = <<ListPlace>>
  /\ \A p \in DOMAIN contents : contents[p] \in Seq(Record)
  /\ visited \in 0 .. Len(named) /\ visited = leaves
  /\ \A k \in 1 .. visited : named[k] \in DOMAIN contents
  /\ pc # "loop" => left = <<>>
  /\ pc = "done" => visited = Len(named)
  /\ pc # "error" => records \o left = Before(LeavesNamed, visited)

LEMMA LeavesAre ==
  ASSUME Walked
  PROVE  /\ LeavesNamed \in Seq(Seq(Record)) /\ Len(LeavesNamed) = Len(named)
         /\ \A k \in 1 .. Len(named) : LeavesNamed[k] = RecordsAt(named[k])
  <1>1. \A p : RecordsAt(p) \in Seq(Record)
    BY DEF Walked, RecordsAt
  <1>2. Len(named) \in Nat
    BY DEF Walked
  <1> QED
    BY <1>1, <1>2 DEF LeavesNamed

(* A leaf more: it is the next one of the root, and those before it hold   *)
(* what they held.                                                         *)
LEMMA LeafBegun ==
  ASSUME Walked, TypeOK, NEW count \in Nat, visited < Len(named),
         BeginLeafAt(named[visited + 1], count)
  PROVE  Walked'
  <1> DEFINE place == named[visited + 1]
             n == visited + 1
             after == LeavesNamed'
  <1>1. /\ pc = "leaf" /\ pc' = "loop" /\ left = <<>> /\ left' \in Seq(Record)
        /\ visited \in Nat /\ visited' = n /\ n \in 1 .. Len(named)
        /\ named' = named /\ records' = records /\ root' = root /\ isBtree' = isBtree
        /\ leaves' = leaves + 1 /\ records \in Seq(Record) /\ Len(named) \in Nat
    BY DEF BeginLeafAt, BeginLeaf, fork, Walked, TypeOK
  <1>2. DOMAIN contents' = DOMAIN contents \cup {place} /\ contents'[place] = left'
    BY DEF BeginLeafAt
  <1>3. \A p \in DOMAIN contents : contents'[p] = contents[p]
    BY DEF BeginLeafAt
  <1>4. \A p \in DOMAIN contents' : contents'[p] \in Seq(Record)
    BY <1>1, <1>2, <1>3 DEF Walked
  <1>5. \A k \in 1 .. n : named[k] \in DOMAIN contents'
    <2> TAKE k \in 1 .. n
    <2>1. CASE k = n
      BY <1>2, <2>1
    <2>2. CASE k # n
      BY <1>1, <1>2, <2>2 DEF Walked
    <2> QED
      BY <2>1, <2>2
  <1>6. /\ after \in Seq(Seq(Record)) /\ Len(after) = Len(named)
        /\ \A k \in 1 .. Len(named) : after[k] = RecordsAt(named[k])'
    <2>1. \A p : RecordsAt(p)' \in Seq(Record)
      BY <1>4 DEF RecordsAt
    <2>2. after = [k \in 1 .. Len(named) |-> RecordsAt(named[k])']
      BY <1>1 DEF LeavesNamed
    <2> QED
      BY <1>1, <2>1, <2>2
  <1>7. after[n] = left'
    BY <1>1, <1>2, <1>6 DEF RecordsAt
  <1>8. \A k \in 1 .. visited : LeavesNamed[k] = after[k]
    <2> TAKE k \in 1 .. visited
    <2>1. named[k] \in DOMAIN contents /\ k \in 1 .. Len(named)
      BY <1>1 DEF Walked
    <2>2. LeavesNamed[k] = contents[named[k]]
      BY <2>1, LeavesAre DEF RecordsAt
    <2>3. after[k] = contents'[named[k]]
      BY <1>1, <1>2, <1>6, <2>1 DEF RecordsAt
    <2> QED
      BY <1>3, <2>1, <2>2, <2>3
  <1> HIDE DEF after
  <1>9. Before(after, visited) = records
    <2>1. Before(LeavesNamed, visited) = Before(after, visited)
      <3>1. LeavesNamed \in Seq(Seq(Record)) /\ Len(LeavesNamed) = Len(named)
        BY LeavesAre
      <3>2. after \in Seq(Seq(Record)) /\ Len(after) = Len(named)
        BY <1>6
      <3>3. visited \in Nat /\ visited <= Len(named)
        BY <1>1
      <3> QED
        BY <1>8, <3>1, <3>2, <3>3, BeforeAgrees
    <2>2. records \o left = records
      BY <1>1, EmptyEnds
    <2> QED
      BY <1>1, <2>1, <2>2 DEF Walked
  <1>10. Before(after, n) = records \o left'
    <2>1. n \in 0 .. Len(after) /\ n # 0 /\ n - 1 = visited
      BY <1>1, <1>6
    <2>2. Before(after, n) = Before(after, n - 1) \o after[n]
      BY <1>6, <2>1, BeforeIs
    <2> QED
      BY <1>7, <1>9, <2>1, <2>2
  <1>11. LeafTyped'
    BY <1>1 DEF Walked, LeafTyped
  <1>12. visited' = leaves'
    BY <1>1 DEF Walked
  <1> HIDE DEF n, place
  <1> QED
    BY <1>1, <1>4, <1>5, <1>10, <1>11, <1>12 DEF Walked, after

(* A record more.                                                          *)
LEMMA RestIsRead ==
  ASSUME NEW S, NEW a \in Seq(S), NEW b \in Seq(S), b # <<>>
  PROVE  Append(a, Head(b)) \o Tail(b) = a \o b
  <1>1. Head(b) \in S /\ Tail(b) \in Seq(S) /\ <<Head(b)>> \in Seq(S)
    OBVIOUS
  <1>2. <<Head(b)>> \o Tail(b) = b
    OBVIOUS
  <1>3. Append(a, Head(b)) = a \o <<Head(b)>>
    BY <1>1, AppendIs
  <1>4. (a \o <<Head(b)>>) \o Tail(b) = a \o (<<Head(b)>> \o Tail(b))
    BY <1>1, Associates
  <1> QED
    BY <1>2, <1>3, <1>4

(* A step that neither begins a leaf nor reads a record.                   *)
LEMMA WalkedOn ==
  ASSUME Walked, UNCHANGED <<tree, isBtree, leaves, records>>,
         pc' = pc \/ left = <<>>,
         pc' = "error" \/ pc # "error",
         pc' = "done" => visited = Len(named)
  PROVE  Walked'
  <1>1. LeavesNamed' = LeavesNamed
    BY DEF tree, LeavesNamed, RecordsAt
  <1>2. LeafTyped'
    BY DEF Walked, LeafTyped, tree
  <1> QED
    BY <1>1, <1>2 DEF Walked, tree

LEMMA WalkedStep == Walked /\ TypeOK /\ [TreeNext]_treeVars => Walked'
  <1> SUFFICES ASSUME Walked, TypeOK, [TreeNext]_treeVars PROVE Walked'
    OBVIOUS
  <1>1. CASE BeginList
    <2>1. ~isBtree /\ root.count \in Nat /\ BeginLeafAt(ListPlace, root.count)
      BY <1>1, ExtentTreeAssumption DEF BeginList, Walked, LeafTyped, Node
    <2>2. leaves = 0 /\ visited = 0 /\ Len(named) = 1
      BY <2>1 DEF BeginLeafAt, BeginLeaf, Walked, TypeOK
    <2>3. named[1] = ListPlace
      BY <2>1 DEF Walked
    <2> QED
      BY <2>1, <2>2, <2>3, LeafBegun
  <1>2. ASSUME NEW n \in Node, BeginBlock(n) PROVE Walked'
    <2>1. /\ n.count \in Nat /\ isBtree /\ visited < root.count
          /\ BeginLeafAt(named[visited + 1], n.count)
      BY <1>2, ExtentTreeAssumption DEF BeginBlock, Node
    <2> QED
      BY <2>1, LeafBegun DEF Walked
  <1>3. CASE ReadNext
    <2>1. /\ left \in Seq(Record) /\ left # <<>> /\ left' = Tail(left) /\ records \in Seq(Record)
          /\ records' = Append(records, Head(left))
          /\ UNCHANGED <<root, named, contents, visited, isBtree, leaves, pc>> /\ pc = "loop"
      BY <1>3 DEF ReadNext, ReadRecord, fork, Walked, LeafTyped, TypeOK
    <2>2. records' \o left' = records \o left
      BY <2>1, RestIsRead
    <2>3. LeavesNamed' = LeavesNamed
      BY <2>1 DEF LeavesNamed, RecordsAt
    <2>4. LeafTyped'
      BY <2>1 DEF Walked, LeafTyped
    <2> QED
      BY <2>1, <2>2, <2>3, <2>4 DEF Walked
  <1>4. CASE EndBlock
    BY <1>4, WalkedOn DEF EndBlock, EndLeaf, fork
  <1>5. CASE FinishTree
    <2>1. visited = Len(named)
      BY <1>5 DEF FinishTree, Finish, Walked
    <2>2. left = <<>>
      BY <1>5 DEF FinishTree, Finish, Walked
    <2> QED
      BY <1>5, <2>1, <2>2, WalkedOn DEF FinishTree, Finish, fork
  <1>6. CASE RefuseTree
    <2>1. left = <<>>
      BY <1>6 DEF RefuseTree, Fail, Walked
    <2> QED
      BY <1>6, <2>1, WalkedOn DEF RefuseTree, Fail, fork
  <1>7. CASE TreeEnded \/ UNCHANGED treeVars
    <2>1. UNCHANGED <<tree, isBtree, leaves, records, pc>>
      BY <1>7 DEF TreeEnded, Ended, treeVars, vars
    <2>2. pc = "done" => visited = Len(named)
      BY DEF Walked
    <2> QED
      BY <2>1, <2>2, WalkedOn
  <1> QED
    BY <1>1, <1>2, <1>3, <1>4, <1>5, <1>6, <1>7 DEF TreeNext

(* libfsxfs_extent_btree_get_extents_from_branch_node: a walk that ends    *)
(* without an error has read the records of every leaf the root names, in  *)
(* the order of the root and with nothing between them.                    *)
THEOREM WholeFork == TreeSpec => []WholeForkIsRead
  <1>1. TreeInit => Walked
    <2> SUFFICES ASSUME TreeInit PROVE Walked
      OBVIOUS
    <2>1. /\ root \in Node /\ root.count \in Nat /\ left = <<>> /\ visited = 0 /\ leaves = 0
          /\ records = <<>> /\ pc = "leaf" /\ DOMAIN contents = {}
      <3>1. root \in Node
        BY DEF TreeInit
      <3>2. root.count \in Nat
        BY <3>1, ExtentTreeAssumption DEF Node
      <3> QED
        BY <3>1, <3>2 DEF TreeInit, Init
    <2>2. /\ named \in Seq(Blocks \cup {ListPlace})
          /\ Len(named) = (IF isBtree THEN root.count ELSE 1)
          /\ ~isBtree => named = <<ListPlace>>
      <3>1. CASE isBtree
        <4>1. named \in [1 .. root.count -> Blocks]
          BY <3>1 DEF TreeInit
        <4>2. named \in Seq(Blocks) /\ Len(named) = root.count
          BY <2>1, <4>1
        <4> QED
          BY <3>1, <4>2
      <3>2. CASE ~isBtree
        <4>1. named = <<ListPlace>>
          BY <3>2 DEF TreeInit
        <4> QED
          BY <3>2, <4>1
      <3> QED
        BY <3>1, <3>2
    <2>3. Before(LeavesNamed, 0) = <<>>
      BY DEF Before
    <2>4. <<>> \o <<>> = <<>>
      OBVIOUS
    <2> QED
      BY <2>1, <2>2, <2>3, <2>4, EmptyBegins DEF Walked, LeafTyped
  <1>2. Walked /\ TypeOK => WholeForkIsRead
    <2> SUFFICES ASSUME Walked, TypeOK, pc = "done" PROVE WholeForkIsRead
      BY DEF WholeForkIsRead
    <2>1. visited = Len(named) /\ left = <<>> /\ records \o left = Before(LeavesNamed, Len(named))
      BY DEF Walked
    <2>2. Before(LeavesNamed, Len(named)) \in Seq(Record)
          /\ FlattenSeq(LeavesNamed) = Before(LeavesNamed, Len(named))
      BY LeavesAre, FlattenIs, BeforeTyped
    <2>3. records = FlattenSeq(LeavesNamed)
      BY <2>1, <2>2, EmptyEnds
    <2>4. \A k \in 1 .. Len(named) : named[k] \in DOMAIN contents
      BY <2>1 DEF Walked
    <2>5. named \in Seq(Blocks \cup {ListPlace})
      BY DEF Walked
    <2> QED
      BY <2>3, <2>4, <2>5 DEF WholeForkIsRead, Range
  <1>3. QED
    BY <1>1, <1>2, WalkedStep, TreeTypeCorrect, PTL DEF TreeSpec
------------------------------------------------------------------------------
(* The map of the file.                                                    *)

(* A set of indexes that is not empty has a least one.                     *)
LEMMA LeastNumber ==
  ASSUME NEW I \in SUBSET Nat, I # {}
  PROVE  \E m \in I : \A j \in I : m <= j
  <1> DEFINE R == OpToRel(<, Nat)
  <1>1. IsWellFoundedOn(R, Nat)
    BY NatLessThanWellFounded
  <1>2. \A x, y \in Nat : x < y => <<x, y>> \in R
    BY DEF OpToRel
  <1> HIDE DEF R
  <1>3. PICK m \in I : \A j \in I : ~(<<j, m>> \in R)
    BY <1>1, WFMin
  <1>4. ASSUME NEW j \in I PROVE m <= j
    <2>1. j \in Nat /\ m \in Nat
      OBVIOUS
    <2>2. ~(<<j, m>> \in R)
      BY <1>3
    <2>3. ~(j < m)
      BY <1>2, <2>1, <2>2, Zenon
    <2>4. QED
      BY <2>1, <2>3
  <1>5. QED
    BY <1>4

(* Whether extent k of s holds block b.                                    *)
Holds(s, k, b) == k \in 1 .. Len(s) /\ s[k].logical <= b /\ b < EndOf(s[k])

LEMMA ExtentType ==
  ASSUME NEW s \in Seq(Extent), NEW k \in 1 .. Len(s)
  PROVE  /\ s[k].logical \in Nat /\ s[k].blocks \in Nat /\ s[k].physical \in Nat
         /\ s[k].sparse \in BOOLEAN
         /\ EndOf(s[k]) \in Nat /\ s[k].logical <= EndOf(s[k])
  <1>1. s[k] \in Extent
    OBVIOUS
  <1>2. /\ s[k].logical \in Nat /\ s[k].blocks \in Nat /\ s[k].physical \in Nat
        /\ s[k].sparse \in BOOLEAN
    BY <1>1, ExtentsAssumption DEF Extent
  <1>3. EndOf(s[k]) = s[k].logical + s[k].blocks
    BY DEF EndOf
  <1>4. QED
    BY <1>2, <1>3

(* Extents that tile lie in the order of the file.                         *)
LEMMA TilesInOrder ==
  ASSUME NEW s \in Seq(Extent), Tiles(s), NEW i \in 1 .. Len(s), NEW j \in 1 .. Len(s), i < j
  PROVE  EndOf(s[i]) <= s[j].logical
  <1> DEFINE I == {k \in i + 1 .. Len(s) : ~(EndOf(s[i]) <= s[k].logical)}
  <1>1. SUFFICES ASSUME I # {} PROVE FALSE
    OBVIOUS
  <1>2. I \in SUBSET Nat /\ Len(s) \in Nat /\ i \in Nat
    OBVIOUS
  <1>3. PICK m \in I : \A k \in I : m <= k
    BY <1>1, <1>2, LeastNumber
  <1>4. m \in i + 1 .. Len(s) /\ ~(EndOf(s[i]) <= s[m].logical) /\ m \in Nat
    BY <1>2
  <1>5. m - 1 \in 1 .. Len(s) - 1 /\ m - 1 \in 1 .. Len(s) /\ m \in 1 .. Len(s) /\ (m - 1) + 1 = m
    BY <1>2, <1>4
  <1>6. s[m].logical = EndOf(s[m - 1])
    BY <1>5 DEF Tiles
  <1>7. EndOf(s[i]) \in Nat /\ EndOf(s[m - 1]) \in Nat /\ s[m - 1].logical \in Nat
        /\ s[m - 1].logical <= EndOf(s[m - 1])
    BY <1>5, ExtentType
  <1>8. CASE m = i + 1
    BY <1>2, <1>4, <1>6, <1>7, <1>8
  <1>9. CASE m # i + 1
    <2>1. m - 1 \in i + 1 .. Len(s) /\ m - 1 \notin I
      BY <1>2, <1>3, <1>4, <1>9
    <2>2. EndOf(s[i]) <= s[m - 1].logical
      BY <2>1
    <2>3. QED
      BY <1>4, <1>6, <1>7, <2>2
  <1>10. QED
    BY <1>8, <1>9

(* One of them holds every block up to their end, and only one.            *)
LEMMA BlockIsHeld ==
  ASSUME NEW s \in Seq(Extent), Tiles(s), NEW b \in 0 .. NextBlock(s) - 1
  PROVE  \E k \in 1 .. Len(s) : Holds(s, k, b)
  <1> DEFINE I == {k \in 1 .. Len(s) : b < EndOf(s[k])}
  <1>1. s # <<>> /\ b \in Nat /\ Len(s) \in 1 .. Len(s) /\ b < EndOf(s[Len(s)])
    <2>1. NextBlock(s) \in Nat /\ b \in Nat /\ b < NextBlock(s)
      BY NextBlockIsNat
    <2>2. s # <<>>
      BY <2>1 DEF NextBlock
    <2>3. QED
      BY <2>1, <2>2 DEF NextBlock
  <1>2. I \in SUBSET Nat /\ Len(s) \in I
    BY <1>1
  <1>3. PICK m \in I : \A k \in I : m <= k
    BY <1>2, LeastNumber
  <1>4. m \in 1 .. Len(s) /\ b < EndOf(s[m])
    OBVIOUS
  <1>5. s[m].logical <= b
    <2>1. CASE m = 1
      BY <1>1, <2>1 DEF Tiles
    <2>2. CASE m # 1
      <3>1. m - 1 \in 1 .. Len(s) - 1 /\ m - 1 \in 1 .. Len(s) /\ (m - 1) + 1 = m /\ ~(m <= m - 1)
        BY <1>4, <2>2
      <3>2. ~(b < EndOf(s[m - 1])) /\ EndOf(s[m - 1]) \in Nat
        BY <1>3, <3>1, ExtentType
      <3>3. s[m].logical = EndOf(s[m - 1])
        BY <3>1 DEF Tiles
      <3>4. QED
        BY <1>1, <3>2, <3>3
    <2>3. QED
      BY <2>1, <2>2
  <1>6. QED
    BY <1>4, <1>5 DEF Holds

LEMMA ResolveIs ==
  ASSUME NEW s \in Seq(Extent), Tiles(s), NEW k, NEW b \in Nat, Holds(s, k, b)
  PROVE  Resolve(s, b) = IF s[k].sparse THEN 0 ELSE s[k].physical + (b - s[k].logical)
  <1> DEFINE j == CHOOSE i \in 1 .. Len(s) : s[i].logical <= b /\ b < EndOf(s[i])
  <1>1. k \in 1 .. Len(s) /\ s[k].logical <= b /\ b < EndOf(s[k])
    BY DEF Holds
  <1>2. j \in 1 .. Len(s) /\ s[j].logical <= b /\ b < EndOf(s[j])
    BY <1>1
  <1>3. Resolve(s, b) = IF s[j].sparse THEN 0 ELSE s[j].physical + (b - s[j].logical)
    BY DEF Resolve
  <1> HIDE DEF j
  <1>4. /\ s[k].logical \in Nat /\ EndOf(s[k]) \in Nat
        /\ s[j].logical \in Nat /\ EndOf(s[j]) \in Nat
    BY <1>1, <1>2, ExtentType
  <1>5. ~(j < k)
    <2>1. j < k => EndOf(s[j]) <= s[k].logical
      BY <1>1, <1>2, TilesInOrder
    <2>2. QED
      BY <1>1, <1>2, <1>4, <2>1
  <1>6. ~(k < j)
    <2>1. k < j => EndOf(s[k]) <= s[j].logical
      BY <1>1, <1>2, TilesInOrder
    <2>2. QED
      BY <1>1, <1>2, <1>4, <2>1
  <1>7. j = k
    BY <1>1, <1>2, <1>5, <1>6
  <1>8. QED
    BY <1>3, <1>7

(* What is added behind the extents, or to the end of a hole, leaves every *)
(* block where it was.                                                     *)
LEMMA MapIsKept ==
  ASSUME NEW s \in Seq(Extent), NEW t \in Seq(Extent), Tiles(s), Tiles(t), Len(s) <= Len(t),
         \A k \in 1 .. Len(s) :
           /\ t[k].logical = s[k].logical /\ EndOf(s[k]) <= EndOf(t[k])
           /\ t[k].sparse = s[k].sparse
           /\ s[k].sparse \/ t[k].physical = s[k].physical,
         NEW b \in 0 .. NextBlock(s) - 1
  PROVE  Resolve(t, b) = Resolve(s, b)
  <1>1. b \in Nat
    BY NextBlockIsNat
  <1>2. PICK k \in 1 .. Len(s) : Holds(s, k, b)
    BY BlockIsHeld
  <1>3. k \in 1 .. Len(t) /\ EndOf(s[k]) \in Nat /\ EndOf(t[k]) \in Nat
    BY ExtentType
  <1>4. Holds(t, k, b)
    BY <1>1, <1>2, <1>3 DEF Holds
  <1>5. /\ Resolve(s, b) = IF s[k].sparse THEN 0 ELSE s[k].physical + (b - s[k].logical)
        /\ Resolve(t, b) = IF t[k].sparse THEN 0 ELSE t[k].physical + (b - t[k].logical)
    BY <1>1, <1>2, <1>4, ResolveIs
  <1>6. QED
    BY <1>5

MapState ==
  IF ~HasMap \/ pc = "error" THEN "failed" ELSE IF pc = "done" THEN "complete" ELSE "reading"

LEMMA LengthOfMap ==
  ASSUME TypeOK, HasMap
  PROVE  /\ NextBlock(array) \in Nat
         /\ DOMAIN ResolvedMap = 0 .. NextBlock(array) - 1
         /\ File!Length = NextBlock(array)
  <1>1. NextBlock(array) \in Nat
    BY NextBlockIsNat DEF TypeOK
  <1>2. DOMAIN ResolvedMap = 0 .. NextBlock(array) - 1
    BY DEF ResolvedMap
  <1> DEFINE n == NextBlock(array)
  <1> HIDE DEF n
  <1>3. n \in Nat => Cardinality(0 .. n - 1) = n
    <2>1. SUFFICES ASSUME n \in Nat PROVE Cardinality(0 .. n - 1) = n
      OBVIOUS
    <2>2. CASE n = 0
      <3>1. 0 .. n - 1 = {}
        BY <2>2
      <3>2. QED
        BY <2>2, <3>1, FS_EmptySet
    <2>3. CASE n # 0
      <3>1. 0 \in Int /\ n - 1 \in Int /\ ~(0 > n - 1) /\ (n - 1) - 0 + 1 = n
        BY <2>1, <2>3
      <3>2. QED
        BY <3>1, FS_Interval
    <2>4. QED
      BY <2>2, <2>3
  <1>4. File!Length = Cardinality(DOMAIN ResolvedMap)
    BY Zenon DEF File!Length, File!Cardinality, Cardinality
  <1>5. Cardinality(DOMAIN ResolvedMap) = n
    BY <1>1, <1>2, <1>3 DEF n
  <1>6. QED
    BY <1>1, <1>2, <1>4, <1>5 DEF n

(* A record adds its hole and its blocks to the map.                       *)
LEMMA RecordExtends ==
  ASSUME IInv, IInv', NEW e \in Record, ReadRecord(e), HasMap, HasMap'
  PROVE  LET gap == e.logical - NextBlock(array)
         IN  gap \in 0 .. Limit - 1 /\ File!Extend(gap, e.blocks, e.physical, ~e.sparse)
  <1> DEFINE N == NextBlock(array)
             gap == e.logical - N
             t == array'
  <1> USE DEF IInv
  <1>1. /\ pc = "loop" /\ pc' = "loop" /\ numberOfBlocks' = numberOfBlocks
        /\ addSparse' = addSparse /\ records' = Append(records, e)
    BY DEF ReadRecord, fork
  <1>2. /\ array \in Seq(Extent) /\ t \in Seq(Extent) /\ records \in Seq(Record)
        /\ e \in Extent /\ e.logical \in Nat /\ N \in Nat /\ logical = N
    BY <1>1, RecordIsExtent, NextBlockIsNat, ExtentsAssumption DEF TypeOK, Record, LogicalIsEnd
  <1>3. records' # <<>>
    BY <1>1, <1>2
  <1>4. addSparse /\ InOrder(Append(records, e)) /\ InOrder(records)
    BY <1>1, <1>3 DEF HasMap
  <1>5. N <= e.logical /\ e.logical - N < Limit
    <2>1. N = NextBlock(records)
      BY <1>1 DEF LastIsRecord, NextBlock
    <2>2. QED
      BY <1>2, <1>4, <2>1, PrefixInOrder
  <1>6. Tiles(array) /\ Tiles(t)
    BY <1>1, <1>4 DEF Tiling
  <1>7. gap \in 0 .. Limit - 1 /\ gap \in Nat /\ N + gap = e.logical
    BY <1>2, <1>5, ExtentsAssumption
  <1> DEFINE h == Hole(N, gap)
  <1>8. h \in Extent /\ h.sparse /\ h.logical = N /\ EndOf(h) = e.logical
    BY <1>2, <1>5, <1>7, HoleFacts
  <1>9. t = IF gap > 0 THEN array \o <<h, e>> ELSE Append(array, e)
    BY <1>2, <1>4, <1>7 DEF ReadRecord
  <1> HIDE DEF h, t, N, gap
  <1>10. /\ Len(array) \in Nat /\ Len(array) < Len(t) /\ Len(t) \in 1 .. Len(t)
         /\ \A k \in 1 .. Len(array) : t[k] = array[k]
         /\ t[Len(t)] = e
         /\ gap > 0 => Len(array) + 1 \in 1 .. Len(t) /\ t[Len(array) + 1] = h
         /\ t # <<>>
    <2>1. CASE gap > 0
      BY <1>2, <1>8, <1>9, <2>1
    <2>2. CASE ~(gap > 0)
      BY <1>2, <1>9, <2>2
    <2>3. QED
      BY <2>1, <2>2
  <1>11. /\ e.blocks \in Nat /\ e.physical \in Nat /\ e.sparse \in BOOLEAN
         /\ EndOf(e) = e.logical + e.blocks
         /\ NextBlock(t) = EndOf(e)
    BY <1>2, <1>10, ExtentsAssumption DEF Extent, EndOf, NextBlock
  <1>12. NextBlock(t) = N + gap + e.blocks
    BY <1>2, <1>7, <1>11
  <1>13. ASSUME NEW b \in 0 .. N - 1 PROVE Resolve(t, b) = Resolve(array, b)
    <2>1. \A k \in 1 .. Len(array) : EndOf(array[k]) <= EndOf(array[k])
      BY <1>2, ExtentType
    <2>2. /\ Len(array) <= Len(t) /\ b \in 0 .. NextBlock(array) - 1
          /\ array \in Seq(Extent) /\ t \in Seq(Extent)
      BY <1>2, <1>10, <1>13 DEF N
    <2>3. QED
      BY <1>6, <1>10, <2>1, <2>2, MapIsKept
  <1>14. ASSUME NEW b \in Nat, N <= b, b < N + gap PROVE Resolve(t, b) = 0
    <2>1. gap > 0
      BY <1>2, <1>7, <1>14
    <2>2. Holds(t, Len(array) + 1, b)
      BY <1>7, <1>8, <1>10, <1>14, <2>1 DEF Holds
    <2>3. QED
      BY <1>2, <1>6, <1>8, <1>10, <2>1, <2>2, ResolveIs
  <1>15. ASSUME NEW b \in Nat, N + gap <= b, b < N + gap + e.blocks
         PROVE  Resolve(t, b) = IF ~e.sparse THEN e.physical + (b - N - gap) ELSE 0
    <2>1. Holds(t, Len(t), b)
      BY <1>2, <1>7, <1>10, <1>11, <1>15 DEF Holds
    <2>2. b - e.logical = b - N - gap
      BY <1>2, <1>7
    <2>3. QED
      BY <1>2, <1>6, <1>10, <2>1, <2>2, ResolveIs
  <1>16. ResolvedMap = [b \in 0 .. N - 1 |-> Resolve(array, b)]
         /\ ResolvedMap' = [b \in 0 .. N + gap + e.blocks - 1 |-> Resolve(t, b)]
    <2>1. ResolvedMap = [b \in 0 .. N - 1 |-> Resolve(array, b)]
      BY DEF ResolvedMap, N
    <2>2. ResolvedMap' = [b \in 0 .. NextBlock(t) - 1 |-> Resolve(t, b)]
      BY DEF ResolvedMap, t
    <2>3. 0 .. NextBlock(t) - 1 = 0 .. N + gap + e.blocks - 1
      BY <1>2, <1>7, <1>11, <1>12
    <2>4. QED
      BY <2>1, <2>2, <2>3, Zenon
  <1>17. ASSUME NEW b \in 0 .. N + gap + e.blocks - 1
         PROVE  Resolve(t, b) = IF b < N THEN ResolvedMap[b]
                                ELSE IF b < N + gap \/ ~~e.sparse THEN 0
                                ELSE e.physical + (b - N - gap)
    <2>1. b \in Nat /\ b < N + gap + e.blocks
      BY <1>2, <1>7, <1>11
    <2>2. CASE b < N
      <3>1. b \in 0 .. N - 1
        BY <1>2, <2>1, <2>2
      <3>2. QED
        BY <1>13, <1>16, <2>2, <3>1
    <2>3. CASE ~(b < N) /\ b < N + gap
      BY <1>2, <1>14, <2>1, <2>3
    <2>4. CASE ~(b < N) /\ ~(b < N + gap)
      BY <1>2, <1>7, <1>11, <1>15, <2>1, <2>4
    <2>5. QED
      BY <2>2, <2>3, <2>4
  <1>18. ResolvedMap' = [b \in 0 .. N + gap + e.blocks - 1 |->
                           IF b < N THEN ResolvedMap[b]
                           ELSE IF b < N + gap \/ ~~e.sparse THEN 0
                           ELSE e.physical + (b - N - gap)]
    BY <1>16, <1>17
  <1>19. File!Length = N
    BY LengthOfMap DEF N
  <1>20. MapState = "reading" /\ MapState' = "reading"
    BY <1>1 DEF MapState
  <1>21. File!Extend(gap, e.blocks, e.physical, ~e.sparse)
    BY <1>1, <1>18, <1>19, <1>20 DEF File!Extend, MapState
  <1>22. QED
    BY <1>7, <1>21 DEF gap, N

(* The end of the file is a hole.                                          *)
LEMMA TailCompletes ==
  ASSUME IInv, TypeOK', Finish, HasMap, HasMap'
  PROVE  File!Complete
  <1> DEFINE N == NextBlock(array)
             M == IF N < numberOfBlocks THEN numberOfBlocks ELSE N
             t == array'
  <1> USE DEF IInv
  <1>1. /\ pc = "leaf" /\ pc' = "done" /\ t = WithTail(array)
        /\ UNCHANGED <<numberOfBlocks, addSparse, records>>
    BY DEF Finish, fork
  <1>2. addSparse /\ InOrder(records) /\ TailFits
    BY <1>1 DEF HasMap, TailFits
  <1>3. /\ array \in Seq(Extent) /\ t \in Seq(Extent)
        /\ numberOfBlocks \in Nat /\ N \in Nat /\ M \in Nat
    BY NextBlockIsNat DEF TypeOK
  <1>4. Tiles(array) /\ Tiles(t) /\ NextBlock(t) = M
    BY <1>1, <1>2, TailCovers DEF Tiling
  <1> HIDE DEF t
  <1>5. /\ Len(array) <= Len(t)
        /\ \A k \in 1 .. Len(array) :
             /\ t[k].logical = array[k].logical /\ EndOf(array[k]) <= EndOf(t[k])
             /\ t[k].sparse = array[k].sparse
             /\ array[k].sparse \/ t[k].physical = array[k].physical
        /\ M > N => t[Len(t)].sparse /\ t[Len(t)].logical <= N /\ Len(t) \in 1 .. Len(t)
    <2>0. \A k \in 1 .. Len(array) : EndOf(array[k]) \in Nat /\ EndOf(array[k]) <= EndOf(array[k])
      BY <1>3, ExtentType
    <2>1. CASE TailKept
      <3>1. t = array /\ M = N
        BY <1>1, <1>2, <1>3, <2>1 DEF TailKept
      <3>2. QED
        BY <1>3, <2>0, <3>1
    <2>2. CASE TailLengthened
      <3> DEFINE n == Len(array)
      <3>1. /\ n \in 1 .. n /\ n \in Nat /\ Len(t) = n /\ array # <<>>
            /\ \A k \in 1 .. n - 1 : t[k] = array[k]
            /\ t[n].logical = array[n].logical /\ array[n].sparse /\ t[n].sparse
        BY <1>1, <1>3, <2>2 DEF TailLengthened
      <3>2. EndOf(array[n]) = N /\ EndOf(t[n]) = M
        BY <1>4, <3>1, <1>3 DEF NextBlock
      <3>3. array[n].logical <= N
        BY <1>3, <3>1, <3>2, ExtentType
      <3>4. ASSUME NEW k \in 1 .. n
            PROVE  /\ t[k].logical = array[k].logical /\ EndOf(array[k]) <= EndOf(t[k])
                   /\ t[k].sparse = array[k].sparse
                   /\ array[k].sparse \/ t[k].physical = array[k].physical
        <4>1. CASE k = n
          <5>1. N <= M
            BY <1>3
          <5>2. EndOf(array[n]) <= EndOf(t[n])
            BY <3>2, <5>1
          <5> HIDE DEF n
          <5>3. QED
            BY <3>1, <4>1, <5>2
        <4>2. CASE k # n
          <5>1. k \in 1 .. n - 1
            BY <3>1, <4>2
          <5>2. t[k] = array[k]
            BY <3>1, <5>1
          <5>3. QED
            BY <2>0, <5>2
        <4>3. QED
          BY <4>1, <4>2
      <3>5. QED
        BY <3>1, <3>3, <3>4
    <2>3. CASE TailAppended
      <3> DEFINE h == Hole(N, numberOfBlocks - N)
      <3>1. h.sparse /\ h.logical = N /\ t = Append(array, h)
        BY <1>1, <1>3, <2>3, HoleFacts DEF TailAppended
      <3> HIDE DEF h
      <3>2. /\ Len(t) = Len(array) + 1 /\ t[Len(t)] = h /\ Len(array) \in Nat
            /\ \A k \in 1 .. Len(array) : t[k] = array[k]
        BY <1>3, <3>1
      <3>3. QED
        BY <1>3, <2>0, <3>1, <3>2
    <2>4. QED
      BY <2>1, <2>2, <2>3, TailCases
  <1>6. ASSUME NEW b \in 0 .. M - 1
        PROVE  Resolve(t, b) = IF b < N THEN Resolve(array, b) ELSE 0
    <2>1. b \in Nat /\ b < M
      BY <1>3
    <2>2. CASE b < N
      <3>1. b \in 0 .. NextBlock(array) - 1
        BY <1>3, <2>1, <2>2
      <3>2. QED
        BY <1>3, <1>4, <1>5, <2>2, <3>1, MapIsKept
    <2>3. CASE ~(b < N)
      <3>1. M > N
        BY <1>3, <2>1, <2>3
      <3>2. t # <<>> /\ EndOf(t[Len(t)]) = M
        BY <1>3, <1>4, <1>5, <3>1 DEF NextBlock
      <3>3. t[Len(t)].logical \in Nat
        BY <1>3, <1>5, <3>1, ExtentType
      <3>4. Holds(t, Len(t), b)
        BY <1>3, <1>5, <2>1, <2>3, <3>1, <3>2, <3>3 DEF Holds
      <3>5. QED
        BY <1>3, <1>4, <1>5, <2>1, <2>3, <3>1, <3>4, ResolveIs
    <2>4. QED
      BY <2>2, <2>3
  <1>7. ResolvedMap = [b \in 0 .. N - 1 |-> Resolve(array, b)]
    BY DEF ResolvedMap
  <1>8. ResolvedMap' = [b \in 0 .. M - 1 |-> Resolve(t, b)]
    BY <1>4 DEF ResolvedMap, t
  <1>9. ASSUME NEW b \in 0 .. M - 1
        PROVE  Resolve(t, b) = IF b < N THEN ResolvedMap[b] ELSE 0
    <2>1. b < N => b \in 0 .. N - 1
      BY <1>3
    <2>2. QED
      BY <1>6, <1>7, <2>1
  <1>10. ResolvedMap' = [b \in 0 .. M - 1 |-> IF b < N THEN ResolvedMap[b] ELSE 0]
    BY <1>8, <1>9
  <1>11. File!Length = N
    BY LengthOfMap
  <1>12. MapState = "reading" /\ MapState' = "complete"
    BY <1>1 DEF MapState
  <1>13. QED
    BY <1>1, <1>10, <1>11, <1>12 DEF File!Complete, MapState

(* A step of the reader is a step of the map or leaves it alone.           *)
LEMMA StepOfMap == IInv /\ IInv' /\ [Next]_vars => [File!Next]_(File!vars)
  <1> SUFFICES ASSUME IInv, IInv', [Next]_vars
               PROVE  File!Next \/ UNCHANGED <<numberOfBlocks, ResolvedMap, MapState>>
    BY DEF File!vars, MapState
  <1> USE DEF IInv
  <1>1. ASSUME ~HasMap, ~HasMap', numberOfBlocks' = numberOfBlocks
        PROVE  UNCHANGED <<numberOfBlocks, ResolvedMap, MapState>>
    BY <1>1 DEF ResolvedMap, MapState
  <1>2. ASSUME HasMap, pc \notin {"done", "error"}, ~HasMap', numberOfBlocks' = numberOfBlocks
        PROVE  File!Next
    <2>1. ResolvedMap' = <<>> /\ MapState = "reading" /\ MapState' = "failed"
      BY <1>2 DEF ResolvedMap, MapState
    <2>2. File!Abandon
      BY <1>2, <2>1 DEF File!Abandon, MapState
    <2>3. QED
      BY <2>2 DEF File!Next
  <1>3. ASSUME UNCHANGED <<fork, array, records>>, pc \notin {"done", "error"},
               pc' \notin {"done", "error"}
        PROVE  UNCHANGED <<numberOfBlocks, ResolvedMap, MapState>>
    <2>1. HasMap' = HasMap
      BY <1>3 DEF HasMap, TailFits, fork
    <2>2. QED
      BY <1>3, <2>1 DEF ResolvedMap, MapState, fork
  <1>4. CASE BeginLeaf \/ EndLeaf
    BY <1>3, <1>4 DEF BeginLeaf, EndLeaf
  <1>5. ASSUME NEW e \in Record, ReadRecord(e)
        PROVE  File!Next \/ UNCHANGED <<numberOfBlocks, ResolvedMap, MapState>>
    <2>1. pc = "loop" /\ pc' = "loop" /\ UNCHANGED fork /\ records' = Append(records, e)
      BY <1>5 DEF ReadRecord
    <2>2. HasMap' => HasMap
      <3>1. records \in Seq(Record)
        BY DEF TypeOK
      <3>2. records' # <<>>
        BY <2>1, <3>1
      <3>3. HasMap' => addSparse /\ InOrder(Append(records, e))
        BY <2>1, <3>2 DEF HasMap, fork
      <3>4. QED
        BY <2>1, <3>1, <3>3, PrefixInOrder DEF HasMap
    <2>3. CASE HasMap /\ HasMap'
      <3> DEFINE gap == e.logical - NextBlock(array)
      <3>1. gap \in 0 .. Limit - 1 /\ File!Extend(gap, e.blocks, e.physical, ~e.sparse)
        BY <1>5, <2>3, RecordExtends
      <3>2. e.blocks \in BlockCounts /\ e.physical \in PhysicalNumbers /\ (~e.sparse) \in BOOLEAN
        BY DEF Record
      <3> HIDE DEF gap
      <3>3. QED
        BY <3>1, <3>2 DEF File!Next
    <2>4. CASE ~HasMap'
      BY <1>1, <1>2, <2>1, <2>4 DEF fork
    <2>5. QED
      BY <2>2, <2>3, <2>4
  <1>6. CASE Finish
    <2>1. pc = "leaf" /\ pc' = "done" /\ UNCHANGED <<fork, records>>
      BY <1>6 DEF Finish
    <2>2. HasMap' => HasMap
      BY <2>1 DEF HasMap, fork
    <2>3. CASE HasMap /\ HasMap'
      BY <1>6, <2>3, TailCompletes DEF File!Next
    <2>4. CASE ~HasMap'
      BY <1>1, <1>2, <2>1, <2>4 DEF fork
    <2>5. QED
      BY <2>2, <2>3, <2>4
  <1>7. CASE Fail
    <2>1. /\ pc = "leaf" /\ pc' = "error" /\ UNCHANGED <<fork, records>>
          /\ array' = <<>>
      BY <1>7 DEF Fail
    <2>2. HasMap' = HasMap
      BY <2>1 DEF HasMap, fork
    <2>3. ResolvedMap' = <<>> /\ MapState' = "failed"
      <3>1. NextBlock(array') = 0
        BY <2>1 DEF NextBlock
      <3>2. QED
        BY <2>1, <3>1 DEF ResolvedMap, MapState
    <2>4. CASE HasMap
      <3>1. File!Abandon
        BY <2>1, <2>3, <2>4 DEF File!Abandon, MapState, fork
      <3>2. QED
        BY <3>1 DEF File!Next
    <2>5. CASE ~HasMap
      BY <1>1, <2>1, <2>2, <2>5 DEF fork
    <2>6. QED
      BY <2>4, <2>5
  <1>8. CASE Ended \/ UNCHANGED vars
    <2>1. UNCHANGED vars
      BY <1>8 DEF Ended
    <2>2. QED
      BY <2>1 DEF vars, ResolvedMap, MapState, HasMap, TailFits, NextBlock
  <1>9. QED
    BY <1>4, <1>5, <1>6, <1>7, <1>8 DEF Next

(* The extents reader implements the map of a file: an image in order      *)
(* gives a map that every record extends by its hole and its blocks and    *)
(* the end completes to the size of the file, whatever the lengths.        *)
THEOREM ReaderImplementsMap == Spec => ImplementsFile
  <1>1. Init => File!Init
    <2> SUFFICES ASSUME Init PROVE File!Init
      OBVIOUS
    <2>1. /\ array = <<>> /\ records = <<>> /\ pc = "leaf" /\ numberOfBlocks \in Nat
          /\ Len(records) = 0
      BY ExtentsAssumption DEF Init
    <2>2. HasMap
      BY <2>1 DEF HasMap, InOrder, Sorted, HolesFit
    <2>3. NextBlock(array) = 0
      BY <2>1 DEF NextBlock
    <2>4. ResolvedMap = <<>>
      BY <2>2, <2>3 DEF ResolvedMap
    <2>5. QED
      BY <2>1, <2>2, <2>4 DEF File!Init
  <1>2. QED
    BY <1>1, StepOfMap, Safety, PTL DEF Spec, ImplementsFile, File!Spec

(* So does the walk over a list or a tree.                                 *)
THEOREM TreeImplementsMap == TreeSpec => ImplementsFile
  BY TreeImplementsReader, ReaderImplementsMap
------------------------------------------------------------------------------


(* The inode has been made, with a size that fits every header.            *)
Made == {"allocated", "on_error", "failed"} \cup Whole

(* The list of extents was compared with its fork before the attributes    *)
(* fork is looked at.                                                      *)
ListInFork ==
  stage \in {"forked", "read", "ready"} /\ disk.fork = "extents" =>
    disk.extents * RecordBytes <= dataFork.size

(* What the inode may own at each step of the read.                        *)
Owned ==
  /\ stage \in {"closed", "open", "released"} => allocated = {}
  /\ stage \in {"allocated", "decoded"} => allocated = {"data"}
  /\ stage = "forked" => allocated \subseteq {"data", "extents"}
  /\ stage \in {"read", "ready"} => allocated \subseteq {"data", "extents", "attributes"}
  /\ stage = "failed" => allocated \subseteq {"data"}

InodeInv ==
  /\ InodeTypeOK
  /\ stage \in Made => geometry.inode \in InodeSizes
  /\ ForksPartition
  /\ ListInFork
  /\ Owned

(* A product of naturals is bounded by what it was divided out of: this is *)
(* how the checks of the library compare without an overflow.              *)
LEMMA Quotient ==
  ASSUME NEW n \in Nat, NEW k \in Nat \ {0}, NEW m \in Nat, n <= m \div k
  PROVE  n * k <= m
  <1> DEFINE q == m \div k
  <1>1. q \in Nat /\ q * k <= m
    BY SMT
  <1>2. n * k <= q * k
    <2>1. n <= q
      OBVIOUS
    <2>2. PICK d \in Nat : q = n + d
      BY <1>1, <2>1, SMT
    <2>3. q * k = n * k + d * k
      BY <2>2, SMT
    <2>4. d * k >= 0
      BY SMT
    <2> HIDE DEF q
    <2> QED
      BY <1>1, <2>3, <2>4, SMT
  <1> HIDE DEF q
  <1> QED
    BY <1>1, <1>2, SMT

(* A multiple leaves no remainder.                                         *)
LEMMA Multiple ==
  ASSUME NEW n \in Nat, NEW k \in Nat \ {0}
  PROVE  (n * k) % k = 0
  BY SMT

(* A directory block is a number of blocks that fits a word, or refused.   *)
LEMMA DirectoryBlockFits ==
  ASSUME NEW sb \in Superblock
  PROVE  /\ DirectoryBlock(sb) \in Nat
         /\ SizesAccepted(sb) => DirectoryBlock(sb) < 2 ^ WordBits
         /\ SizesAccepted(sb) => DirectoryBlock(sb) % sb.block = 0
  <1> DEFINE p == 2 ^ sb.directoryLog
             w == 2 ^ WordBits
  <1>1. sb.block \in Nat /\ sb.directoryLog \in Nat
    BY DEF Superblock
  <1>2. w \in Nat \ {0} /\ 65536 < w
    BY InodeAssumption
  <1>3. SizesAccepted(sb) => 512 <= sb.block /\ sb.block <= 65536
    BY DEF SizesAccepted
  <1>4. CASE sb.directoryLog = 0
    <2>1. DirectoryBlock(sb) = sb.block
      BY <1>4 DEF DirectoryBlock
    <2>2. SizesAccepted(sb) => sb.block < w
      BY <1>1, <1>2, <1>3
    <2>3. SizesAccepted(sb) => sb.block % sb.block = 0
      BY <1>1, <1>3
    <2> QED
      BY <1>1, <2>1, <2>2, <2>3
  <1>5. CASE sb.directoryLog # 0 /\ (sb.directoryLog >= WordBits \/ p > (w - 1) \div sb.block)
    <2>1. DirectoryBlock(sb) = 0
      BY <1>5 DEF DirectoryBlock
    <2>2. SizesAccepted(sb) => 0 % sb.block = 0
      BY <1>1, <1>3
    <2> QED
      BY <1>2, <2>1, <2>2
  <1>6. CASE sb.directoryLog # 0 /\ ~(sb.directoryLog >= WordBits \/ p > (w - 1) \div sb.block)
    <2>1. DirectoryBlock(sb) = p * sb.block
      BY <1>6 DEF DirectoryBlock
    <2>2. p \in Nat
      BY <1>1, <1>6, InodeAssumption
    <2>3. p * sb.block \in Nat
      <3> HIDE DEF p
      <3> QED
        BY <1>1, <2>2
    <2>4. ASSUME SizesAccepted(sb) PROVE p * sb.block < w
      <3>1. sb.block \in Nat \ {0} /\ w - 1 \in Nat
        BY <1>1, <1>2, <1>3, <2>4
      <3>2. (w - 1) \div sb.block \in Int
        <4> HIDE DEF w
        <4> QED
          BY <3>1, <1>2
      <3>3. p <= (w - 1) \div sb.block
        <4> HIDE DEF p, w
        <4> QED
          BY <1>6, <2>2, <3>2
      <3>4. p * sb.block <= w - 1
        BY <2>2, <3>1, <3>3, Quotient
      <3> HIDE DEF p, w
      <3> QED
        BY <1>2, <2>3, <3>4
    <2>5. ASSUME SizesAccepted(sb) PROVE (p * sb.block) % sb.block = 0
      <3>1. sb.block \in Nat \ {0}
        BY <1>1, <1>3, <2>5
      <3> HIDE DEF p
      <3> QED
        BY <2>2, <3>1, Multiple
    <2> QED
      BY <2>1, <2>3, <2>4, <2>5
  <1> QED
    BY <1>4, <1>5, <1>6

(* What the disk holds is read into fields of known types.                 *)
LEMMA DiskTyped == InodeTypeOK => disk \in Stored /\ image.superblock \in Superblock
  <1>1. InodeTypeOK => image \in [superblock : Superblock, inode : Stored]
    BY InodeAssumption DEF InodeTypeOK
  <1> QED
    BY <1>1 DEF disk

(* Header, forks and inode, from the two checks of the read.               *)
LEMMA Partition ==
  ASSUME InodeTypeOK, geometry.inode \in InodeSizes, Decodable
  PROVE  /\ SplitDataFork \in [offset : Nat, size : Nat]
         /\ SplitAttributesFork \in [offset : Nat, size : Nat]
         /\ SplitDataFork.offset = Header
         /\ SplitDataFork.size >= 4
         /\ SplitDataFork.offset + SplitDataFork.size <= geometry.inode
         /\ SplitAttributesFork.size > 0 =>
              /\ SplitAttributesFork.offset = SplitDataFork.offset + SplitDataFork.size
              /\ SplitAttributesFork.offset + SplitAttributesFork.size = geometry.inode
         /\ SplitAttributesFork.size = 0 =>
              SplitDataFork.offset + SplitDataFork.size = geometry.inode
  <1>1. disk.forkOffset \in 0 .. 255
    BY DiskTyped DEF Stored
  <1>2. /\ Header \in Nat /\ geometry.inode \in Nat
        /\ geometry.inode - Header >= 8
    BY InodeAssumption DEF InodeTypeOK, Header
  <1>3. Split \in Nat /\ (Split = 0 \/ Split >= 8)
    BY <1>1 DEF Split
  <1>4. Room \in Nat /\ Room >= 8 /\ Room = geometry.inode - Header
    BY <1>2 DEF Room
  <1>5. Split = 0 \/ Split < Room
    BY DEF Decodable, SplitAccepted
  <1>6. CASE Split = 0
    BY <1>2, <1>3, <1>4, <1>6 DEF SplitDataFork, SplitAttributesFork, NoFork
  <1>7. CASE Split > 0
    BY <1>2, <1>3, <1>4, <1>5, <1>7 DEF SplitDataFork, SplitAttributesFork
  <1> QED
    BY <1>3, <1>6, <1>7

(* A getter changes nothing of the inode.                                  *)
LEMMA AskTells == Ask => UNCHANGED <<image, stage, geometry, dataFork, attributes, stamps, allocated>>
  BY DEF Ask, GetCreationTime, GetModificationTime, GetAccessTime, GetInodeChangeTime,
    GetFileMode, GetNumberOfLinks, GetOwnerIdentifier, GetGroupIdentifier, GetDeviceIdentifier,
    GetDeviceNumber, GetNameSize, GetName, GetSize, GetOffset, GetNumberOfExtents, TellIf, Tell

LEMMA InitInductive == InodeInit => InodeInv
  <1> SUFFICES ASSUME InodeInit PROVE InodeInv
    OBVIOUS
  <1>1. InodeTypeOK
    BY DEF InodeInit, InodeTypeOK, NoGeometry, NoFork
  <1> QED
    BY <1>1 DEF InodeInit, InodeInv, Made, Whole, ForksPartition, ListInFork, Owned

LEMMA TypeStep == InodeInv /\ [InodeNext]_inodeVars => InodeTypeOK'
  <1> SUFFICES ASSUME InodeInv, [InodeNext]_inodeVars PROVE InodeTypeOK'
    OBVIOUS
  <1> USE DEF InodeInv
  <1>1. CASE ReadSuperblock
    <2>1. image.superblock \in Superblock
      BY DiskTyped
    <2>2. CASE Accepted(image.superblock)
      <3> DEFINE sb == image.superblock
      <3>1. /\ sb.block \in Nat /\ sb.inode \in Nat /\ sb.groupLog \in Nat
            /\ sb.inodesLog \in Nat /\ sb.directoryLog \in Nat
        BY <2>1 DEF Superblock
      <3>3. DirectoryBlock(sb) \in Nat
        BY <2>1, DirectoryBlockFits
      <3>4. GeometryOf(sb) \in [block : Nat, inode : Nat, directory : Nat, blockBits : Nat, inodeBits : Nat]
        BY <3>1, <3>3 DEF GeometryOf
      <3> QED
        BY <1>1, <2>2, <3>4 DEF ReadSuperblock, InodeTypeOK
    <2>3. CASE ~Accepted(image.superblock)
      BY <1>1, <2>3 DEF ReadSuperblock, InodeTypeOK
    <2> QED
      BY <2>2, <2>3
  <1>2. CASE Initialize
    BY <1>2 DEF Initialize, InodeTypeOK
  <1>3. CASE ReadData
    <2>1. geometry.inode \in InodeSizes
      BY <1>3 DEF ReadData, Made
    <2>2. dataFork' \in [offset : Nat, size : Nat] /\ attributes' \in [offset : Nat, size : Nat]
      BY <1>3, <2>1, Partition DEF ReadData
    <2>3. stamps' \in [Stamps -> Int]
      <3>1. \A s \in Stamps : disk.times[s] \in Int \X (0 .. Second - 1)
        BY DiskTyped DEF Stored
      <3>2. \A s \in Stamps : Nanoseconds(disk.times[s]) \in Int
        BY <3>1, InodeAssumption DEF Nanoseconds
      <3> QED
        BY <1>3, <3>2 DEF ReadData, DecodedStamps
    <2> QED
      BY <1>3, <2>2, <2>3 DEF ReadData, InodeTypeOK, Whole
  <1>4. CASE \E whole \in BOOLEAN : ReadDataFork(whole)
    BY <1>4 DEF ReadDataFork, InodeTypeOK, Whole
  <1>5. CASE \E whole \in BOOLEAN : ReadAttributesFork(whole)
    BY <1>5 DEF ReadAttributesFork, InodeTypeOK, Whole
  <1>6. CASE OnError
    BY <1>6 DEF OnError, InodeTypeOK
  <1>7. CASE ReadDataFails
    BY <1>7 DEF ReadDataFails, InodeTypeOK
  <1>8. CASE InitializeEntry
    BY <1>8 DEF InitializeEntry, InodeTypeOK, Whole
  <1>9. CASE Free
    BY <1>9 DEF Free, InodeTypeOK
  <1>10. CASE Ask
    BY <1>10, AskTells DEF InodeTypeOK
  <1>11. CASE Released \/ UNCHANGED inodeVars
    BY <1>11 DEF Released, inodeVars, InodeTypeOK
  <1> QED
    BY <1>1, <1>2, <1>3, <1>4, <1>5, <1>6, <1>7, <1>8, <1>9, <1>10, <1>11 DEF InodeNext

LEMMA ForksStep == InodeInv /\ [InodeNext]_inodeVars => ForksPartition' /\ ListInFork'
  <1> SUFFICES ASSUME InodeInv, [InodeNext]_inodeVars PROVE ForksPartition' /\ ListInFork'
    OBVIOUS
  <1> USE DEF InodeInv, Whole
  <1>1. CASE ReadSuperblock
    BY <1>1 DEF ReadSuperblock, ForksPartition, ListInFork
  <1>2. CASE Initialize
    BY <1>2 DEF Initialize, ForksPartition, ListInFork
  <1>3. CASE ReadData
    <2>1. geometry.inode \in InodeSizes /\ Decodable
      BY <1>3 DEF ReadData, Made
    <2>2. dataFork' = SplitDataFork /\ attributes' = SplitAttributesFork /\ stage' = "decoded"
          /\ UNCHANGED <<image, geometry>>
      BY <1>3 DEF ReadData
    <2>3. disk' = disk /\ Header' = Header
      BY <2>2 DEF disk, Header
    <2>4. disk.fork = "inline" => disk.size <= SplitDataFork.size
      BY <2>1 DEF Decodable
    <2> QED
      BY <2>1, <2>2, <2>3, <2>4, Partition DEF ForksPartition, ListInFork
  <1>4. CASE \E whole \in BOOLEAN : ReadDataFork(whole)
    <2>1. PICK whole \in BOOLEAN : ReadDataFork(whole)
      BY <1>4
    <2>2. /\ stage = "decoded" /\ stage' \in {"forked", "on_error"}
          /\ UNCHANGED <<image, geometry, dataFork, attributes>>
      BY <2>1 DEF ReadDataFork
    <2>3. disk' = disk /\ Header' = Header
      BY <2>2 DEF disk, Header
    <2>4. stage' = "forked" /\ disk.fork = "extents" => disk.extents * RecordBytes <= dataFork.size
      <3>1. SUFFICES ASSUME stage' = "forked", disk.fork = "extents"
                     PROVE  disk.extents * RecordBytes <= dataFork.size
        OBVIOUS
      <3>2. disk.extents \in Nat /\ dataFork.size \in Nat
        BY DiskTyped DEF InodeTypeOK, Stored
      <3>3. disk.extents <= dataFork.size \div RecordBytes
        BY <2>1, <3>1 DEF ReadDataFork, ListFits
      <3> QED
        BY <3>2, <3>3, InodeAssumption, Quotient
    <2> QED
      BY <2>2, <2>3, <2>4 DEF ForksPartition, ListInFork
  <1>5. CASE \E whole \in BOOLEAN : ReadAttributesFork(whole)
    <2>2. /\ stage = "forked" /\ stage' \in {"read", "on_error"}
          /\ UNCHANGED <<image, geometry, dataFork, attributes>>
      BY <1>5 DEF ReadAttributesFork
    <2>3. disk' = disk /\ Header' = Header
      BY <2>2 DEF disk, Header
    <2> QED
      BY <2>2, <2>3 DEF ForksPartition, ListInFork
  <1>6. CASE OnError \/ ReadDataFails \/ Free
    BY <1>6 DEF OnError, ReadDataFails, Free, ForksPartition, ListInFork
  <1>8. CASE InitializeEntry
    <2>1. /\ stage = "read" /\ stage' = "ready" /\ UNCHANGED <<image, geometry, dataFork, attributes>>
      BY <1>8 DEF InitializeEntry
    <2>2. disk' = disk /\ Header' = Header
      BY <2>1 DEF disk, Header
    <2> QED
      BY <2>1, <2>2 DEF ForksPartition, ListInFork
  <1>10. CASE Ask \/ Released \/ UNCHANGED inodeVars
    <2>1. UNCHANGED <<image, stage, geometry, dataFork, attributes>>
      BY <1>10, AskTells DEF Released, inodeVars
    <2>2. disk' = disk /\ Header' = Header
      BY <2>1 DEF disk, Header
    <2> QED
      BY <2>1, <2>2 DEF ForksPartition, ListInFork
  <1> QED
    BY <1>1, <1>2, <1>3, <1>4, <1>5, <1>6, <1>8, <1>10 DEF InodeNext

LEMMA OwnedStep == InodeInv /\ [InodeNext]_inodeVars => Owned'
  <1> SUFFICES ASSUME InodeInv, [InodeNext]_inodeVars PROVE Owned'
    OBVIOUS
  <1> USE DEF InodeInv, Owned
  <1>1. CASE ReadSuperblock
    BY <1>1 DEF ReadSuperblock
  <1>2. CASE Initialize
    BY <1>2 DEF Initialize
  <1>3. CASE ReadData
    BY <1>3 DEF ReadData
  <1>4. CASE \E whole \in BOOLEAN : ReadDataFork(whole)
    BY <1>4 DEF ReadDataFork
  <1>5. CASE \E whole \in BOOLEAN : ReadAttributesFork(whole)
    BY <1>5 DEF ReadAttributesFork
  <1>6. CASE OnError
    BY <1>6 DEF OnError, InodeTypeOK
  <1>7. CASE ReadDataFails
    BY <1>7 DEF ReadDataFails
  <1>8. CASE InitializeEntry
    BY <1>8 DEF InitializeEntry
  <1>9. CASE Free
    BY <1>9 DEF Free
  <1>10. CASE Ask \/ Released \/ UNCHANGED inodeVars
    <2>1. UNCHANGED <<stage, allocated>>
      BY <1>10, AskTells DEF Released, inodeVars
    <2> QED
      BY <2>1
  <1> QED
    BY <1>1, <1>2, <1>3, <1>4, <1>5, <1>6, <1>7, <1>8, <1>9, <1>10 DEF InodeNext

LEMMA SizeStep ==
  InodeInv /\ [InodeNext]_inodeVars => (stage \in Made => geometry.inode \in InodeSizes)'
  <1> SUFFICES ASSUME InodeInv, [InodeNext]_inodeVars
               PROVE  (stage \in Made => geometry.inode \in InodeSizes)'
    OBVIOUS
  <1> USE DEF InodeInv, Made, Whole
  <1>1. CASE ReadSuperblock \/ Initialize
    BY <1>1 DEF ReadSuperblock, Initialize
  <1>2. CASE ReadData \/ OnError \/ ReadDataFails \/ InitializeEntry \/ Free
    BY <1>2 DEF ReadData, OnError, ReadDataFails, InitializeEntry, Free
  <1>3. CASE \E whole \in BOOLEAN : ReadDataFork(whole) \/ ReadAttributesFork(whole)
    BY <1>3 DEF ReadDataFork, ReadAttributesFork
  <1>4. CASE Ask \/ Released \/ UNCHANGED inodeVars
    BY <1>4, AskTells DEF Released, inodeVars
  <1> QED
    BY <1>1, <1>2, <1>3, <1>4 DEF InodeNext

(* The inductive invariant: an inode that has been made has a size every   *)
(* header fits, its forks are cut out of it without overlap, and it owns   *)
(* what the steps of the read so far have given it.                        *)
THEOREM InodeSafety == InodeSpec => []InodeInv
  <1>1. InodeInv /\ [InodeNext]_inodeVars => InodeInv'
    BY TypeStep, ForksStep, OwnedStep, SizeStep DEF InodeInv
  <1> QED
    BY <1>1, InitInductive, PTL DEF InodeSpec

(* Every value stays in its type, whatever superblock and inode the disk   *)
(* holds: sizes that are taken from one another never become negative.     *)
THEOREM InodeTypeCorrect == InodeSpec => []InodeTypeOK
  BY InodeSafety, PTL DEF InodeInv

(* Header, data fork and attributes fork partition every inode that was    *)
(* read, and the data fork holds what a caller is given from it.           *)
THEOREM ForksAreApart == InodeSpec => []ForksPartition
  BY InodeSafety, PTL DEF InodeInv

(* Whatever fork is damaged, an inode that could not be read keeps none of *)
(* the extents of the other, and a freed one keeps nothing.                *)
THEOREM AllIsGivenBack == InodeSpec => []NothingIsLeft
  <1>1. InodeInv => NothingIsLeft
    BY DEF InodeInv, Owned, NothingIsLeft
  <1> QED
    BY <1>1, InodeSafety, PTL

------------------------------------------------------------------------------

(* The geometry is the one of an accepted superblock, or none yet.         *)
GeometryAccepted ==
  /\ image \in Images
  /\ geometry # NoGeometry =>
       Accepted(image.superblock) /\ geometry = GeometryOf(image.superblock)

(* Every shift of block and inode numbers by what an accepted superblock   *)
(* says is by less than the width of the number, for every width.          *)
THEOREM ShiftsAreInWidth == InodeSpec => []ShiftsAreDefined
  <1>1. InodeInit => GeometryAccepted
    BY DEF InodeInit, GeometryAccepted
  <1>2. GeometryAccepted /\ [InodeNext]_inodeVars => GeometryAccepted'
    <2> SUFFICES ASSUME GeometryAccepted, [InodeNext]_inodeVars PROVE GeometryAccepted'
      OBVIOUS
    <2>1. CASE ReadSuperblock
      BY <2>1 DEF ReadSuperblock, GeometryAccepted
    <2>2. CASE ~ReadSuperblock
      <3>1. UNCHANGED <<image, geometry>>
        BY <2>2, AskTells DEF InodeNext, Initialize, ReadData, ReadDataFork, ReadAttributesFork,
          OnError, ReadDataFails, InitializeEntry, Free, Released, inodeVars
      <3> QED
        BY <3>1 DEF GeometryAccepted
    <2> QED
      BY <2>1, <2>2
  <1>3. GeometryAccepted => ShiftsAreDefined
    <2> SUFFICES ASSUME GeometryAccepted, geometry # NoGeometry PROVE ShiftsAreDefined
      BY DEF ShiftsAreDefined
    <2> DEFINE sb == image.superblock
    <2>1. sb \in Superblock /\ Accepted(sb) /\ geometry = GeometryOf(sb)
      BY InodeAssumption DEF GeometryAccepted
    <2>2. /\ geometry.blockBits = sb.groupLog /\ geometry.inodeBits = sb.groupLog + sb.inodesLog
          /\ geometry.directory = DirectoryBlock(sb) /\ geometry.block = sb.block
      BY <2>1 DEF GeometryOf
    <2>3. sb.groupLog \in Nat /\ sb.inodesLog \in Nat /\ sb.inodesLog >= 1
          /\ sb.groupLog + sb.inodesLog < WordBits
      BY <2>1, InodeAssumption DEF Accepted, InodeBitsAccepted, Superblock
    <2>4. DirectoryBlock(sb) < 2 ^ WordBits /\ DirectoryBlock(sb) % sb.block = 0
      BY <2>1, DirectoryBlockFits DEF Accepted
    <2>5. geometry.blockBits < WordBits - 1 /\ geometry.blockBits < geometry.inodeBits
          /\ geometry.inodeBits < WordBits
      BY <2>2, <2>3, InodeAssumption
    <2> QED
      BY <2>2, <2>4, <2>5 DEF ShiftsAreDefined
  <1> QED
    BY <1>1, <1>2, <1>3, PTL DEF InodeSpec
===============================================================================
