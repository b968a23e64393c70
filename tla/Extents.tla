------------------------------- MODULE Extents -------------------------------
(***************************************************************************)
(* The extents array of an inode fork and how it is filled:                *)
(* libfsxfs_extents_read_data appends the records of one leaf (the extent  *)
(* list of the inode or a leaf block of the extent B+ tree) and inserts a  *)
(* sparse extent in every hole; libfsxfs_extent_list_read_data and         *)
(* libfsxfs_extent_btree_get_extents_from_root_node add the hole at the    *)
(* end of the file.  One iteration of the C loop is one action, so that    *)
(* the array can be observed between any two appends.                      *)
(*                                                                         *)
(* A file larger than the block numbers of an image allow does not exist,  *)
(* but an image may be damaged: the records are arbitrary, in any order.   *)
(***************************************************************************)
EXTENDS Integers, Sequences

CONSTANTS
  Limit,      \* an extent's number_of_blocks is a uint32_t: it wraps at Limit
  LogicalNumbers,  \* logical block numbers a record on disk may hold (54 bits)
  BlockCounts,     \* numbers of blocks a record on disk may hold (21 bits)
  PhysicalNumbers, \* physical block numbers a record on disk may hold
  FileSizes,  \* sizes of a fork in blocks
  MaxRecords, \* bound: records in all leaves of a fork together
  MaxLeaves   \* bound: leaf blocks of an extent B+ tree

ASSUME ExtentsAssumption ==
  /\ Limit \in Nat \ {0}
  /\ LogicalNumbers \subseteq Nat
  /\ BlockCounts \subseteq 0 .. Limit - 1
  /\ PhysicalNumbers \subseteq Nat
  /\ FileSizes \subseteq Nat
  /\ MaxRecords \in Nat
  /\ MaxLeaves \in Nat

VARIABLES
  isBtree,         \* the fork is an extent B+ tree and not an extent list
  addSparse,       \* add_sparse_extents: data fork of anything but a directory
  numberOfBlocks,  \* number_of_blocks: the size of the fork
  array,           \* extents_array
  logical,         \* logical_block_number of the loop that reads a leaf
  pc,              \* "leaf" before a leaf, "loop" in it, "done", "error"
  leaves,          \* number of leaves begun
  records          \* history: the records read from the image, in order

vars == <<isBtree, addSparse, numberOfBlocks, array, logical, pc, leaves, records>>
fork == <<isBtree, addSparse, numberOfBlocks>>

Extent == [logical : Nat, blocks : 0 .. Limit - 1, physical : Nat, sparse : BOOLEAN]

Record == [logical : LogicalNumbers, blocks : BlockCounts,
           physical : PhysicalNumbers, sparse : BOOLEAN]

HoleUnwrapped(first, count) ==
  [logical |-> first, blocks |-> count, physical |-> 0, sparse |-> TRUE]

Hole(first, count) ==
  [logical |-> first, blocks |-> count % Limit, physical |-> 0, sparse |-> TRUE]

EndOf(e) == e.logical + e.blocks

(* The block after the last extent of the array, 0 when it is empty: what  *)
(* every reader derives from libfsxfs_extents_get_last_extent.             *)
NextBlock(s) == IF s = <<>> THEN 0 ELSE EndOf(s[Len(s)])

------------------------------------------------------------------------------

Init ==
  /\ isBtree \in BOOLEAN
  /\ addSparse \in BOOLEAN
  /\ numberOfBlocks \in FileSizes
  /\ array = <<>>
  /\ logical = 0
  /\ pc = "leaf"
  /\ leaves = 0
  /\ records = <<>>

BeginLeafAtZero ==
  /\ pc = "leaf"
  /\ leaves < IF isBtree THEN MaxLeaves ELSE 1
  /\ leaves' = leaves + 1
  /\ logical' = 0
  /\ pc' = "loop"
  /\ UNCHANGED <<fork, array, records>>

(* The start of libfsxfs_extents_read_data: continue after the last extent *)
(* of the array.  An extent list is one leaf.                              *)
BeginLeaf ==
  /\ pc = "leaf"
  /\ leaves < IF isBtree THEN MaxLeaves ELSE 1
  /\ leaves' = leaves + 1
  /\ logical' = NextBlock(array)
  /\ pc' = "loop"
  /\ UNCHANGED <<fork, array, records>>

ReadRecordOrHole(e) ==
  /\ pc = "loop"
  /\ Len(records) < MaxRecords
  /\ array' = IF addSparse /\ e.logical > logical
                THEN Append(array, Hole(logical, e.logical - logical))
                ELSE Append(array, e)
  /\ logical' = EndOf(e)
  /\ records' = Append(records, e)
  /\ UNCHANGED <<fork, pc, leaves>>

(* One iteration: the hole before the extent, if there is one, then the    *)
(* extent itself.                                                          *)
ReadRecord(e) ==
  /\ pc = "loop"
  /\ Len(records) < MaxRecords
  /\ array' = IF addSparse /\ e.logical > logical
                THEN array \o <<Hole(logical, e.logical - logical), e>>
                ELSE Append(array, e)
  /\ logical' = EndOf(e)
  /\ records' = Append(records, e)
  /\ UNCHANGED <<fork, pc, leaves>>

(* The loop ends after number_of_extents iterations.                       *)
EndLeaf ==
  /\ pc = "loop"
  /\ pc' = "leaf"
  /\ UNCHANGED <<fork, array, logical, leaves, records>>

(* Every leaf was read: the hole up to the size of the fork extends a      *)
(* last extent that is sparse itself, and is an extent of its own after    *)
(* any other.                                                              *)
WithTail(s) ==
  LET next == NextBlock(s)
      missing == numberOfBlocks - next
  IN  IF ~addSparse \/ missing <= 0 THEN s
      ELSE IF s # <<>> /\ s[Len(s)].sparse
        THEN [s EXCEPT ![Len(s)].blocks = (@ + missing) % Limit]
        ELSE Append(s, Hole(next, missing))

FinishWithoutTail ==
  /\ pc = "leaf"
  /\ isBtree \/ leaves = 1
  /\ array' = array
  /\ pc' = "done"
  /\ UNCHANGED <<fork, logical, leaves, records>>

Finish ==
  /\ pc = "leaf"
  /\ isBtree \/ leaves = 1
  /\ array' = WithTail(array)
  /\ pc' = "done"
  /\ UNCHANGED <<fork, logical, leaves, records>>

(* A leaf that cannot be read (a record count beyond the data, a block of  *)
(* the tree out of reach): the callers empty the array they were filling.  *)
Fail ==
  /\ pc = "leaf"
  /\ leaves < IF isBtree THEN MaxLeaves ELSE 1
  /\ array' = <<>>
  /\ pc' = "error"
  /\ UNCHANGED <<fork, logical, leaves, records>>

Ended == pc \in {"done", "error"} /\ UNCHANGED vars

Next ==
  \/ BeginLeaf
  \/ \E e \in Record : ReadRecord(e)
  \/ EndLeaf
  \/ Finish
  \/ Fail
  \/ Ended

Spec == Init /\ [][Next]_vars

------------------------------------------------------------------------------

(* The records of an undamaged image are in the order of the file.         *)
Sorted(s) == \A k \in 1 .. Len(s) - 1 : EndOf(s[k]) <= s[k + 1].logical

(* No hole between them is larger than a number of blocks can say.         *)
HolesFit(s) ==
  /\ s # <<>> => s[1].logical < Limit
  /\ \A k \in 1 .. Len(s) - 1 : s[k + 1].logical - EndOf(s[k]) < Limit

InOrder(s) == Sorted(s) /\ HolesFit(s)

(* An array of extents that starts at block 0 and leaves neither a gap nor *)
(* an overlap.                                                             *)
Tiles(s) ==
  /\ s # <<>> => s[1].logical = 0
  /\ \A i \in 1 .. Len(s) - 1 : s[i + 1].logical = EndOf(s[i])

(* The type invariant.                                                     *)
TypeOK ==
  /\ isBtree \in BOOLEAN
  /\ addSparse \in BOOLEAN
  /\ numberOfBlocks \in Nat
  /\ array \in Seq(Extent)
  /\ logical \in Nat
  /\ pc \in {"leaf", "loop", "done", "error"}
  /\ leaves \in Nat
  /\ records \in Seq(Record)

(* A data stream places every extent after the sizes of the ones before    *)
(* it, whatever its logical block number: the array of a file must tile,   *)
(* over all the leaves of its tree.                                        *)
Tiling ==
  (addSparse /\ InOrder(records) /\ pc # "done") => Tiles(array)

(* The hole at the end fits in the number of blocks of the extent that     *)
(* takes it.                                                               *)
TailFits ==
  LET last == records[Len(records)]
      start == IF records # <<>> /\ last.sparse THEN last.logical ELSE NextBlock(records)
  IN  numberOfBlocks - start < Limit

(* After the tail the array still tiles, and it covers the whole fork: a   *)
(* file can be read up to its size.                                        *)
Covering ==
  (addSparse /\ InOrder(records) /\ TailFits /\ pc = "done") =>
    /\ Tiles(array)
    /\ numberOfBlocks <= NextBlock(array)

(* Whatever the image holds, reading neither loses nor invents data: every *)
(* written extent of the image is in the array as it was read and every    *)
(* other extent of the array is sparse; the array of a directory or of an  *)
(* attributes fork is exactly the sequence of records.                     *)
NoDataLost ==
  pc # "error" =>
    /\ \A k \in 1 .. Len(records) :
         records[k].sparse \/ \E i \in 1 .. Len(array) : array[i] = records[k]
    /\ \A i \in 1 .. Len(array) :
         array[i].sparse \/ \E k \in 1 .. Len(records) : records[k] = array[i]
    /\ ~addSparse => array = records

(* A fork that could not be read leaves no extents behind: the inode never *)
(* serves the first leaves of a tree whose later leaf is damaged.          *)
NothingAfterError == pc = "error" => array = <<>>

(* The array of a file is a map of the file at every moment: without a gap *)
(* or an overlap while it is read, and up to the size once it was read.    *)
IsMapOfFile == Tiling /\ Covering

(* A fork is read as it is stored or not at all.                           *)
AllOrNothing == NoDataLost /\ NothingAfterError

------------------------------------------------------------------------------

(* The data fork of a file in an image that is in order.  A directory and  *)
(* an attributes fork have no map from their first record on, and the map  *)
(* of a damaged file is given up where its records leave the order.        *)
HasMap ==
  /\ InOrder(records)
  /\ addSparse \/ (records = <<>> /\ pc # "done")
  /\ pc = "done" => TailFits

(* Which physical block holds block b of the fork, by the logical block    *)
(* numbers of the extents.                                                 *)
Resolve(s, b) ==
  LET i == CHOOSE i \in 1 .. Len(s) : s[i].logical <= b /\ b < EndOf(s[i])
  IN  IF s[i].sparse THEN 0 ELSE s[i].physical + (b - s[i].logical)

ResolvedMap ==
  IF HasMap THEN [b \in 0 .. NextBlock(array) - 1 |-> Resolve(array, b)] ELSE <<>>

File == INSTANCE BlockMap WITH
  Gaps <- 0 .. Limit - 1, Counts <- BlockCounts, Blocks <- PhysicalNumbers,
  size <- numberOfBlocks, map <- ResolvedMap,
  state <- IF ~HasMap \/ pc = "error" THEN "failed"
           ELSE IF pc = "done" THEN "complete" ELSE "reading"

(* The extents reader implements the growing map of a file: each record    *)
(* adds its hole and its blocks, the tail completes the map.               *)
ImplementsFile == File!Spec

==============================================================================
