------------------------------ MODULE Directory ------------------------------
(***************************************************************************)
(* Reading the entries of a directory: libfsxfs_directory_read_file_io_    *)
(* handle goes over the extents of a directory, libfsxfs_block_directory_  *)
(* read_data over the items of a directory block and                       *)
(* libfsxfs_directory_table_read_data over a short-form table in the       *)
(* inode.  One iteration of a C loop is one action.                        *)
(*                                                                         *)
(* Data is counted in units, the 8 bytes every item of a block is aligned  *)
(* to.  A file system block on the disk has the signature in its first     *)
(* bytes, items, and what its last unit says as number of hash values.     *)
(* A directory block is DirBlocks file system blocks: all but the first    *)
(* have no signature.                                                      *)
(***************************************************************************)
EXTENDS Integers, Sequences, FiniteSets, SequencesExt

CONSTANTS
  Names, NoName,   \* NoName: a name of size 0
  BlockUnits,      \* block_size
  HeaderUnits,     \* size of a block directory header
  DirBlocks,       \* directory_block_size / block_size
  GroupBlocks,     \* allocation_group_size
  Relative,        \* 2 ^ number_of_relative_block_number_bits
  LeafBlock,       \* LIBFSXFS_DIRECTORY_LEAF_OFFSET / block_size
  Wrap,            \* extent_size is unsigned and wraps at Wrap
  Directories      \* directories an image may hold, damaged ones included

Kinds == {"name", "self", "parent", "free"}
Item == [kind : Kinds, size : Nat, name : Names \cup {NoName}]
Block == [signature : {"single", "data", "none"}, items : Seq(Item), hashes : Nat]
Extent == [logical : Nat, physical : Nat, blocks : Nat]

ASSUME DirectoryAssumption ==
  /\ NoName \notin Names
  /\ BlockUnits \in Nat /\ HeaderUnits \in 1 .. BlockUnits - 1
  /\ DirBlocks \in Nat \ {0} /\ GroupBlocks \in 1 .. Relative /\ Relative \in Nat /\ Wrap \in Nat \ {0}
  /\ LeafBlock \in Nat
  /\ \A d \in Directories :
       /\ d.inline \in BOOLEAN
       /\ d.table \in Seq(Item) /\ d.count \in Nat /\ d.size \in Nat
       /\ d.extents \in Seq(Extent)
       /\ \A p \in DOMAIN d.disk : p \in Nat /\ d.disk[p] \in Block

VARIABLES
  fork,       \* the data fork of the directory that is read
  entries,    \* entries_array: names in the order they were appended
  index,      \* number of extents begun
  position,   \* block_directory_offset in blocks
  left,       \* extent_size in blocks
  item,       \* number of items read in the block or table
  offset,     \* data_offset
  end,        \* entries_data_end_offset
  stage       \* "table", "extent", "block", "item", "done" or "error"

directoryVars == <<fork, entries, index, position, left, item, offset, end, stage>>
loop == <<index, position, left>>
data == <<item, offset, end>>

Address(physical) == (physical \div Relative) * GroupBlocks + (physical % Relative)

(* Behind its last item a damaged block is zero, which reads as an entry   *)
(* without a name.                                                         *)
ItemOf(b, k) ==
  IF k <= Len(b.items) THEN b.items[k] ELSE [kind |-> "name", size |-> 2, name |-> NoName]

Current == fork.disk[position]

------------------------------------------------------------------------------

DirectoryInit ==
  /\ fork \in Directories
  /\ entries = <<>>
  /\ index = 0 /\ position = 0 /\ left = 0
  /\ item = 0 /\ offset = 0 /\ end = 0
  /\ stage = IF fork.inline THEN "table" ELSE "extent"

(* Every error empties the array.                                          *)
ReadFails ==
  /\ entries' = <<>>
  /\ stage' = "error"
  /\ UNCHANGED <<fork, loop, data>>

(* One entry of the short-form table; it holds no "." and no "..".         *)
ReadTableEntry ==
  /\ stage = "table" /\ item < fork.count
  /\ IF item = Len(fork.table) \/ offset + fork.table[item + 1].size > fork.size
       THEN ReadFails
       ELSE /\ entries' = Append(entries, fork.table[item + 1].name)
            /\ item' = item + 1
            /\ offset' = offset + fork.table[item + 1].size
            /\ UNCHANGED <<fork, loop, end, stage>>

EndTable ==
  /\ stage = "table" /\ item = fork.count
  /\ stage' = "done"
  /\ UNCHANGED <<fork, entries, loop, data>>

NextExtentAnywhere ==
  /\ stage = "extent" /\ index < Len(fork.extents)
  /\ index' = index + 1
  /\ position' = Address(fork.extents[index'].physical)
  /\ left' = fork.extents[index'].blocks
  /\ stage' = IF left' > 0 THEN "block" ELSE "extent"
  /\ UNCHANGED <<fork, entries, data>>

(* The extents from the leaf offset on hold hash values.                   *)
NextExtent ==
  /\ stage = "extent" /\ index < Len(fork.extents)
  /\ fork.extents[index + 1].logical < LeafBlock
  /\ index' = index + 1
  /\ position' = Address(fork.extents[index'].physical)
  /\ left' = fork.extents[index'].blocks
  /\ stage' = IF left' > 0 THEN "block" ELSE "extent"
  /\ UNCHANGED <<fork, entries, data>>

EndDirectory ==
  /\ stage = "extent"
  /\ index < Len(fork.extents) => fork.extents[index + 1].logical >= LeafBlock
  /\ stage' = "done"
  /\ UNCHANGED <<fork, entries, loop, data>>

(* A single block directory ends with hash values and a footer.            *)
EndOfItems(b) == IF b.signature = "single" THEN BlockUnits - 1 - b.hashes ELSE BlockUnits

ReadBlockUnchecked ==
  /\ stage = "block"
  /\ IF position \notin DOMAIN fork.disk \/ Current.signature = "none"
       THEN ReadFails
       ELSE /\ item' = 0
            /\ offset' = HeaderUnits
            /\ end' = EndOfItems(Current)
            /\ stage' = "item"
            /\ UNCHANGED <<fork, entries, loop>>

(* The number of hash values is compared with the whole block: the header  *)
(* is not left out.                                                        *)
ReadBlock ==
  /\ stage = "block"
  /\ IF \/ position \notin DOMAIN fork.disk
        \/ Current.signature = "none"
        \/ Current.signature = "single" /\ Current.hashes > BlockUnits - 1
       THEN ReadFails
       ELSE /\ item' = 0
            /\ offset' = HeaderUnits
            /\ end' = EndOfItems(Current)
            /\ stage' = "item"
            /\ UNCHANGED <<fork, entries, loop>>

ReadItemUnbounded ==
  LET x == ItemOf(Current, item + 1)
  IN  /\ stage = "item" /\ offset < end
      /\ entries' = IF x.kind = "name" THEN Append(entries, x.name) ELSE entries
      /\ item' = item + 1
      /\ offset' = offset + x.size
      /\ UNCHANGED <<fork, loop, end, stage>>

(* A free item is skipped, even past the end; "." and ".." are ignored.    *)
ReadItem ==
  LET x == ItemOf(Current, item + 1)
  IN  /\ stage = "item" /\ offset < end
      /\ IF x.size = 0 \/ (x.kind # "free" /\ x.size > end - offset)
           THEN ReadFails
           ELSE /\ entries' = IF x.kind = "name" THEN Append(entries, x.name) ELSE entries
                /\ item' = item + 1
                /\ offset' = offset + x.size
                /\ UNCHANGED <<fork, loop, end, stage>>

EndBlockInPlace ==
  /\ stage = "item" /\ offset >= end
  /\ left' = left
  /\ stage' = "block"
  /\ UNCHANGED <<fork, entries, index, position, data>>

EndBlock ==
  /\ stage = "item" /\ offset >= end
  /\ position' = position + DirBlocks
  /\ left' = (left - DirBlocks) % Wrap
  /\ stage' = IF left' > 0 THEN "block" ELSE "extent"
  /\ UNCHANGED <<fork, entries, index, data>>

(* The read has returned.                                                  *)
ReadHasReturned == stage \in {"done", "error"} /\ UNCHANGED directoryVars

DirectoryStep ==
  \/ ReadTableEntry \/ EndTable
  \/ NextExtent \/ EndDirectory
  \/ ReadBlock \/ ReadItem \/ EndBlock

DirectoryNext == DirectoryStep \/ ReadHasReturned

DirectorySpec == DirectoryInit /\ [][DirectoryNext]_directoryVars /\ WF_directoryVars(DirectoryStep)

------------------------------------------------------------------------------

(* The file system blocks of an extent with items.                         *)
BlocksOf(x) ==
  IF x.logical < LeafBlock THEN [k \in 1 .. x.blocks |-> Address(x.physical) + k - 1] ELSE <<>>

(* The file system blocks of a directory that hold items, in their order.  *)
Blocks(d) == FlattenSeq([i \in 1 .. Len(d.extents) |-> BlocksOf(d.extents[i])])

NameOf(x) == IF x.kind = "name" THEN <<x.name>> ELSE <<>>
NamesIn(items) == FlattenSeq([k \in 1 .. Len(items) |-> NameOf(items[k])])

SizeOf(items) ==
  LET upTo[k \in 0 .. Len(items)] == IF k = 0 THEN 0 ELSE upTo[k - 1] + items[k].size
  IN  upTo[Len(items)]

(* The items of a sequence of blocks.                                      *)
ItemsIn(d, p) == FlattenSeq([k \in 1 .. Len(p) |-> d.disk[p[k]].items])

(* A directory as a file system writes it: a whole number of directory     *)
(* blocks, each with a signature and filled to its end.                    *)
WellFormed(d) ==
  IF d.inline THEN d.count = Len(d.table) /\ SizeOf(d.table) = d.size
  ELSE LET p == Blocks(d)
       IN  /\ \A i, j \in 1 .. Len(d.extents) :
                i < j => d.extents[i].logical + d.extents[i].blocks <= d.extents[j].logical
           /\ Len(p) % DirBlocks = 0
           /\ \A i \in 1 .. Len(p) : p[i] \in DOMAIN d.disk
           /\ \A i \in 1 .. Len(p) : (d.disk[p[i]].signature = "none") = (i % DirBlocks # 1 % DirBlocks)
           /\ \A g \in 1 .. Len(p) \div DirBlocks :
                LET last == d.disk[p[g * DirBlocks]]
                    items == ItemsIn(d, SubSeq(p, (g - 1) * DirBlocks + 1, g * DirBlocks))
                    tail == IF d.disk[p[(g - 1) * DirBlocks + 1]].signature = "single"
                              THEN last.hashes + 1 ELSE 0
                IN  /\ HeaderUnits + SizeOf(items) + tail = DirBlocks * BlockUnits
                    /\ \A k \in 1 .. Len(items) : items[k].size > 0

(* A file system block in an extent with items.                            *)
HasItems(d, p) ==
  \E x \in Range(d.extents) :
    /\ x.logical < LeafBlock
    /\ Address(x.physical) <= p /\ p < Address(x.physical) + x.blocks

(* The names a directory holds, in their order on the disk.                *)
Stored(d) ==
  IF d.inline THEN [k \in 1 .. Len(d.table) |-> d.table[k].name]
  ELSE LET p == Blocks(d)
       IN  FlattenSeq([k \in 1 .. Len(p) |-> NamesIn(d.disk[p[k]].items)])

(* The type invariant: items lie behind the header and end in the block.   *)
DirectoryTypeOK ==
  /\ entries \in Seq(Names \cup {NoName})
  /\ index \in 0 .. Len(fork.extents)
  /\ position \in Nat /\ left \in Nat
  /\ item \in Nat /\ offset \in Nat /\ end \in 0 .. BlockUnits
  /\ stage = "item" => offset >= HeaderUnits
  /\ stage \in {"table", "extent", "block", "item", "done", "error"}

(* "array of used and unused directory entries" of every block of the      *)
(* directory: a directory as a file system writes it is read without an    *)
(* error and gives all of its names, each once and in their order.         *)
ListsEveryEntry ==
  WellFormed(fork) =>
    /\ stage # "error"
    /\ stage = "done" => entries = Stored(fork)

(* Whatever a damaged directory holds, a block is read to its end only:    *)
(* every name that is listed lies within a block of the directory, and an  *)
(* error after some blocks were read leaves none of their names behind.    *)
NothingIsMadeUp ==
  [][/\ \A n \in Names :
          entries' = Append(entries, n) =>
            IF fork.inline THEN offset' <= fork.size
            ELSE /\ offset' <= BlockUnits
                 /\ HasItems(fork, position)
     /\ stage' = "error" => entries' = <<>>]_directoryVars

(* Every read returns, also of a damaged directory.                        *)
ReadReturns == <>(stage \in {"done", "error"})
===============================================================================
