------------------------------ MODULE Attributes ------------------------------
(***************************************************************************)
(* Reading the extended attributes of an inode and the value of one:       *)
(* libfsxfs_attributes_get_from_inode reads a short-form table in the      *)
(* inode, or the tree of branch and leaf blocks the attributes fork maps,  *)
(* by recursion of libfsxfs_attributes_get_from_block and                  *)
(* libfsxfs_attributes_read_branch_values; get_value_data_stream makes the *)
(* stream of a value.  The recursion is a stack, one iteration of a C loop *)
(* is one action.                                                          *)
(*                                                                         *)
(* Data in a leaf block or a table is counted in units: the headers, an    *)
(* entry of a leaf and the header of local values are one unit, that of    *)
(* remote values is two, names and local values have the size they say.    *)
(* A remote value is counted in file system blocks.                        *)
(***************************************************************************)
EXTENDS Integers, Sequences, FiniteSets, SequencesExt

CONSTANTS
  Names, NoName,  \* NoName: a name of size 0 is not set
  BlockUnits,     \* block_size
  OffsetLimit,    \* values_offset is a uint16_t: it wraps at OffsetLimit
  HeaderUnits,    \* file system block header and leaf or branch header
  MaxDepth,       \* LIBFSXFS_MAXIMUM_RECURSION_DEPTH
  GroupBlocks,    \* allocation_group_size
  Relative,       \* 2 ^ number_of_relative_block_number_bits
  Forks,          \* attributes forks an image may hold, damaged ones included
  MaxFaults       \* bound: reads of the image that fail by chance

Entry == [name : Names, prefix : {"user", "trusted", "secure", "other"},
          nameSize : Nat, at : Nat, local : BOOLEAN, valueSize : Nat, block : Nat]
Extent == [logical : Nat, physical : Nat, blocks : Nat]
Leaf == [kind : {"leaf"}, count : Nat, entries : Seq(Entry)]
Branch == [kind : {"branch"}, count : Nat, entries : Seq(Nat)]
Other == [kind : {"other"}, count : {0}, entries : {<<>>}]

ASSUME AttributesAssumption ==
  /\ NoName \notin Names
  /\ OffsetLimit \in Nat \ {0}
  /\ BlockUnits \in 1 .. OffsetLimit /\ HeaderUnits \in 0 .. BlockUnits
  /\ MaxDepth \in Nat /\ MaxFaults \in Nat
  /\ GroupBlocks \in 1 .. Relative /\ Relative \in Nat
  /\ \A f \in Forks :
       /\ f.type \in {"none", "inline", "mapped"}
       /\ f.count \in Nat /\ f.size \in Nat \ {0} /\ f.stated \in Nat
       /\ f.entries \in Seq(Entry) /\ f.extents \in Seq(Extent)
       /\ \A p \in DOMAIN f.disk : f.disk[p] \in Leaf \cup Branch \cup Other

VARIABLES
  fork,           \* the attributes fork of the inode
  array,          \* extended_attributes_array
  stack,          \* calls of get_from_block: the block each has and its loop index
  visit,          \* sub_block_number of the call that is about to be made
  attributeIndex, \* attribute_index of the table
  offset,         \* data_offset of the table
  faults,         \* reads that failed by chance
  value,          \* the attribute whose stream is made
  stream,         \* the blocks of its segments, in order
  stage

attributesVars == <<fork, array, stack, visit, attributeIndex, offset, faults, value, stream, stage>>
table == <<attributeIndex, offset>>
data == <<value, stream>>

Address(physical) == (physical \div Relative) * GroupBlocks + (physical % Relative)

NoValue ==
  [name |-> NoName, prefix |-> "other", size |-> 0, data |-> FALSE, block |-> 0, from |-> 0]

(* libfsxfs_attribute_values: the name is the prefix and the name, and a   *)
(* block number of 0 means that the data is with the values.  Where in a   *)
(* table that data is taken from is not told.                              *)
Values(e) ==
  [name |-> IF e.nameSize = 0 THEN NoName ELSE e.name,
   prefix |-> IF e.nameSize = 0 THEN "other" ELSE e.prefix,
   size |-> e.valueSize,
   data |-> e.local,
   block |-> IF e.local THEN 0 ELSE e.block,
   from |-> 0]

FixedSize(e) == IF e.local THEN 1 ELSE 2
DataSize(e) == IF e.local THEN e.valueSize ELSE 0

(* The unit behind the name of an entry.                                   *)
NameEnd(e) == e.at + FixedSize(e) + e.nameSize

(* values_offset after the header and the name were added to it.           *)
ValuesOffset(e) == NameEnd(e) % OffsetLimit

(* Values in a leaf, with their data from a place in it.                   *)
ValuesAt(e, place) == [Values(e) EXCEPT !.from = IF DataSize(e) = 0 THEN 0 ELSE place]

(* What libfsxfs_attributes_read_leaf_values makes of an entry, and what   *)
(* the entry stands for: its data follows its name.                        *)
ValuesRead(e) == ValuesAt(e, ValuesOffset(e))
ValuesStored(e) == ValuesAt(e, NameEnd(e))

(* libfsxfs_attribute_values_set_name knows three prefixes.                *)
NameIsSet(e) == e.nameSize = 0 \/ e.prefix # "other"

Holds(x, number) == x.logical <= number /\ number < x.logical + x.blocks

(* The first extent with the logical block number, 0 when there is none.   *)
ExtentWith(f, number) == SelectInSeq(f.extents, LAMBDA x : Holds(x, number))

Physical(x, number) == Address(x.physical) + (number - x.logical)

------------------------------------------------------------------------------

AttributesInit ==
  /\ fork \in Forks
  /\ array = <<>> /\ stack = <<>> /\ visit = 0
  /\ attributeIndex = 0 /\ offset = 0 /\ faults = 0
  /\ value = NoValue /\ stream = <<>>
  /\ stage = "idle"

(* libfsxfs_internal_file_entry_get_extended_attributes begins with an     *)
(* empty array; get_from_inode looks at the type of the fork.  A fork      *)
(* without extents has no attributes.                                      *)
GetFromInode ==
  /\ stage = "idle"
  /\ array' = <<>>
  /\ attributeIndex' = 0 /\ offset' = 1 /\ visit' = 0
  /\ stage' = CASE fork.type = "none" -> "failed"
             [] fork.type = "inline" -> IF fork.stated \in 1 .. fork.size THEN "table" ELSE "failed"
             [] fork.type = "mapped" -> IF fork.extents = <<>> THEN "done" ELSE "visit"
  /\ UNCHANGED <<fork, stack, faults, data>>

------------------------------------------------------------------------------

Emptied == array' = <<>>

EntryOf(s, k) ==
  IF k <= Len(s) THEN s[k]
  ELSE [name |-> CHOOSE n \in Names : TRUE, prefix |-> "user", nameSize |-> 0, at |-> 0,
        local |-> FALSE, valueSize |-> 0, block |-> 0]

(* One entry of the short-form table.  The size of its name is compared    *)
(* with the whole table; the rest of the table, which the size of its      *)
(* value is compared with, is unsigned.  A table that ends early is        *)
(* reported without emptying the array.                                    *)
ReadTableEntry ==
  LET e == EntryOf(fork.entries, attributeIndex + 1)
      name == offset + 1
      data1 == name + e.nameSize
  IN  /\ stage = "table" /\ attributeIndex < fork.count
      /\ IF offset > fork.size - 1
           THEN stage' = "failed" /\ UNCHANGED <<array, table>>
         ELSE IF \/ e.nameSize > fork.size - 1
                 \/ ~NameIsSet(e)
                 \/ fork.size >= data1 /\ e.valueSize > fork.size - data1
           THEN stage' = "failed" /\ Emptied /\ UNCHANGED table
         ELSE /\ array' = Append(array, Values([e EXCEPT !.local = TRUE]))
              /\ attributeIndex' = attributeIndex + 1
              /\ offset' = data1 + e.valueSize
              /\ stage' = "table"
      /\ UNCHANGED <<fork, stack, visit, faults, data>>

EndTable ==
  /\ stage = "table" /\ attributeIndex >= fork.count
  /\ stage' = "done"
  /\ UNCHANGED <<fork, array, stack, visit, table, faults, data>>

------------------------------------------------------------------------------

Depth == Len(stack)
Top == stack[Len(stack)]
EntriesEnd(b) == HeaderUnits + b.count

CanVisit(limit) ==
  LET x == ExtentWith(fork, visit)
      p == Physical(fork.extents[x], visit)
  IN  /\ Depth <= limit
      /\ x # 0
      /\ p \in DOMAIN fork.disk
      /\ fork.disk[p].kind # "other"
      /\ EntriesEnd(fork.disk[p]) <= BlockUnits

Push == Append(stack, [block |-> Physical(fork.extents[ExtentWith(fork, visit)], visit), next |-> 0])

(* libfsxfs_attributes_get_from_block up to the loop over the entries: the *)
(* depth, the extent that has the block, the block, its signature and the  *)
(* number of its entries.                                                  *)
Visit ==
  /\ stage = "visit"
  /\ IF CanVisit(MaxDepth) THEN stack' = Push /\ stage' = "loop"
                           ELSE stack' = stack /\ stage' = "unwind"
  /\ UNCHANGED <<fork, array, visit, table, faults, data>>

(* The block cannot be read now.                                           *)
ReadFault ==
  /\ stage = "visit" /\ faults < MaxFaults
  /\ faults' = faults + 1
  /\ stage' = "unwind"
  /\ UNCHANGED <<fork, array, stack, visit, table, data>>

Block == fork.disk[Top.block]
NextEntry == stack' = [stack EXCEPT ![Len(stack)].next = @ + 1]

FitsLoosely(b, e) ==
  /\ EntriesEnd(b) <= e.at /\ e.at < BlockUnits
  /\ FixedSize(e) <= BlockUnits - e.at
  /\ e.nameSize <= BlockUnits - e.at - FixedSize(e)
  /\ e.local => e.valueSize <= BlockUnits - e.at

(* The values of an entry begin behind the entries and its name ends in    *)
(* the block.  The data is compared with what is left behind a place that  *)
(* has wrapped to the start of the block where the name ends with a block  *)
(* of the largest size.                                                    *)
Fits(b, e) ==
  /\ EntriesEnd(b) <= e.at /\ e.at < BlockUnits
  /\ FixedSize(e) <= BlockUnits - e.at
  /\ e.nameSize <= BlockUnits - e.at - FixedSize(e)
  /\ e.local => e.valueSize <= BlockUnits - ValuesOffset(e)

(* One iteration of libfsxfs_attributes_read_leaf_values.                  *)
ReadLeafEntry ==
  LET e == EntryOf(Block.entries, Top.next + 1)
  IN  /\ stage = "loop" /\ Block.kind = "leaf" /\ Top.next < Block.count
      /\ IF Fits(Block, e) /\ NameIsSet(e)
           THEN array' = Append(array, ValuesRead(e)) /\ NextEntry /\ stage' = "loop"
           ELSE array' = <<>> /\ stack' = stack /\ stage' = "unwind"
      /\ UNCHANGED <<fork, visit, table, faults, data>>

(* One iteration of libfsxfs_attributes_read_branch_values.  Entries the   *)
(* image does not have are zero.                                           *)
ReadBranchEntry ==
  /\ stage = "loop" /\ Block.kind = "branch" /\ Top.next < Block.count
  /\ visit' = IF Top.next < Len(Block.entries) THEN Block.entries[Top.next + 1] ELSE 0
  /\ NextEntry
  /\ stage' = "visit"
  /\ UNCHANGED <<fork, array, table, faults, data>>

EndBlockStaying ==
  /\ stage = "loop" /\ Top.next >= Block.count
  /\ stage' = IF Len(stack) = 1 THEN "done" ELSE "loop"
  /\ UNCHANGED <<fork, array, stack, visit, table, faults, data>>

(* The loop ends and the call returns 1.                                   *)
EndBlock ==
  /\ stage = "loop" /\ Top.next >= Block.count
  /\ stack' = Front(stack)
  /\ stage' = IF Len(stack) = 1 THEN "done" ELSE "loop"
  /\ UNCHANGED <<fork, array, visit, table, faults, data>>

(* The call that failed returns -1, and every call above it frees its      *)
(* block, empties the array and returns -1 itself.  Without a call above   *)
(* nothing was appended.                                                   *)
Unwind ==
  /\ stage = "unwind"
  /\ array' = IF stack = <<>> THEN array ELSE <<>>
  /\ stack' = IF stack = <<>> THEN stack ELSE Front(stack)
  /\ stage' = IF stack = <<>> THEN "failed" ELSE "unwind"
  /\ UNCHANGED <<fork, visit, table, faults, data>>

FreeKeeping ==
  /\ stage = "failed"
  /\ stage' = "done"
  /\ UNCHANGED <<fork, array, stack, visit, table, faults, data>>

(* get_extended_attributes frees the array of a failed read: the next call *)
(* begins anew.                                                            *)
FreeArray ==
  /\ stage = "failed"
  /\ array' = <<>>
  /\ stage' = "idle"
  /\ UNCHANGED <<fork, stack, visit, table, faults, data>>

------------------------------------------------------------------------------

ExtentOfValue(v) == fork.extents[ExtentWith(fork, v.block)]

(* libfsxfs_attributes_get_value_data_stream: data that is with the values *)
(* is one segment of memory; remote values of version 5 are refused, and    *)
(* values that are neither with the attribute nor in a block.              *)
GetValue(v) ==
  /\ stage = "done"
  /\ value' = v /\ stream' = <<>>
  /\ stage' = IF v.block = 0 THEN IF v.data \/ v.size = 0 THEN "stream" ELSE "refused"
           ELSE IF ExtentWith(fork, v.block) = 0 \/ fork.version = 5 THEN "refused"
           ELSE "segment"
  /\ UNCHANGED <<fork, array, stack, visit, table, faults>>

Smaller(m, n) == IF m < n THEN m ELSE n

AppendWholeExtent ==
  LET x == ExtentOfValue(value)
  IN  /\ stage = "segment" /\ Len(stream) < value.size
      /\ stream' = stream \o [k \in 1 .. x.blocks |-> Address(x.physical) + k - 1]
      /\ UNCHANGED <<fork, array, stack, visit, table, faults, value, stage>>

(* A segment is the extent from its first block on, cut at the size of the *)
(* value; the index of the extent is that of the first one for all of them. *)
AppendSegment ==
  LET x == ExtentOfValue(value)
      count == Smaller(x.blocks, value.size - Len(stream))
  IN  /\ stage = "segment" /\ Len(stream) < value.size
      /\ stream' = stream \o [k \in 1 .. count |-> Address(x.physical) + k - 1]
      /\ UNCHANGED <<fork, array, stack, visit, table, faults, value, stage>>

EndStream ==
  /\ stage = "segment" /\ Len(stream) >= value.size
  /\ stage' = "stream"
  /\ UNCHANGED <<fork, array, stack, visit, table, faults, data>>

(* The caller is through with the value.                                   *)
CloseValue ==
  /\ stage \in {"stream", "refused"}
  /\ value' = NoValue /\ stream' = <<>>
  /\ stage' = "done"
  /\ UNCHANGED <<fork, array, stack, visit, table, faults>>

Step ==
  \/ GetFromInode
  \/ ReadTableEntry \/ EndTable
  \/ Visit \/ ReadLeafEntry \/ ReadBranchEntry \/ EndBlock
  \/ Unwind \/ FreeArray
  \/ AppendSegment \/ EndStream

AttributesNext ==
  \/ Step
  \/ ReadFault
  \/ \E k \in 1 .. Len(array) : GetValue(array[k])
  \/ CloseValue
  \/ stage = "done" /\ array = <<>> /\ UNCHANGED attributesVars

AttributesSpec == AttributesInit /\ [][AttributesNext]_attributesVars /\ WF_attributesVars(Step)

------------------------------------------------------------------------------

(* The block with a logical number, as the file system wrote it.           *)
BlockOf(f, number) == Physical(f.extents[ExtentWith(f, number)], number)

Readable(f, number) ==
  /\ ExtentWith(f, number) # 0
  /\ BlockOf(f, number) \in DOMAIN f.disk

(* The values of an entry are in the part of a leaf behind its entries.    *)
Within(b, e) ==
  /\ EntriesEnd(b) <= e.at
  /\ NameEnd(e) + DataSize(e) <= BlockUnits

(* Values are of an entry whose name and data lie in the leaf.             *)
IsEntry(b, e, v) ==
  /\ EntriesEnd(b) <= e.at /\ NameEnd(e) <= BlockUnits
  /\ v = ValuesAt(e, v.from)
  /\ v.from + DataSize(e) <= BlockUnits
  /\ NameEnd(e) < OffsetLimit => v = ValuesStored(e)

WellFormedBlock(b) ==
  /\ b.kind \in {"leaf", "branch"}
  /\ b.count = Len(b.entries)
  /\ EntriesEnd(b) <= BlockUnits
  /\ b.kind = "leaf" =>
       \A k \in 1 .. b.count : Within(b, b.entries[k]) /\ NameIsSet(b.entries[k])

(* The blocks that are in order when those of a set are; the set is of the *)
(* blocks with a tree of one level less below them.                        *)
InOrder(f, below) ==
  {p \in DOMAIN f.disk :
     /\ WellFormedBlock(f.disk[p])
     /\ f.disk[p].kind = "branch" =>
          \A k \in 1 .. f.disk[p].count :
            /\ Readable(f, f.disk[p].entries[k])
            /\ BlockOf(f, f.disk[p].entries[k]) \in below}

(* The tree below a block is finite and every block of it is in order.     *)
WellFormedTree(f) ==
  LET sound[levels \in 0 .. MaxDepth + 1] ==
        IF levels = 0 THEN {} ELSE InOrder(f, sound[levels - 1])
  IN  Readable(f, 0) /\ BlockOf(f, 0) \in sound[MaxDepth + 1]

LeafAttributes(b) == [k \in 1 .. b.count |-> ValuesStored(b.entries[k])]
SubBlocks(f, b, below) == [k \in 1 .. b.count |-> below[BlockOf(f, b.entries[k])]]

(* The attributes below every block, from those below its sub blocks.      *)
AttributesBelow(f, below) ==
  [p \in DOMAIN f.disk |->
     IF f.disk[p].kind = "leaf"
       THEN LeafAttributes(f.disk[p])
       ELSE FlattenSeq(SubBlocks(f, f.disk[p], below))]

(* The attributes of the tree in the order of its leaves.                  *)
StoredInTree(f) ==
  LET stored[levels \in 0 .. MaxDepth + 1] ==
        IF levels = 0 THEN [p \in DOMAIN f.disk |-> <<>>]
                      ELSE AttributesBelow(f, stored[levels - 1])
  IN  stored[MaxDepth + 1][BlockOf(f, 0)]

TableSize(f) ==
  LET upTo[k \in 0 .. Len(f.entries)] ==
        IF k = 0 THEN 1
        ELSE upTo[k - 1] + 1 + f.entries[k].nameSize + f.entries[k].valueSize
  IN  upTo[Len(f.entries)]

WellFormed(f) ==
  CASE f.type = "none" -> FALSE
    [] f.type = "inline" ->
         /\ f.count = Len(f.entries) /\ TableSize(f) <= f.stated /\ f.stated <= f.size
         /\ \A k \in 1 .. f.count : NameIsSet(f.entries[k])
    [] f.type = "mapped" -> f.extents = <<>> \/ WellFormedTree(f)

Stored(f) ==
  CASE f.type = "inline" ->
         [k \in 1 .. f.count |-> Values([f.entries[k] EXCEPT !.local = TRUE])]
    [] f.type = "mapped" -> IF f.extents = <<>> THEN <<>> ELSE StoredInTree(f)

(* The type invariant: a call of the recursion has a block of the fork.    *)
AttributesTypeOK ==
  /\ fork \in Forks
  /\ array \in Seq([name : Names \cup {NoName}, size : Nat, data : BOOLEAN, block : Nat,
                         from : Nat, prefix : {"user", "trusted", "secure", "other"}])
  /\ stack \in Seq([block : DOMAIN fork.disk, next : Nat])
  /\ Depth <= MaxDepth + 1
  /\ visit \in Nat /\ attributeIndex \in Nat /\ offset \in Nat /\ faults \in 0 .. MaxFaults
  /\ stream \in Seq(Nat)
  /\ stage \in {"idle", "table", "visit", "loop", "unwind", "failed", "done",
             "segment", "stream", "refused"}

(* libfsxfs_file_entry_get_number_of_extended_attributes: the attributes   *)
(* that are given are those of the whole tree, each once and in order,     *)
(* after any number of reads that failed part of the way; and nothing but  *)
(* a read that fails by chance keeps them from being given.                *)
ListsEveryAttribute ==
  WellFormed(fork) =>
    /\ stage = "done" => array = Stored(fork)
    /\ stage = "failed" => faults > 0

(* Whatever a damaged tree holds, an attribute that is listed is an entry  *)
(* of a leaf in an extent of the fork: its name lies behind the entries of *)
(* that leaf, its data in the leaf, and the data follows the name unless   *)
(* the name ends where values_offset wraps.                                *)
NothingIsMadeUp ==
  fork.type = "mapped" =>
    \A i \in 1 .. Len(array) :
      \E x \in Range(fork.extents) : \E n \in 0 .. x.blocks - 1 :
        LET p == Address(x.physical) + n
        IN  /\ p \in DOMAIN fork.disk
            /\ fork.disk[p].kind = "leaf"
            /\ \E k \in 1 .. Len(fork.disk[p].entries) :
                 IsEntry(fork.disk[p], fork.disk[p].entries[k], array[i])

(* The data of every listed attribute follows its name: what the format    *)
(* says, and what a block of the largest size does not give.               *)
DataFollowsName ==
  fork.type = "mapped" =>
    \A i \in 1 .. Len(array) :
      \E p \in DOMAIN fork.disk :
        /\ fork.disk[p].kind = "leaf"
        /\ \E k \in 1 .. Len(fork.disk[p].entries) :
             array[i] = ValuesStored(fork.disk[p].entries[k])

(* The blocks of a remote value: "the attributes extents contain the       *)
(* physical location of the individual remote attribute value data blocks". *)
BlocksOfValue(v) == [k \in 1 .. v.size |-> BlockOf(fork, v.block + k - 1)]

Mapped(v) == \A k \in 0 .. v.size - 1 : ExtentWith(fork, v.block + k) # 0

RemoteValueIsRead ==
  stage = "stream" /\ value.block # 0 /\ Mapped(value) => stream = BlocksOfValue(value)

(* The extents of an undamaged attributes fork are in order and apart.     *)
ExtentsApart(f) ==
  \A i, j \in 1 .. Len(f.extents) :
    i < j => f.extents[i].logical + f.extents[i].blocks <= f.extents[j].logical

(* A remote value that begins an extent and does not leave it is read from *)
(* its own blocks, all of them and no more.                                *)
ValueOfOneExtentIsRead ==
  /\ stage = "stream" /\ value.block # 0 /\ Mapped(value)
  /\ ExtentOfValue(value).logical = value.block
  /\ value.size <= ExtentOfValue(value).blocks
  /\ ExtentsApart(fork)
  => stream = BlocksOfValue(value)

(* Every read of the attributes and of a value returns, of a tree with a   *)
(* cycle too.                                                              *)
ReadReturns == stage \in {"table", "visit", "segment"} ~> stage \in {"idle", "done", "stream"}
===============================================================================
