------------------------------ MODULE DataStream ------------------------------
(***************************************************************************)
(* Reading the data of file entries.  Every entry has a stream of segments *)
(* made from its extents and a lock; all entries of a volume read through  *)
(* one file IO handle, whose position a stream sets with one callback and  *)
(* reads from with another.  The data of a small entry is in its inode: it *)
(* has one segment and a position of its own.  The unit of data is a       *)
(* block, and a block of the disk holds its own file system block number.  *)
(*                                                                         *)
(* The stream is libfdata's: it finds the segment of an offset, calls the  *)
(* two callbacks for it and goes on to the next one until the buffer is    *)
(* full or the mapped size reached.                                        *)
(***************************************************************************)
EXTENDS Integers, Sequences

CONSTANTS
  Threads, NoThread,
  Entries,      \* file entries of one volume
  ExtentsOf,    \* the extents array of the inode of every entry
  InlineOf,     \* the inline data of every entry, empty when it has extents
  SizeOf,       \* data_size of every entry in blocks, at most what its data covers
  GroupBlocks,  \* allocation_group_size
  Relative,     \* 2 ^ number_of_relative_block_number_bits
  MaxRead,      \* bound: blocks of one call
  Disciplined   \* TRUE when the caller uses one file entry of a volume at a time

Extent == [physical : Nat, blocks : Nat \ {0}, sparse : BOOLEAN]

ASSUME DataStreamAssumption ==
  /\ NoThread \notin Threads /\ Entries # {}
  /\ ExtentsOf \in [Entries -> Seq(Extent)]
  /\ InlineOf \in [Entries -> Seq(Nat)]
  /\ SizeOf \in [Entries -> Nat]
  /\ Relative \in Nat /\ GroupBlocks \in 1 .. Relative
  /\ MaxRead \in Nat
  /\ Disciplined \in BOOLEAN

VARIABLES
  position,  \* offset of the file IO handle
  cursor,    \* current_offset of the buffer data handle of every entry
  offset,    \* current offset of the stream of every entry
  owner,     \* per entry: who holds its lock
  pc, entry, \* per thread: step and the entry it works on
  at, todo,  \* per thread: offset of the next segment access, blocks still wanted
  buffer,    \* per thread: what was read so far
  answer,    \* the read that ended last, until another call: where it began, what it gave
  given,     \* the extent asked for last, until another call, and the offset it was given
  served     \* history, per entry: what was read since the last seek, and where that was

stream == <<position, cursor, offset, owner>>
thread == <<pc, entry, at, todo, buffer>>
vars == <<stream, thread, answer, given, served>>

Smaller(a, b) == IF a < b THEN a ELSE b

AddressInVolume(physical) == physical

(* Allocation groups follow each other without the gaps their numbers have *)
(* in a file system block number.                                          *)
Address(physical) == (physical \div Relative) * GroupBlocks + (physical % Relative)

(* Segment i of the stream of entry e begins after the ones before it.     *)
SegmentStart(e, i) ==
  LET start[k \in 1 .. Len(ExtentsOf[e]) + 1] ==
        IF k = 1 THEN 0 ELSE start[k - 1] + ExtentsOf[e][k - 1].blocks
  IN  start[i]

SegmentAt(e, o) ==
  CHOOSE i \in 1 .. Len(ExtentsOf[e]) :
    SegmentStart(e, i) <= o /\ o < SegmentStart(e, i) + ExtentsOf[e][i].blocks

(* libfsxfs_data_stream_initialize: an entry without data needs no extents.*)
InMemory(e) == SizeOf[e] = 0 \/ InlineOf[e] # <<>>

(* The size is covered by the data, as the array of extents of a file is   *)
(* (module Extents), and no extent leaves its allocation group: images     *)
(* that are not damaged.                                                   *)
ASSUME UndamagedAssumption ==
  \A e \in Entries :
    /\ SizeOf[e] <= IF InMemory(e) THEN Len(InlineOf[e])
                    ELSE SegmentStart(e, Len(ExtentsOf[e]) + 1)
    /\ \A i \in 1 .. Len(ExtentsOf[e]) :
         LET x == ExtentsOf[e][i]
         IN  ~x.sparse => (x.physical % Relative) + x.blocks <= GroupBlocks

(* A disciplined caller lets a read of another entry finish first when     *)
(* both use the file IO handle.                                            *)
MayRead(e) ==
  Disciplined =>
    \A t \in Threads : pc[t] = "idle" \/ entry[t] = e \/ InMemory(e) \/ InMemory(entry[t])

------------------------------------------------------------------------------

NoAnswer == [entry |-> CHOOSE e \in Entries : TRUE, from |-> 0, data |-> <<>>]
Forgotten == answer' = NoAnswer /\ given' = <<0, 0>>

Init ==
  /\ position = 0
  /\ cursor = [e \in Entries |-> 0]
  /\ offset = [e \in Entries |-> 0]
  /\ owner = [e \in Entries |-> NoThread]
  /\ pc = [t \in Threads |-> "idle"]
  /\ entry = [t \in Threads |-> CHOOSE e \in Entries : TRUE]
  /\ at = [t \in Threads |-> 0]
  /\ todo = [t \in Threads |-> 0]
  /\ buffer = [t \in Threads |-> <<>>]
  /\ answer = NoAnswer
  /\ given = <<0, 0>>
  /\ served = [e \in Entries |-> [from |-> 0, data |-> <<>>]]

(* Wait for the lock of the entry.                                         *)
Begin(t, e, o, n) ==
  /\ pc[t] = "idle" /\ owner[e] = NoThread /\ MayRead(e)
  /\ owner' = [owner EXCEPT ![e] = t]
  /\ entry' = [entry EXCEPT ![t] = e]
  /\ offset' = [offset EXCEPT ![e] = o]
  /\ at' = [at EXCEPT ![t] = o]
  /\ todo' = [todo EXCEPT ![t] = IF o < SizeOf[e] THEN Smaller(n, SizeOf[e] - o) ELSE 0]
  /\ buffer' = [buffer EXCEPT ![t] = <<>>]
  /\ pc' = [pc EXCEPT ![t] = "segment"]
  /\ Forgotten
  /\ UNCHANGED <<position, cursor>>

(* libfsxfs_file_entry_read_buffer: from where the stream is.              *)
ReadBuffer(t, e, n) == Begin(t, e, offset[e], n) /\ UNCHANGED served

SeekOffsetUnlocked(t, e, o) ==
  /\ pc[t] = "idle" /\ MayRead(e)
  /\ offset' = [offset EXCEPT ![e] = o]
  /\ served' = [served EXCEPT ![e] = [from |-> o, data |-> <<>>]]
  /\ Forgotten
  /\ UNCHANGED <<position, cursor, owner, thread>>

(* libfsxfs_file_entry_read_buffer_at_offset: the stream is moved first.   *)
ReadBufferAtOffset(t, e, o, n) ==
  /\ Begin(t, e, o, n)
  /\ served' = [served EXCEPT ![e] = [from |-> o, data |-> <<>>]]

SeekOffset(t, e, o) ==
  /\ pc[t] = "idle" /\ owner[e] = NoThread /\ MayRead(e)
  /\ offset' = [offset EXCEPT ![e] = o]
  /\ served' = [served EXCEPT ![e] = [from |-> o, data |-> <<>>]]
  /\ Forgotten
  /\ UNCHANGED <<position, cursor, owner, thread>>

(* libfsxfs_block_data_handle_seek_segment_offset, called for every        *)
(* segment, sparse or not.                                                 *)
SeekSegment(t) ==
  LET e == entry[t]
      i == SegmentAt(e, at[t])
  IN  /\ ~InMemory(e) /\ pc[t] = "segment" /\ todo[t] > 0
      /\ position' = Address(ExtentsOf[e][i].physical) + at[t] - SegmentStart(e, i)
      /\ pc' = [pc EXCEPT ![t] = "data"]
      /\ UNCHANGED <<cursor, offset, owner, entry, at, todo, buffer, answer, given, served>>

(* The file system block number that is stored at a position of the disk.  *)
Disk(p) == (p \div GroupBlocks) * Relative + (p % GroupBlocks)

(* libfsxfs_block_data_handle_read_segment_data: zeros for a sparse        *)
(* segment, otherwise whatever is at the position of the handle.           *)
ReadSegment(t) ==
  LET e == entry[t]
      i == SegmentAt(e, at[t])
      n == Smaller(todo[t], SegmentStart(e, i) + ExtentsOf[e][i].blocks - at[t])
  IN  /\ ~InMemory(e) /\ pc[t] = "data"
      /\ buffer' = [buffer EXCEPT ![t] = @ \o
           [k \in 1 .. n |-> IF ExtentsOf[e][i].sparse THEN 0 ELSE Disk(position + k - 1)]]
      /\ position' = IF ExtentsOf[e][i].sparse THEN position ELSE position + n
      /\ at' = [at EXCEPT ![t] = @ + n]
      /\ todo' = [todo EXCEPT ![t] = @ - n]
      /\ pc' = [pc EXCEPT ![t] = "segment"]
      /\ UNCHANGED <<cursor, offset, owner, entry, answer, given, served>>

(* libfsxfs_buffer_data_handle_seek_segment_offset.                        *)
SeekBuffer(t) ==
  LET e == entry[t]
  IN  /\ InMemory(e) /\ pc[t] = "segment" /\ todo[t] > 0
      /\ cursor' = [cursor EXCEPT ![e] = at[t]]
      /\ pc' = [pc EXCEPT ![t] = "data"]
      /\ UNCHANGED <<position, offset, owner, entry, at, todo, buffer, answer, given, served>>

(* libfsxfs_buffer_data_handle_read_segment_data: what is left behind the  *)
(* position of the entry, which moves on.                                  *)
ReadBufferData(t) ==
  LET e == entry[t]
      n == Smaller(todo[t], SizeOf[e] - cursor[e])
  IN  /\ InMemory(e) /\ pc[t] = "data"
      /\ buffer' = [buffer EXCEPT ![t] = @ \o SubSeq(InlineOf[e], cursor[e] + 1, cursor[e] + n)]
      /\ cursor' = [cursor EXCEPT ![e] = @ + n]
      /\ at' = [at EXCEPT ![t] = @ + n]
      /\ todo' = [todo EXCEPT ![t] = @ - n]
      /\ pc' = [pc EXCEPT ![t] = "segment"]
      /\ UNCHANGED <<position, offset, owner, entry, answer, given, served>>

(* The call returns and its locals are gone.                               *)
Forget(t) ==
  /\ at' = [at EXCEPT ![t] = 0]
  /\ buffer' = [buffer EXCEPT ![t] = <<>>]

(* The buffer is full or the stream at its end: the lock is released.      *)
ReadEnds(t) ==
  LET e == entry[t]
  IN  /\ pc[t] = "segment" /\ todo[t] = 0
      /\ answer' = [entry |-> e, from |-> offset[e], data |-> buffer[t]]
      /\ served' = [served EXCEPT ![e].data = @ \o buffer[t]]
      /\ offset' = [offset EXCEPT ![e] = at[t]]
      /\ owner' = [owner EXCEPT ![e] = NoThread]
      /\ pc' = [pc EXCEPT ![t] = "idle"]
      /\ Forget(t)
      /\ UNCHANGED <<position, cursor, entry, todo, given>>

(* A read of the disk that fails: the answer is an error, the lock is      *)
(* released; the offset of the stream is then anywhere in between.         *)
ReadFails(t) ==
  LET e == entry[t]
  IN  /\ ~InMemory(e) /\ pc[t] = "data"
      /\ \E o \in offset[e] .. at[t] :
           /\ offset' = [offset EXCEPT ![e] = o]
           /\ served' = [served EXCEPT ![e] = [from |-> o, data |-> <<>>]]
      /\ owner' = [owner EXCEPT ![e] = NoThread]
      /\ pc' = [pc EXCEPT ![t] = "idle"]
      /\ todo' = [todo EXCEPT ![t] = 0]
      /\ Forget(t)
      /\ UNCHANGED <<position, cursor, entry, answer, given>>

(* libfsxfs_file_entry_get_extent_by_index.                                *)
GetExtent(t, e, i) ==
  /\ pc[t] = "idle" /\ owner[e] = NoThread
  /\ given' = <<ExtentsOf[e][i].physical, ExtentsOf[e][i].physical>>
  /\ answer' = NoAnswer
  /\ UNCHANGED <<stream, thread, served>>

Call(t) ==
  \E e \in Entries :
    \/ \E n \in 1 .. MaxRead : ReadBuffer(t, e, n)
    \/ \E o \in 0 .. SizeOf[e] : ReadBufferAtOffset(t, e, o, MaxRead) \/ SeekOffset(t, e, o)
    \/ \E i \in 1 .. Len(ExtentsOf[e]) : GetExtent(t, e, i)

Continue(t) ==
  SeekSegment(t) \/ ReadSegment(t) \/ SeekBuffer(t) \/ ReadBufferData(t) \/ ReadEnds(t)

Next == \E t \in Threads : Call(t) \/ Continue(t) \/ ReadFails(t)

Spec == Init /\ [][Next]_vars
------------------------------------------------------------------------------

(* What the entry holds at an offset: its inline data or the block its     *)
(* extents name.                                                           *)
BlockAt(e, o) ==
  LET i == SegmentAt(e, o)
      x == ExtentsOf[e][i]
  IN  IF InMemory(e) THEN InlineOf[e][o + 1]
      ELSE IF x.sparse THEN 0 ELSE x.physical + o - SegmentStart(e, i)

(* The type invariant.                                                     *)
TypeOK ==
  /\ position \in Nat /\ cursor \in [Entries -> Nat]
  /\ offset \in [Entries -> Nat]
  /\ owner \in [Entries -> Threads \cup {NoThread}]
  /\ pc \in [Threads -> {"idle", "segment", "data"}]
  /\ entry \in [Threads -> Entries]
  /\ at \in [Threads -> Nat] /\ todo \in [Threads -> Nat]
  /\ buffer \in [Threads -> Seq(Nat)]
  /\ answer \in [entry : Entries, from : Nat, data : Seq(Nat)]
  /\ given \in Nat \X Nat
  /\ served \in [Entries -> [from : Nat, data : Seq(Nat)]]

(* "Reads data at a specific offset": every read gives the data of its own *)
(* entry at its own offset, whatever else is read at the same time.        *)
ReadsItsData ==
  \A k \in 1 .. Len(answer.data) :
    answer.data[k] = BlockAt(answer.entry, answer.from + k - 1)

(* Reads that follow each other, on whatever threads, give successive      *)
(* pieces of the entry: none twice and none left out.                      *)
StreamContinues ==
  \A e \in Entries :
    owner[e] = NoThread =>
      /\ offset[e] = served[e].from + Len(served[e].data)
      /\ \A k \in 1 .. Len(served[e].data) :
           served[e].data[k] = BlockAt(e, served[e].from + k - 1)

(* The file offset of the documentation: an extent is given with the       *)
(* offset its data is read from.                                           *)
GivenOffsetHoldsData == given[2] = Address(given[1])
===============================================================================
