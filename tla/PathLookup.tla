------------------------------ MODULE PathLookup ------------------------------
(***************************************************************************)
(* libfsxfs_file_system_get_directory_entry_by_utf8_path: the path is      *)
(* split at its separators while the directories along it are read, and    *)
(* the function for UTF-16 paths does the same with 16-bit characters.     *)
(* Directories, inodes and the clone of an entry are allocated and freed   *)
(* along the way, wherever a call may fail.                                *)
(***************************************************************************)
EXTENDS Integers, Sequences, FiniteSets, SequencesExt

CONSTANTS
  Characters, Separator, Nul,
  Inodes, Root, NoInode,
  Listings,    \* what the directories may hold: functions from inodes to
               \* sequences of [name, inode]; empty for what is no directory
  Paths        \* bound: the paths that are looked up

Name == Seq(Characters \ {Separator, Nul})
Entry == [name : Name, inode : Inodes]
NoEntry == [name |-> <<>>, inode |-> NoInode]

ASSUME PathLookupAssumption ==
  /\ {Separator, Nul} \subseteq Characters
  /\ Root \in Inodes /\ NoInode \notin Inodes
  /\ \A l \in Listings : l \in [Inodes -> Seq(Entry)]
  /\ \A p \in Paths : p \in Seq(Characters)

VARIABLES
  listing,    \* the tree of directories on the disk
  path,       \* utf8_string
  next,       \* utf8_string_index, from 1 on
  first,      \* utf8_string_segment
  length,     \* utf8_string_segment_length
  directory,  \* the directory that is held: its inode, or NoInode
  inode,      \* safe_inode that is held
  number,     \* safe_inode_number
  entry,      \* safe_directory_entry, a pointer into a directory
  entryLives, \* whether that directory is not freed yet
  clone,      \* *directory_entry, or NoEntry
  result,
  allocated,  \* the number of directories, inodes and clones in memory
  pc          \* the step of the loop, or "found", "not found", "error"

input == <<listing, path>>
segment == <<next, first, length>>
found == <<number, entry>>
memory == <<directory, inode, entryLives, clone, allocated>>
vars == <<input, segment, found, memory, result, pc>>

Delimits(c) == c \in {Separator, Nul}

Finished == pc \in {"found", "not found", "error"}

(* libfsxfs_directory_get_entry_by_utf8_name: the first entry of the name. *)
EntryOf(entries, name) ==
  LET k == SelectInSeq(entries, LAMBDA e : e.name = name)
  IN  IF k = 0 THEN NoEntry ELSE entries[k]

------------------------------------------------------------------------------

Init ==
  /\ listing \in Listings
  /\ path \in Paths
  /\ next = IF path # <<>> /\ path[1] = Separator THEN 2 ELSE 1
  /\ first = 0 /\ length = 0
  /\ directory = NoInode /\ inode = NoInode
  /\ number = Root
  /\ entry = NoEntry /\ entryLives = FALSE
  /\ clone = NoEntry
  /\ result = 0
  /\ allocated = [directory |-> 0, inode |-> 0, clone |-> 0]
  /\ pc = "inode"

(* What a pointer holds, which a free of it takes out of memory.           *)
HeldBy(pointer, null) == IF pointer = null THEN 0 ELSE 1

(* Any call of the loop may fail: an inode or a directory that cannot be   *)
(* read, a character that is no UTF-8, memory that is not to be had.  What *)
(* the three pointers hold is freed.                                       *)
Fail ==
  /\ ~Finished
  /\ allocated' = [directory |-> allocated.directory - HeldBy(directory, NoInode),
                   inode |-> allocated.inode - HeldBy(inode, NoInode),
                   clone |-> allocated.clone - HeldBy(clone, NoEntry)]
  /\ directory' = NoInode /\ inode' = NoInode /\ clone' = NoEntry
  /\ entryLives' = FALSE
  /\ pc' = "error"
  /\ UNCHANGED <<input, segment, found, result>>

(* The inode of the root, or of the entry that was found.  A path of one   *)
(* character is the root.                                                  *)
ReadInode ==
  /\ pc = "inode"
  /\ inode' = number
  /\ allocated' = [allocated EXCEPT !.inode = @ + 1]
  /\ IF directory = NoInode /\ Len(path) <= 1
       THEN result' = 1 /\ pc' = "end"
       ELSE result' = result /\ pc' = "loop"
  /\ UNCHANGED <<input, segment, found, directory, entryLives, clone>>

LoseDirectory ==
  /\ pc = "loop" /\ next <= Len(path)
  /\ directory' = NoInode
  /\ pc' = "directory"
  /\ UNCHANGED <<input, segment, found, inode, entryLives, clone, allocated, result>>

(* The directory of the segment before.                                    *)
FreeDirectory ==
  /\ pc = "loop" /\ next <= Len(path)
  /\ directory' = NoInode /\ entryLives' = FALSE
  /\ allocated' = [allocated EXCEPT !.directory = @ - HeldBy(directory, NoInode)]
  /\ pc' = "directory"
  /\ UNCHANGED <<input, segment, found, inode, clone, result>>

(* What is no directory is read as an empty one.                           *)
ReadDirectory ==
  /\ pc = "directory"
  /\ directory' = inode
  /\ allocated' = [allocated EXCEPT !.directory = @ + 1]
  /\ first' = next
  /\ length' = next
  /\ pc' = "segment"
  /\ UNCHANGED <<input, next, found, inode, entryLives, clone, result>>

ReadCharacterOfName ==
  /\ pc = "segment" /\ next <= Len(path)
  /\ next' = next + 1
  /\ pc' = IF Delimits(path[next]) THEN "lookup" ELSE "segment"
  /\ UNCHANGED <<input, first, length, found, memory, result>>

(* The delimiter is consumed but no part of the segment.                   *)
ReadCharacter ==
  /\ pc = "segment" /\ next <= Len(path)
  /\ next' = next + 1
  /\ length' = IF Delimits(path[next]) THEN length + 1 ELSE length
  /\ pc' = IF Delimits(path[next]) THEN "lookup" ELSE "segment"
  /\ UNCHANGED <<input, first, found, memory, result>>

EndOfPath ==
  /\ pc = "segment" /\ next > Len(path)
  /\ pc' = "lookup"
  /\ UNCHANGED <<input, segment, found, memory, result>>

(* The length is what was read since the segment began.                    *)
Size == next - length
EntryOfSegment == EntryOf(listing[directory], SubSeq(path, first, first + Size - 1))

(* The segment is empty or names nothing.                                  *)
LookUpFails ==
  /\ pc = "lookup"
  /\ Size = 0 \/ EntryOfSegment = NoEntry
  /\ length' = Size
  /\ result' = 0
  /\ pc' = "end"
  /\ UNCHANGED <<input, next, first, found, memory>>

LookUpFreesDirectory ==
  /\ pc = "lookup"
  /\ Size # 0 /\ EntryOfSegment # NoEntry
  /\ length' = Size
  /\ result' = 1
  /\ entry' = EntryOfSegment /\ entryLives' = FALSE
  /\ number' = EntryOfSegment.inode
  /\ directory' = NoInode /\ inode' = NoInode
  /\ allocated' = [allocated EXCEPT !.directory = @ - 1, !.inode = @ - 1]
  /\ pc' = "inode"
  /\ UNCHANGED <<input, next, first, clone>>

(* The inode is freed before the one of the entry is read.                 *)
LookUp ==
  /\ pc = "lookup"
  /\ Size # 0 /\ EntryOfSegment # NoEntry
  /\ length' = Size
  /\ result' = 1
  /\ entry' = EntryOfSegment /\ entryLives' = TRUE
  /\ number' = EntryOfSegment.inode
  /\ inode' = NoInode
  /\ allocated' = [allocated EXCEPT !.inode = @ - HeldBy(inode, NoInode)]
  /\ pc' = "inode"
  /\ UNCHANGED <<input, next, first, directory, clone>>

EndOfSegments ==
  /\ pc = "loop" /\ next > Len(path)
  /\ pc' = "end"
  /\ UNCHANGED <<input, segment, found, memory, result>>

(* Nothing was found: the inode of the last directory is freed.            *)
FreeInode ==
  /\ pc = "end" /\ result = 0
  /\ inode' = NoInode
  /\ allocated' = [allocated EXCEPT !.inode = @ - HeldBy(inode, NoInode)]
  /\ pc' = "close"
  /\ UNCHANGED <<input, segment, found, directory, entryLives, clone, result>>

(* The clone of no entry, which the root has, is none.                     *)
CloneEntry ==
  /\ pc = "end" /\ result # 0
  /\ clone' = entry
  /\ allocated' = [allocated EXCEPT !.clone = @ + HeldBy(entry, NoEntry)]
  /\ pc' = "close"
  /\ UNCHANGED <<input, segment, found, directory, inode, entryLives, result>>

(* "Directory needs to be freed after making a clone of directory_entry".  *)
CloseDirectory ==
  /\ pc = "close"
  /\ directory' = NoInode /\ entryLives' = FALSE
  /\ allocated' = [allocated EXCEPT !.directory = @ - HeldBy(directory, NoInode)]
  /\ pc' = "return"
  /\ UNCHANGED <<input, segment, found, inode, clone, result>>

ReturnWhatIsHeld ==
  /\ pc = "return"
  /\ pc' = "found"
  /\ UNCHANGED <<input, segment, found, memory, result>>

Return ==
  /\ pc = "return"
  /\ pc' = IF result = 0 THEN "not found" ELSE "found"
  /\ UNCHANGED <<input, segment, found, memory, result>>

Step ==
  \/ ReadInode \/ FreeDirectory \/ ReadDirectory \/ ReadCharacter \/ EndOfPath
  \/ LookUp \/ LookUpFails \/ EndOfSegments
  \/ FreeInode \/ CloneEntry \/ CloseDirectory \/ Return

(* The call has returned.                                                  *)
Returned == Finished /\ UNCHANGED vars

Next == Step \/ Fail \/ Returned

(* A call goes on as long as it can; it need not ever fail.                *)
Spec == Init /\ [][Next]_vars /\ WF_vars(Step)

------------------------------------------------------------------------------

(* What a path means: its names lie between its cuts, which are its ends   *)
(* and its delimiters.  An empty name at its start, before a separator, or *)
(* at its end is none.                                                     *)
Cuts(p) == {0, Len(p) + 1} \cup {k \in 1 .. Len(p) : Delimits(p[k])}
FirstCut(p) == IF p # <<>> /\ p[1] = Separator THEN 1 ELSE 0
LastCut(p) == IF p = <<>> \/ Delimits(p[Len(p)]) THEN Len(p) ELSE Len(p) + 1

CutBefore(p, c) == CHOOSE b \in Cuts(p) : b < c /\ \A k \in b + 1 .. c - 1 : k \notin Cuts(p)

(* The file at every cut: the one the name before the cut has in the       *)
(* directory at the cut before that, NoInode when there is none.  An empty *)
(* name names nothing.                                                     *)
FilesAlong(l, p) ==
  LET at[c \in 0 .. Len(p) + 1] ==
        IF c <= FirstCut(p) THEN Root
        ELSE LET cut == CutBefore(p, c)
             IN  IF at[cut] = NoInode \/ c = cut + 1 THEN NoInode
                 ELSE EntryOf(l[at[cut]], SubSeq(p, cut + 1, c - 1)).inode
  IN  at

FileOf(l, p) == FilesAlong(l, p)[LastCut(p)]

(* The type invariant: a segment lies in the path.                         *)
TypeOK ==
  /\ next \in 1 .. Len(path) + 1
  /\ first \in 0 .. Len(path)
  /\ length \in 0 .. Len(path) + 1
  /\ {directory, inode} \subseteq Inodes \cup {NoInode}
  /\ number \in Inodes
  /\ {entry, clone} \subseteq Entry \cup {NoEntry}
  /\ entryLives \in BOOLEAN
  /\ result \in {0, 1}
  /\ allocated \in [directory : Nat, inode : Nat, clone : Nat]
  /\ pc \in {"inode", "loop", "directory", "segment", "lookup", "end", "close", "return",
             "found", "not found", "error"}

(* "Retrieves the file entry for an UTF-8 encoded path specified by the    *)
(* path": the file the names of the path lead to, and none when they lead  *)
(* nowhere.                                                                *)
FindsFileOfPath ==
  /\ pc = "found" => number = FileOf(listing, path)
  /\ pc = "not found" => FileOf(listing, path) = NoInode

(* The same for the paths of other lengths than one.                       *)
FindsFileOfLongPath == Len(path) # 1 => FindsFileOfPath

(* The inode number, the inode and the entry that are returned are those   *)
(* of one file; the root has no entry.                                     *)
ReturnsOneFile ==
  pc = "found" =>
    /\ inode = number
    /\ clone # NoEntry => clone.inode = number
    /\ clone = NoEntry => number = Root

(* Of all directories, inodes and clones that were allocated along the     *)
(* path nothing is in memory after the call but the inode and the clone    *)
(* that are returned, whichever of its calls failed.                       *)
NothingIsLeft ==
  Finished =>
    allocated = [directory |-> 0,
                 inode |-> IF pc = "found" THEN 1 ELSE 0,
                 clone |-> IF pc = "found" THEN HeldBy(clone, NoEntry) ELSE 0]

(* The entry that is cloned lies in a directory that is not freed.  The    *)
(* pointer to it outlives the directory when another segment follows.      *)
ClonesLiveEntry == pc = "end" /\ result # 0 /\ entry # NoEntry => entryLives

(* Every call returns, also where directories contain each other.          *)
CallReturns == <>Finished
===============================================================================
