------------------------------- MODULE FileEntry -------------------------------
(***************************************************************************)
(* A file entry under calls from several threads, and what is obtained     *)
(* from it.  The entry reads three things when they are first asked for,   *)
(* and keeps them: the directory, the array of extended attributes and the *)
(* target of a symbolic link.  The number of sub file entries is asked for *)
(* under the read lock of the entry, everything else of these under its    *)
(* write lock.  A step of a call is one access to the pointer of what is   *)
(* kept, or one part of it that is read from the image.                    *)
(*                                                                         *)
(* An extended attribute that is obtained points into the array and the    *)
(* inode of the entry; a sub file entry has an inode and a copy of its     *)
(* directory entry of its own.                                             *)
(***************************************************************************)
EXTENDS Integers, FiniteSets, Functions

CONSTANTS
  Threads,     \* threads that share the file entry
  NoThread,    \* nobody holds the lock for writing
  Parts,       \* entries of the directory, attributes and bytes of the target
  Kinds,       \* what the file entry may be
  MaxReads,    \* bound: directories, arrays and targets allocated in a behaviour
  MaxCounters, \* discipline: threads that ask for the number at once
  FreesInOrder \* discipline: extended attributes are freed before their entry

ASSUME FileEntryAssumption ==
  /\ NoThread \notin Threads
  /\ Parts \in Nat \ {0}
  /\ Kinds \subseteq {"directory", "link", "file"}
  /\ MaxReads \in Nat
  /\ MaxCounters \in Nat
  /\ FreesInOrder \in BOOLEAN

NULL == 0
Objects == 1 .. MaxReads
Freed == -1
Error == -1
Unset == -2    \* the caller's variable was not written
None == -3     \* no answer yet

Caches == {"directory", "attributes", "target"}
Operations == {"count", "sub", "number", "attribute", "named", "has", "target"}

(* What a call needs of what the entry keeps.                              *)
Cache(o) ==
  CASE o \in {"count", "sub"} -> "directory"
    [] o = "target" -> "target"
    [] OTHER -> "attributes"

VARIABLES
  kind,         \* the file type in the mode of the inode
  live,         \* the file entry is not freed
  kept,         \* what the entry has: directory, extended_attributes_array, symbolic_link_data
  size,         \* parts read so far of every object ever allocated, or Freed
  reads,        \* objects allocated
  readers, writer, \* read_write_lock
  pc, op,       \* per thread: step and operation
  index,        \* per thread: the index or the name asked for
  reading,      \* per thread: the object it fills
  result,       \* per thread: result is not -1 so far
  answer,       \* per thread: what the last call gave, a number or an index
  attribute,    \* per thread: the array its extended attribute points into
  crashed       \* something that was freed was used

lock == <<readers, writer>>
held == <<attribute, live>>
call == <<op, index>>
vars == <<kind, live, kept, size, reads, lock, pc, op, index, reading,
          result, answer, attribute, crashed>>

Goto(t, l) == pc' = [pc EXCEPT ![t] = l]
Fail(t) == result' = [result EXCEPT ![t] = FALSE]
Answer(t, a) == answer' = [answer EXCEPT ![t] = a]

Init ==
  /\ kind \in Kinds
  /\ live = TRUE
  /\ kept = [c \in Caches |-> NULL]
  /\ size = [d \in Objects |-> Freed]
  /\ reads = 0
  /\ readers = {} /\ writer = NoThread
  /\ pc = [t \in Threads |-> "idle"]
  /\ op = [t \in Threads |-> "count"]
  /\ index = [t \in Threads |-> 0]
  /\ reading = [t \in Threads |-> NULL]
  /\ result = [t \in Threads |-> TRUE]
  /\ answer = [t \in Threads |-> None]
  /\ attribute = [t \in Threads |-> NULL]
  /\ crashed = FALSE

------------------------------------------------------------------------------

GrabForRead(t) ==
  /\ writer = NoThread
  /\ readers' = readers \cup {t} /\ UNCHANGED writer

GrabForWrite(t) ==
  /\ writer = NoThread /\ readers = {}
  /\ writer' = t /\ UNCHANGED readers

Release(t) ==
  /\ readers' = readers \ {t}
  /\ writer' = IF writer = t THEN NoThread ELSE writer
  /\ Goto(t, "idle")

Begin(t, o, i) ==
  /\ pc[t] = "idle" /\ live
  /\ op' = [op EXCEPT ![t] = o]
  /\ index' = [index EXCEPT ![t] = i]
  /\ result' = [result EXCEPT ![t] = TRUE]
  /\ Answer(t, None)
  /\ Goto(t, "check")
  /\ UNCHANGED <<kind, held, kept, size, reads, reading, crashed>>

(* libfsxfs_file_entry_get_number_of_sub_file_entries.                     *)
BeginCount(t) ==
  /\ Cardinality(readers) < MaxCounters
  /\ GrabForRead(t)
  /\ Begin(t, "count", 0)

(* The calls that grab the lock for writing.  An extended attribute is     *)
(* only obtained in a variable that is empty.                              *)
BeginOther(t, o, i) ==
  /\ o \in {"attribute", "named"} => attribute[t] = NULL
  /\ GrabForWrite(t)
  /\ Begin(t, o, i)

Check(t) ==
  /\ pc[t] = "check"
  /\ Goto(t, IF kept[Cache(op[t])] = NULL THEN "test" ELSE "get")
  /\ UNCHANGED <<kind, held, kept, size, reads, lock, call, reading, result, answer, crashed>>

------------------------------------------------------------------------------

(* Only a directory has a directory and only a link has a target.          *)
HasCache(c) == c = "attributes" \/ (c = "directory" /\ kind = "directory")
                                \/ (c = "target" /\ kind = "link")

(* get_directory, get_extended_attributes and get_symbolic_link_data begin *)
(* alike: something that is there is an error, nothing to read is not.     *)
Test(t) ==
  LET c == Cache(op[t])
  IN  /\ pc[t] = "test"
      /\ IF kept[c] # NULL THEN Fail(t) ELSE result' = result
      /\ Goto(t, IF kept[c] # NULL \/ ~HasCache(c) THEN "get" ELSE "make")
      /\ UNCHANGED <<kind, held, kept, size, reads, lock, call, reading, answer, crashed>>

(* The error paths free what the entry has now.                            *)
FreeKept(c) ==
  /\ size' = IF kept[c] = NULL THEN size ELSE [size EXCEPT ![kept[c]] = Freed]
  /\ kept' = [kept EXCEPT ![c] = NULL]

(* An initialize refuses a pointer that is set.                            *)
Make(t) ==
  LET c == Cache(op[t])
  IN  /\ pc[t] = "make"
      /\ \/ /\ kept[c] # NULL
            /\ FreeKept(c) /\ Fail(t) /\ Goto(t, "get")
            /\ UNCHANGED <<reads, reading>>
         \/ /\ kept[c] = NULL /\ reads < MaxReads
            /\ reads' = reads + 1
            /\ kept' = [kept EXCEPT ![c] = reads']
            /\ size' = [size EXCEPT ![reads'] = 0]
            /\ reading' = [reading EXCEPT ![t] = reads']
            /\ Goto(t, "read")
            /\ UNCHANGED result
         \/ /\ kept[c] = NULL   \* no memory
            /\ Fail(t) /\ Goto(t, "get")
            /\ UNCHANGED <<kept, size, reads, reading>>
      /\ UNCHANGED <<kind, held, lock, call, answer, crashed>>

(* Entries, attributes or bytes are read one after the other.              *)
ReadPart(t) ==
  LET d == reading[t]
  IN  /\ pc[t] = "read"
      /\ crashed' = (crashed \/ size[d] = Freed)
      /\ size' = IF size[d] \in 0 .. Parts - 1 THEN [size EXCEPT ![d] = @ + 1] ELSE size
      /\ Goto(t, IF size[d] \in 0 .. Parts - 1 THEN "read" ELSE "get")
      /\ UNCHANGED <<kind, held, kept, reads, lock, call, reading, result, answer>>

ReadFailsKeeping(t) ==
  /\ pc[t] = "read"
  /\ Fail(t) /\ Goto(t, "get")
  /\ UNCHANGED <<kind, held, kept, size, reads, lock, call, reading, answer, crashed>>

ReadFailsDangling(t) ==
  /\ pc[t] = "read"
  /\ size' = [size EXCEPT ![kept[Cache(op[t])]] = Freed] /\ Fail(t) /\ Goto(t, "get")
  /\ UNCHANGED <<kind, held, kept, reads, lock, call, reading, answer, crashed>>

(* A block cannot be read.                                                 *)
ReadFails(t) ==
  /\ pc[t] = "read"
  /\ FreeKept(Cache(op[t])) /\ Fail(t) /\ Goto(t, "get")
  /\ UNCHANGED <<kind, held, reads, lock, call, reading, answer, crashed>>

------------------------------------------------------------------------------

(* What a call finds when the reading is behind it.                        *)
Object(t) == kept[Cache(op[t])]
Uses(t) == crashed' = (crashed \/ (Object(t) # NULL /\ size[Object(t)] = Freed))

Return(t, o) ==
  /\ pc[t] = "get" /\ op[t] = o
  /\ Uses(t) /\ Release(t)
  /\ UNCHANGED <<kind, live, kept, size, reads, call, reading>>

Get(t, o) == Return(t, o) /\ UNCHANGED <<attribute, result>>

(* The number is written whenever there is a directory, and the result     *)
(* stays 1 when there is none and nothing failed.                          *)
GetCount(t) ==
  /\ Get(t, "count")
  /\ Answer(t, IF ~result[t] THEN Error ELSE IF Object(t) = NULL THEN Unset ELSE size[Object(t)])

AtIndexOfPart(t) ==
  IF result[t] /\ Object(t) # NULL /\ index[t] + 1 < size[Object(t)] THEN index[t] ELSE Error

(* The index is looked up in what there is; nothing there is an error.     *)
AtIndex(t) ==
  IF result[t] /\ Object(t) # NULL /\ index[t] < size[Object(t)] THEN index[t] ELSE Error

GetSubRetrying(t) ==
  /\ pc[t] = "get" /\ op[t] = "sub"
  /\ Answer(t, AtIndex(t))
  /\ IF answer'[t] = Error THEN UNCHANGED lock /\ Goto(t, "check") ELSE Release(t)
  /\ Uses(t)
  /\ UNCHANGED <<kind, held, kept, size, reads, call, reading, result>>

(* libfsxfs_file_entry_get_sub_file_entry_by_index.                        *)
GetSub(t) == Get(t, "sub") /\ Answer(t, AtIndex(t))

(* The inode of the sub file entry cannot be read or there is no memory    *)
(* for a copy of its directory entry: what was made is freed.              *)
GetSubFails(t) ==
  /\ Return(t, "sub")
  /\ Fail(t) /\ Answer(t, Error)
  /\ UNCHANGED attribute

GetNumber(t) ==
  /\ Get(t, "number")
  /\ Answer(t, IF Object(t) = NULL THEN Error ELSE size[Object(t)])

(* libfsxfs_file_entry_get_extended_attribute_by_index.                    *)
GetAttribute(t) ==
  /\ Return(t, "attribute")
  /\ Answer(t, AtIndex(t))
  /\ attribute' = [attribute EXCEPT ![t] = IF AtIndex(t) = Error THEN NULL ELSE Object(t)]
  /\ UNCHANGED result

(* The attribute at an index has the index for a name: the first one whose *)
(* name is equal, or none of them.                                         *)
Found(t) == index[t] < size[Object(t)]

(* libfsxfs_file_entry_get_extended_attribute_by_utf8_name.                *)
GetNamed(t) ==
  /\ Return(t, "named")
  /\ Answer(t, IF Object(t) = NULL THEN Error ELSE IF Found(t) THEN index[t] ELSE Unset)
  /\ attribute' = [attribute EXCEPT ![t] = IF Object(t) # NULL /\ Found(t) THEN Object(t) ELSE NULL]
  /\ UNCHANGED result

(* libfsxfs_file_entry_has_extended_attribute_by_utf8_name.                *)
GetHas(t) ==
  /\ Get(t, "has")
  /\ Answer(t, IF Object(t) = NULL THEN Error ELSE IF Found(t) THEN 1 ELSE 0)

(* The target is a string of the bytes that were read; an entry that is    *)
(* not a link has none, which is no error.                                 *)
GetTarget(t) ==
  /\ Get(t, "target")
  /\ Answer(t, IF ~result[t] THEN Error ELSE IF Object(t) = NULL THEN Unset ELSE size[Object(t)])

------------------------------------------------------------------------------

(* A name, a size or data of an extended attribute is asked for.           *)
UseAttribute(t) ==
  /\ pc[t] = "idle" /\ attribute[t] # NULL
  /\ crashed' = (crashed \/ size[attribute[t]] = Freed)
  /\ UNCHANGED <<kind, held, kept, size, reads, lock, pc, call, reading, result, answer>>

(* libfsxfs_extended_attribute_free leaves what it points to alone.        *)
FreeAttribute(t) ==
  /\ pc[t] = "idle" /\ attribute[t] # NULL
  /\ attribute' = [attribute EXCEPT ![t] = NULL]
  /\ UNCHANGED <<kind, live, kept, size, reads, lock, pc, call, reading, result, answer, crashed>>

(* libfsxfs_file_entry_free, when no call is under way.                    *)
FreeEntry ==
  /\ live
  /\ \A t \in Threads : pc[t] = "idle" /\ (FreesInOrder => attribute[t] = NULL)
  /\ live' = FALSE
  /\ size' = [d \in Objects |-> IF d \in Range(kept) THEN Freed ELSE size[d]]
  /\ kept' = [c \in Caches |-> NULL]
  /\ UNCHANGED <<kind, reads, lock, pc, call, reading, result, answer, attribute, crashed>>

(* Nothing is left to be freed.                                            *)
Ended == ~live /\ (\A t \in Threads : attribute[t] = NULL) /\ UNCHANGED vars

AnyBegin(t) ==
  \/ BeginCount(t)
  \/ \E o \in Operations \ {"count"}, i \in 0 .. Parts : BeginOther(t, o, i)

Continue(t) ==
  \/ Check(t) \/ Test(t) \/ Make(t) \/ ReadPart(t)
  \/ GetCount(t) \/ GetSub(t) \/ GetNumber(t) \/ GetAttribute(t) \/ GetNamed(t)
  \/ GetHas(t) \/ GetTarget(t)

Next ==
  \/ \E t \in Threads :
       AnyBegin(t) \/ Continue(t) \/ ReadFails(t) \/ GetSubFails(t) \/ UseAttribute(t) \/ FreeAttribute(t)
  \/ FreeEntry
  \/ Ended

(* A call that has begun runs to its end; no read need fail.               *)
Spec == Init /\ [][Next]_vars /\ \A t \in Threads : WF_vars(Continue(t))

------------------------------------------------------------------------------

Unlocked == readers = {} /\ writer = NoThread

(* The type invariant.                                                     *)
TypeOK ==
  /\ kind \in {"directory", "link", "file"} /\ live \in BOOLEAN /\ crashed \in BOOLEAN
  /\ kept \in [Caches -> {NULL} \cup Objects]
  /\ size \in [Objects -> {Freed} \cup 0 .. Parts]
  /\ reads \in 0 .. MaxReads
  /\ readers \subseteq Threads /\ writer \in Threads \cup {NoThread}
  /\ pc \in [Threads -> {"idle", "check", "test", "make", "read", "get"}]
  /\ op \in [Threads -> Operations]
  /\ index \in [Threads -> 0 .. Parts]
  /\ reading \in [Threads -> {NULL} \cup Objects]
  /\ result \in [Threads -> BOOLEAN]
  /\ answer \in [Threads -> {None, Unset, Error} \cup 0 .. Parts]
  /\ attribute \in [Threads -> {NULL} \cup Objects]

(* Between calls the entry has what it keeps whole or not at all, nothing  *)
(* else is allocated, and nothing is when the entry was freed: however     *)
(* many reads failed part of the way or were raced for.                    *)
WholeWhenUnlocked ==
  Unlocked => \A d \in Objects : size[d] = IF d \in Range(kept) THEN Parts ELSE Freed

(* "Retrieves the number of sub file entries": a number that is given is   *)
(* that of the whole directory, array or target, never of a part of it; an *)
(* index or a name is refused only when the call itself failed to read or  *)
(* there is nothing of that index or name.                                 *)
AnswersAreWhole ==
  \A t \in Threads :
    /\ op[t] \in {"count", "number", "target"} => answer[t] < 0 \/ answer[t] = Parts
    /\ op[t] = "has" /\ answer[t] >= 0 => (answer[t] = 1) = (index[t] < Parts)
    /\ op[t] = "named" /\ answer[t] = Unset => index[t] = Parts
    /\ answer[t] = Error /\ result[t] =>
         \/ op[t] \in {"sub", "attribute"} /\ index[t] = Parts
         \/ op[t] = "sub" /\ kind # "directory"

(* Neither a directory that somebody reads nor the array an extended       *)
(* attribute points into is freed.                                         *)
NoUseAfterFree == ~crashed

(* No call keeps the lock, whatever fails in it.                           *)
CallsReturn == \A t \in Threads : pc[t] # "idle" ~> pc[t] = "idle"
===============================================================================
