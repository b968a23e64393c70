-------------------------------- MODULE Pyfsxfs --------------------------------
(***************************************************************************)
(* The Python binding under a program of several threads: the objects it   *)
(* makes (a volume, file entries, extended attributes and the sequences of *)
(* both), their reference counts and what keeps what alive; the global     *)
(* interpreter lock, which a call gives up while it is in the library; the *)
(* locks of the library; and the file object of the program, which the     *)
(* library reads through callbacks that need the interpreter lock again.   *)
(*                                                                         *)
(* The program may drop a name at any time, also of an object another      *)
(* thread is calling: the frame of a call holds a reference of its own.    *)
(***************************************************************************)
EXTENDS Integers, FiniteSets

CONSTANTS
  Threads, NoThread,
  MaxObjects,       \* bound: objects made in a behaviour
  MaxCalls,         \* bound: calls in a behaviour
  NumberOfItems,    \* sub file entries and attributes of every file entry
  Disciplined       \* TRUE when the program opens and closes a volume only
                    \* while it holds nothing else of it and calls nothing else

ASSUME PyfsxfsAssumption ==
  /\ IsFiniteSet(Threads) /\ NoThread \notin Threads
  /\ MaxObjects \in Nat \ {0} /\ MaxCalls \in Nat /\ NumberOfItems \in Nat
  /\ Disciplined \in BOOLEAN

Ids == 1 .. MaxObjects
Sequential == {"entries", "attributes"}
Kinds == {"volume", "entry", "attribute"} \cup Sequential

VARIABLES
  gil,      \* the thread that holds the global interpreter lock
  objects,  \* the Python objects ever made
  names,    \* those the program has a name for
  library,  \* objects whose libfsxfs object is alive
  loose,    \* libfsxfs objects that no Python object has yet
  volume,   \* the libfsxfs volume: "closed" or what it was opened with
  handle,   \* whether file_io_handle of the volume is set
  file,     \* the file object: whether the program names it, references
  lock,     \* read/write lock of every libfsxfs object
  pc, frame, \* per thread: step and what the call has
  calls,    \* number of calls so far
  stale     \* history: what was used after it was freed or closed

vars == <<gil, objects, names, library, loose, volume, handle, file, lock, pc, frame, calls, stale>>
clibrary == <<library, loose, volume, lock, stale>>

NoObject == [kind |-> "none", parent |-> 0, of |-> 0, refs |-> 0, index |-> 0]
NoFrame == [op |-> "none", self |-> 0, target |-> 0, index |-> 0, result |-> "none"]

Live == {o \in Ids : objects[o].kind \notin {"none", "gone"}}
IsA(o, kind) == o \in Live /\ objects[o].kind = kind

(* Steps that run Python code and need the interpreter lock.               *)
PythonSteps == {"python", "callback", "back", "decref", "dealloc", "freed", "hfree", "closed"}

Goto(t, step) == pc' = [pc EXCEPT ![t] = step]
Has(t, step) == pc[t] = step /\ (step \in PythonSteps => gil = t)

Init ==
  /\ gil = NoThread
  /\ objects = [o \in Ids |-> NoObject] /\ names = {}
  /\ library = {} /\ loose = 0
  /\ volume = "closed" /\ handle = FALSE
  /\ file = [named |-> TRUE, refs |-> 1]
  /\ lock = [o \in Ids |-> NoThread]
  /\ pc = [t \in Threads |-> "python"] /\ frame = [t \in Threads |-> NoFrame]
  /\ calls = 0 /\ stale = {}

(* The interpreter switches between threads that run Python code.          *)
TakeGil(t) ==
  /\ gil = NoThread /\ pc[t] \in PythonSteps
  /\ gil' = t
  /\ UNCHANGED <<objects, names, clibrary, handle, file, pc, frame, calls>>

LeaveGil(t) ==
  /\ Has(t, "python")
  /\ gil' = NoThread
  /\ UNCHANGED <<objects, names, clibrary, handle, file, pc, frame, calls>>

(* A thread of the program ends.                                           *)
Exit(t) ==
  /\ Has(t, "python")
  /\ gil' = NoThread
  /\ Goto(t, "ended")
  /\ UNCHANGED <<objects, names, clibrary, handle, file, frame, calls>>

------------------------------------------------------------------------------
(* Objects                                                                 *)

IncRef(table, o) == IF o = 0 THEN table ELSE [table EXCEPT ![o].refs = @ + 1]

IsNext(o) == o \in Ids /\ objects[o].kind = "none" /\ \A q \in 1 .. o - 1 : objects[q].kind # "none"

NewBorrowing(o, kind, parent, of) ==
  /\ IsNext(o)
  /\ objects' = [objects EXCEPT ![o] = [NoObject EXCEPT !.kind = kind, !.parent = parent,
                                                        !.of = of, !.refs = 1]]
  /\ names' = names \cup {o}

(* The object is given to the program; its parent is referenced by it.     *)
New(o, kind, parent, of) ==
  /\ IsNext(o)
  /\ objects' = IncRef([objects EXCEPT ![o] = [NoObject EXCEPT !.kind = kind, !.parent = parent,
                                                               !.of = of, !.refs = 1]], parent)
  /\ names' = names \cup {o}

(* pyfsxfs_volume_init; this program makes one volume.                     *)
VolumeInit(t) ==
  /\ Has(t, "python")
  /\ New(1, "volume", 0, 0)
  /\ library' = library \cup {1}
  /\ UNCHANGED <<gil, loose, volume, handle, file, lock, pc, frame, calls, stale>>

(* What a reference leads to goes when it was the last.                    *)
DecRef(t) ==
  /\ Has(t, "decref")
  /\ LET o == frame[t].self
     IN  /\ objects' = [objects EXCEPT ![o].refs = @ - 1]
         /\ IF objects[o].refs = 1
              THEN Goto(t, "dealloc") /\ frame' = [frame EXCEPT ![t] = [NoFrame EXCEPT !.op = "dealloc", !.self = o]]
              ELSE Goto(t, "python") /\ frame' = [frame EXCEPT ![t] = NoFrame]
  /\ UNCHANGED <<gil, names, clibrary, handle, file, calls>>

(* The program forgets an object.                                          *)
Drop(t) ==
  /\ Has(t, "python")
  /\ \E o \in names :
       /\ names' = names \ {o}
       /\ frame' = [frame EXCEPT ![t] = [NoFrame EXCEPT !.op = "drop", !.self = o]]
  /\ Goto(t, "decref")
  /\ UNCHANGED <<gil, objects, clibrary, handle, file, calls>>

DropFile(t) ==
  /\ Has(t, "python") /\ file.named
  /\ file' = [named |-> FALSE, refs |-> file.refs - 1]
  /\ UNCHANGED <<gil, objects, names, clibrary, handle, pc, frame, calls>>

(* The object is gone, then its reference to the parent.                   *)
Finish(t, o) ==
  /\ objects' = [objects EXCEPT ![o].kind = "gone"]
  /\ IF objects[o].parent = 0
       THEN Goto(t, "python") /\ frame' = [frame EXCEPT ![t] = NoFrame]
       ELSE Goto(t, "decref") /\ frame' = [frame EXCEPT ![t] = [NoFrame EXCEPT !.op = "drop",
                                                                 !.self = objects[o].parent]]

(* pyfsxfs_file_entries_free and its like for attributes.                  *)
SequenceFree(t) ==
  /\ Has(t, "dealloc") /\ objects[frame[t].self].kind \in Sequential
  /\ Finish(t, frame[t].self)
  /\ UNCHANGED <<gil, names, clibrary, handle, file, calls>>

(* pyfsxfs_file_entry_free, pyfsxfs_extended_attribute_free.               *)
EntryFree(t) ==
  /\ Has(t, "dealloc") /\ objects[frame[t].self].kind \in {"entry", "attribute"}
  /\ gil' = NoThread
  /\ Goto(t, "cfree")
  /\ UNCHANGED <<objects, names, clibrary, handle, file, frame, calls>>

(* A volume that was opened with a file object is closed first.            *)
VolumeFree(t) ==
  /\ Has(t, "dealloc") /\ objects[frame[t].self].kind = "volume"
  /\ gil' = NoThread
  /\ IF handle THEN Goto(t, "library") ELSE Goto(t, "cfree")
  /\ frame' = [frame EXCEPT ![t].target = frame[t].self]
  /\ UNCHANGED <<objects, names, clibrary, handle, file, calls>>

(* libfsxfs_file_entry_free, libfsxfs_extended_attribute_free and          *)
(* libfsxfs_volume_free, which closes what is open.                        *)
LibraryFree(t) ==
  /\ Has(t, "cfree")
  /\ library' = library \ {frame[t].self}
  /\ volume' = IF objects[frame[t].self].kind = "volume" THEN "closed" ELSE volume
  /\ Goto(t, "freed")
  /\ UNCHANGED <<gil, objects, names, loose, handle, file, lock, frame, calls, stale>>

Freed(t) ==
  /\ Has(t, "freed")
  /\ Finish(t, frame[t].self)
  /\ UNCHANGED <<gil, names, clibrary, handle, file, calls>>

------------------------------------------------------------------------------
(* Calls                                                                   *)

InCall(t) == pc[t] \notin {"python", "ended"} /\ frame[t].op \notin {"drop", "dealloc"}
Changes == {"open", "openfile", "close"}

(* What a disciplined program waits for.                                   *)
May(op) ==
  Disciplined =>
    /\ op \in Changes => Live = {1} /\ \A t \in Threads : ~InCall(t)
    /\ \A t \in Threads : InCall(t) => frame[t].op \notin Changes

(* The frame references the object that is called; the interpreter lock is *)
(* given up around the library.                                            *)
BeginCallKeepingGil(t, op, self, target, index) ==
  /\ Has(t, "python") /\ calls < MaxCalls /\ self \in names /\ May(op)
  /\ calls' = calls + 1
  /\ frame' = [frame EXCEPT ![t] = [op |-> op, self |-> self, target |-> target, index |-> index,
                                    result |-> "none"]]
  /\ gil' = IF op = "value" THEN gil ELSE NoThread
  /\ Goto(t, "library")

BeginCall(t, op, self, target, index) ==
  /\ Has(t, "python") /\ calls < MaxCalls /\ self \in names /\ May(op)
  /\ calls' = calls + 1
  /\ frame' = [frame EXCEPT ![t] = [op |-> op, self |-> self, target |-> target, index |-> index,
                                    result |-> "none"]]
  /\ gil' = NoThread
  /\ Goto(t, "library")

(* Operations on the object itself, by kind.                               *)
Operations(kind) ==
  CASE kind = "volume" -> {"close", "value", "entry"}
    [] kind = "entry" -> {"value", "entry", "attribute", "entries", "attributes"}
    [] kind = "attribute" -> {"value"}
    [] OTHER -> {}

CallObject(t) ==
  \E o \in names : \E op \in Operations(objects[o].kind) :
    /\ BeginCall(t, op, o, o, 0)
    /\ objects' = IncRef(objects, o)
    /\ UNCHANGED <<names, clibrary, handle, file>>

(* The library refuses a volume that is open, however it was opened.       *)
Open(t) ==
  \E o \in names :
    /\ objects[o].kind = "volume"
    /\ BeginCall(t, "open", o, o, 0)
    /\ objects' = IncRef(objects, o)
    /\ UNCHANGED <<names, clibrary, handle, file>>

(* Refused at once when file_io_handle is set; the handle that is made     *)
(* references the file object.                                             *)
OpenFileObject(t) ==
  \E o \in names :
    /\ objects[o].kind = "volume" /\ ~handle /\ file.named
    /\ BeginCall(t, "openfile", o, o, 0)
    /\ objects' = IncRef(objects, o)
    /\ handle' = TRUE
    /\ file' = [file EXCEPT !.refs = @ + 1]
    /\ UNCHANGED <<names, clibrary>>

(* pyfsxfs_file_entries_iternext: the item of the current index, which is  *)
(* looked up in the entry the sequence came from.                          *)
IterNext(t) ==
  \E o \in names :
    /\ objects[o].kind \in Sequential /\ objects[o].index < NumberOfItems
    /\ BeginCall(t, "next", o, objects[o].parent, objects[o].index)
    /\ objects' = IncRef(objects, o)
    /\ UNCHANGED <<names, clibrary, handle, file>>

GetItem(t) ==
  \E o \in names : \E k \in 0 .. NumberOfItems - 1 :
    /\ objects[o].kind \in Sequential
    /\ BeginCall(t, "item", o, objects[o].parent, k)
    /\ objects' = IncRef(objects, o)
    /\ UNCHANGED <<names, clibrary, handle, file>>

------------------------------------------------------------------------------
(* In the library                                                          *)

(* A file entry points to the volume and its file system, an attribute to  *)
(* what its file entry has read.                                           *)
Usable(o) ==
  /\ o \in library
  /\ objects[o].kind \in {"entry", "attribute"} => 1 \in library /\ volume # "closed"
  /\ objects[o].kind = "attribute" => objects[o].of \in library

(* A function of the library grabs the lock of its object; a volume that   *)
(* is open with a file object is read through it.                          *)
Enter(t) ==
  /\ Has(t, "library")
  /\ lock[frame[t].target] = NoThread
  /\ lock' = [lock EXCEPT ![frame[t].target] = t]
  /\ stale' = IF Usable(frame[t].target) THEN stale ELSE stale \cup {frame[t].op}
  /\ \/ Goto(t, "inside")
     \/ /\ volume = "file" \/ frame[t].op = "openfile"
        /\ Goto(t, "callback")
  /\ UNCHANGED <<gil, objects, names, library, loose, volume, handle, file, frame, calls>>

(* pyfsxfs_file_object_io_handle_read and its like, in any number.         *)
Callback(t) ==
  /\ Has(t, "callback")
  /\ stale' = IF handle /\ file.refs > 0 THEN stale ELSE stale \cup {"callback"}
  /\ gil' = NoThread
  /\ Goto(t, "inside")
  /\ UNCHANGED <<objects, names, library, loose, volume, handle, file, lock, frame, calls>>

(* The kind of object a call asks for, "none" when there is none.          *)
Asked(f) ==
  CASE f.op \in {"entry", "attribute"} -> f.op
    [] f.op \in {"next", "item"} -> IF objects[f.self].kind = "entries" THEN "entry" ELSE "attribute"
    [] OTHER -> "none"

(* The library succeeds or fails; then its lock is released.               *)
Leave(t) ==
  /\ Has(t, "inside")
  /\ LET f == frame[t]
         closes == f.op \in {"close", "dealloc"}
     IN  \E ok \in BOOLEAN :
           /\ f.op \in {"open", "openfile"} /\ ok => volume = "closed"
           /\ closes => (ok <=> volume # "closed")
           /\ Asked(f) # "none" /\ ok => volume # "closed"
           /\ volume' = IF ~ok THEN volume
                        ELSE IF f.op \in {"open", "openfile"} THEN (IF f.op = "open" THEN "name" ELSE "file")
                        ELSE IF closes THEN "closed" ELSE volume
           /\ loose' = IF ok /\ Asked(f) # "none" THEN loose + 1 ELSE loose
           /\ frame' = [frame EXCEPT ![t].result = IF ok THEN "ok" ELSE "failed"]
  /\ lock' = [lock EXCEPT ![frame[t].target] = NoThread]
  /\ Goto(t, "back")
  /\ UNCHANGED <<gil, objects, names, library, handle, file, calls, stale>>

------------------------------------------------------------------------------
(* Back with the interpreter lock                                          *)

Back(t, op, result) == Has(t, "back") /\ frame[t].op \in op /\ frame[t].result = result

(* The call raises; pyfsxfs_volume_free gives up when the close in it      *)
(* fails.                                                                  *)
Raise(t) ==
  /\ Has(t, "back") /\ frame[t].result = "failed" /\ frame[t].op # "openfile"
  /\ Goto(t, IF frame[t].op = "dealloc" THEN "python" ELSE "decref")
  /\ UNCHANGED <<gil, objects, names, clibrary, handle, file, frame, calls>>

(* A value, or the volume is open.                                         *)
GiveValue(t) ==
  /\ Back(t, {"value", "open", "openfile"}, "ok")
  /\ Goto(t, "decref")
  /\ UNCHANGED <<gil, objects, names, clibrary, handle, file, frame, calls>>

(* The handle is freed, and with it its reference to the file object.      *)
OpenFileObjectFails(t) ==
  /\ Back(t, {"openfile"}, "failed")
  /\ IF handle THEN handle' = FALSE /\ file' = [file EXCEPT !.refs = @ - 1]
     ELSE UNCHANGED <<handle, file>>
  /\ Goto(t, "decref")
  /\ UNCHANGED <<gil, objects, names, clibrary, frame, calls>>

ParentIsVolume(kind, o) == IF objects[o].kind = "volume" THEN o ELSE objects[o].parent

(* The parent of a file entry is the volume, also of one that was got from *)
(* a file entry; the parent of an attribute is its file entry.             *)
Parent(kind, o) ==
  IF kind = "attribute" \/ objects[o].kind = "volume" THEN o ELSE objects[o].parent

(* An iteration goes on behind the item, once there is an object for it.   *)
Advanced(table, f) == IF f.op = "next" THEN [table EXCEPT ![f.self].index = @ + 1] ELSE table

Make(t) ==
  /\ Back(t, {"entry", "attribute", "next", "item"}, "ok")
  /\ LET f == frame[t] IN
       \E o \in Ids :
         /\ IsNext(o)
         /\ objects' = LET kind == Asked(f)
                           parent == Parent(kind, f.target)
                       IN  IncRef(Advanced([objects EXCEPT ![o] =
                             [NoObject EXCEPT !.kind = kind, !.parent = parent, !.of = f.target, !.refs = 1]], f),
                             parent)
         /\ names' = names \cup {o}
         /\ library' = library \cup {o}
  /\ loose' = loose - 1
  /\ Goto(t, "decref")
  /\ UNCHANGED <<gil, volume, handle, file, lock, frame, calls, stale>>

MakeFailsLosing(t) ==
  /\ Back(t, {"entry", "attribute", "next", "item"} \cup Sequential, "ok")
  /\ Goto(t, "decref")
  /\ UNCHANGED <<gil, objects, names, clibrary, handle, file, frame, calls>>

(* No Python object can be made: what the library gave is freed, and an    *)
(* iteration stays where it is.                                            *)
MakeFails(t) ==
  /\ Back(t, {"entry", "attribute", "next", "item"} \cup Sequential, "ok")
  /\ loose' = IF Asked(frame[t]) = "none" THEN loose ELSE loose - 1
  /\ Goto(t, "decref")
  /\ UNCHANGED <<gil, objects, names, library, volume, handle, file, lock, frame, calls, stale>>

(* pyfsxfs_file_entries_new: the sequence references the file entry.       *)
MakeSequence(t) ==
  /\ Back(t, Sequential, "ok")
  /\ \E o \in Ids : New(o, frame[t].op, frame[t].self, 0)
  /\ Goto(t, "decref")
  /\ UNCHANGED <<gil, clibrary, handle, file, frame, calls>>

(* The rest of pyfsxfs_volume_close: the handle is freed without the       *)
(* interpreter lock, its file object with it.                              *)
CloseBack(t) ==
  /\ Back(t, {"close", "dealloc"}, "ok")
  /\ gil' = IF handle \/ frame[t].op = "dealloc" THEN NoThread ELSE gil
  /\ Goto(t, IF handle THEN "hfree" ELSE IF frame[t].op = "dealloc" THEN "cfree" ELSE "decref")
  /\ UNCHANGED <<objects, names, clibrary, handle, file, frame, calls>>

HandleFree(t) ==
  /\ Has(t, "hfree")
  /\ file' = [file EXCEPT !.refs = @ - 1]
  /\ handle' = FALSE
  /\ gil' = NoThread
  /\ Goto(t, "closed")
  /\ UNCHANGED <<objects, names, clibrary, frame, calls>>

Closed(t) ==
  /\ Has(t, "closed")
  /\ IF frame[t].op = "dealloc" THEN gil' = NoThread /\ Goto(t, "cfree") ELSE gil' = gil /\ Goto(t, "decref")
  /\ UNCHANGED <<objects, names, clibrary, handle, file, frame, calls>>

------------------------------------------------------------------------------

Program(t) ==
  \/ VolumeInit(t) \/ Drop(t) \/ DropFile(t) \/ LeaveGil(t) \/ Exit(t)
  \/ CallObject(t) \/ Open(t) \/ OpenFileObject(t) \/ IterNext(t) \/ GetItem(t)

Continue(t) ==
  \/ DecRef(t)
  \/ SequenceFree(t) \/ EntryFree(t) \/ VolumeFree(t) \/ LibraryFree(t) \/ Freed(t)
  \/ Enter(t) \/ Callback(t) \/ Leave(t)
  \/ Raise(t) \/ GiveValue(t) \/ OpenFileObjectFails(t)
  \/ Make(t) \/ MakeFails(t) \/ MakeSequence(t)
  \/ CloseBack(t) \/ HandleFree(t) \/ Closed(t)

Next == \E t \in Threads : TakeGil(t) \/ Program(t) \/ Continue(t)

(* The interpreter makes a thread that runs Python code leave its lock     *)
(* after a while, and gives it to every thread that keeps asking for it;   *)
(* the operating system runs every thread that can go on.                  *)
Fairness(t) == WF_vars(Continue(t)) /\ WF_vars(LeaveGil(t)) /\ SF_vars(TakeGil(t))

Spec == Init /\ [][Next]_vars /\ \A t \in Threads : Fairness(t)

------------------------------------------------------------------------------

(* Threads whose frame references an object.                               *)
Holding(t) == pc[t] \notin {"python", "ended"} /\ frame[t].op # "dealloc"

Operation == {"none", "drop", "dealloc", "open", "openfile", "close", "value", "entry", "attribute",
              "entries", "attributes", "next", "item"}
Object == [kind : Kinds \cup {"none", "gone"}, parent : Ids \cup {0}, of : Ids \cup {0},
           refs : Nat, index : Nat]
Frame == [op : Operation, self : Ids \cup {0}, target : Ids \cup {0}, index : Nat,
          result : {"none", "ok", "failed"}]

(* The type invariant.                                                     *)
TypeOK ==
  /\ gil \in Threads \cup {NoThread}
  /\ objects \in [Ids -> Object]
  /\ names \subseteq Ids /\ library \subseteq Ids /\ loose \in Nat
  /\ volume \in {"closed", "name", "file"} /\ handle \in BOOLEAN
  /\ file \in [named : BOOLEAN, refs : Nat]
  /\ lock \in [Ids -> Threads \cup {NoThread}]
  /\ pc \in [Threads -> PythonSteps \cup {"ended", "library", "inside", "cfree"}]
  /\ frame \in [Threads -> Frame]
  /\ calls \in 0 .. MaxCalls

(* Every object counts its references: the name the program has for it,    *)
(* the frames of the calls on it, the objects whose parent it is.  So      *)
(* nothing is freed while something leads to it, and nothing is kept.      *)
ReferencesAreCounted ==
  /\ \A o \in Live :
       objects[o].refs = (IF o \in names THEN 1 ELSE 0)
                       + Cardinality({t \in Threads : Holding(t) /\ frame[t].self = o})
                       + Cardinality({q \in Live : objects[q].parent = o})
  /\ file.refs = (IF file.named THEN 1 ELSE 0) + (IF handle THEN 1 ELSE 0)

(* No call works on something that was freed or closed, in whatever order  *)
(* the program drops its names: a file entry keeps its volume, an          *)
(* attribute its file entry, the handle its file object.                   *)
NothingStaleIsUsed == stale = {}

(* When the program has dropped everything and no call runs, everything of *)
(* the library is freed, the file is closed and the file object given back. *)
EverythingIsGivenBack ==
  /\ loose = Cardinality({t \in Threads : pc[t] = "back" /\ frame[t].result = "ok" /\ Asked(frame[t]) # "none"})
  /\ (names = {} /\ \A t \in Threads : pc[t] \in {"python", "ended"}) =>
       Live = {} /\ library = {} /\ ~handle /\ volume = "closed"

(* Every call returns, and what has no reference left is freed: no thread  *)
(* holds the interpreter lock while it waits for a lock of the library.    *)
CallsReturn == \A t \in Threads : pc[t] \notin {"python", "ended"} ~> pc[t] = "python"
================================================================================
