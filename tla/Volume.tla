-------------------------------- MODULE Volume --------------------------------
(***************************************************************************)
(* The volume object of libfsxfs under calls from several threads: open by *)
(* name and with a file IO handle of the caller, close, the lookups that   *)
(* return file entries, and the metadata getters.  A step of a call ends   *)
(* where another thread can see or change what it works on: at the lock,   *)
(* and between two accesses made without it.                               *)
(*                                                                         *)
(* Objects the volume allocates (superblock, file system, file IO handle)  *)
(* carry the number of the open call that made them, so that a pointer to  *)
(* a freed object is told from one to its successor.                       *)
(***************************************************************************)
EXTENDS Integers, FiniteSets

CONSTANTS
  Threads,     \* the calling threads
  NoThread,    \* the lock is not held
  MaxOpens,    \* bound: open calls in a behaviour
  Disciplined  \* TRUE when callers open, close and free only a volume that no
               \* other thread is using and of which they hold no file entry

ASSUME VolumeAssumption ==
  /\ NoThread \notin Threads
  /\ MaxOpens \in Nat \ {0}
  /\ Disciplined \in BOOLEAN

NULL == 0
Opens == 1 .. MaxOpens         \* libfsxfs_volume_open creates a handle of that number
UserClosed == MaxOpens + 1     \* a file IO handle of the caller
UserOpen == MaxOpens + 2       \* one that the caller has opened
Users == {UserClosed, UserOpen}
Handles == Opens \cup Users

Superblock(n) == <<"superblock", n>>
FileSystem(n) == <<"file system", n>>

VARIABLES
  file,        \* file_io_handle
  opened,      \* file_io_handle_opened_in_library
  created,     \* file_io_handle_created_in_library
  superblock,  \* superblock: NULL or the open call that read it
  fs,          \* file_system: likewise
  format,      \* io_handle: the open call whose superblock it describes, 0 if clear
  lock,        \* read_write_lock, here only ever grabbed for write
  handle,      \* state of every file IO handle: "none", "closed", "open"
  live,        \* the superblocks and file systems that are allocated
  abort,       \* io_handle->abort
  freed,       \* libfsxfs_volume_free was called
  entries,     \* file systems that file entries held by the caller point to
  opens,       \* number of open calls so far
  pc, call, arg, \* per thread: step, number of the open call, file IO handle
  mine,        \* per thread: an open opened its handle; a close is part of a free
  crashed      \* the operations that used a NULL pointer or a freed object

volume == <<file, opened, created, superblock, fs, format, abort, freed>>
thread == <<pc, call, arg, mine>>
vars == <<volume, lock, handle, live, entries, opens, thread, crashed>>

Goto(t, l) == pc' = [pc EXCEPT ![t] = l]

AllIdle == \A t \in Threads : pc[t] = "idle"

(* A use of the volume by operation op needs these pointers to be valid.   *)
Using(op, valid) == crashed' = IF valid THEN crashed ELSE crashed \cup {op}

(* What a disciplined caller waits for before it opens, closes or frees.   *)
MayChange == Disciplined => AllIdle /\ entries = {}

Changing(t) == pc[t] \in {"check", "bfio", "begin", "first", "groups", "set", "mark",
                          "close", "clear", "free"}

(* A disciplined caller looks up only what is open, and lets an open or a  *)
(* close finish first.                                                     *)
MayUse == Disciplined => file # NULL /\ \A t \in Threads : ~Changing(t)

------------------------------------------------------------------------------

Init ==
  /\ file = NULL /\ opened = FALSE /\ created = FALSE
  /\ superblock = NULL /\ fs = NULL /\ format = NULL
  /\ abort = FALSE /\ freed = FALSE
  /\ lock = NoThread
  /\ handle = [h \in Handles |-> CASE h \in Opens -> "none"
                                   [] h = UserClosed -> "closed"
                                   [] h = UserOpen -> "open"]
  /\ live = {} /\ entries = {} /\ opens = 0
  /\ pc = [t \in Threads |-> "idle"]
  /\ call = [t \in Threads |-> NULL]
  /\ arg = [t \in Threads |-> NULL]
  /\ mine = [t \in Threads |-> FALSE]
  /\ crashed = {}

(* libfsxfs_volume_open creates a handle of its own; an open with a handle *)
(* of the caller starts at the check.                                      *)
BeginOpen(t, h) ==
  /\ pc[t] = "idle" /\ ~freed /\ opens < MaxOpens /\ MayChange
  /\ opens' = opens + 1
  /\ call' = [call EXCEPT ![t] = opens + 1]
  /\ arg' = [arg EXCEPT ![t] = h]
  /\ mine' = [mine EXCEPT ![t] = FALSE]
  /\ handle' = IF h \in Opens THEN [handle EXCEPT ![h] = "closed"] ELSE handle
  /\ Goto(t, "check")
  /\ UNCHANGED <<volume, lock, live, entries, crashed>>

(* The error paths of the two functions: a handle opened by this call is   *)
(* closed, and one created by it is freed.                                 *)
AbandonHandle(t) ==
  handle' = [handle EXCEPT ![arg[t]] =
               IF arg[t] \in Opens THEN "none" ELSE IF mine[t] THEN "closed" ELSE @]

OpenCheck(t) ==
  /\ pc[t] = "check"
  /\ IF file # NULL
       THEN AbandonHandle(t) /\ Goto(t, "idle")
       ELSE handle' = handle /\ Goto(t, "bfio")
  /\ UNCHANGED <<volume, lock, live, entries, opens, call, arg, mine, crashed>>

(* The handle is opened unless the caller has done so; that may fail.      *)
OpenHandle(t) ==
  /\ pc[t] = "bfio"
  /\ \/ /\ handle[arg[t]] = "open"
        /\ Goto(t, "begin")
        /\ UNCHANGED <<handle, mine>>
     \/ /\ handle[arg[t]] = "closed"
        /\ handle' = [handle EXCEPT ![arg[t]] = "open"]
        /\ mine' = [mine EXCEPT ![t] = TRUE]
        /\ Goto(t, "begin")
     \/ /\ handle[arg[t]] # "open"
        /\ AbandonHandle(t)
        /\ Goto(t, "idle")
        /\ UNCHANGED mine
  /\ UNCHANGED <<volume, lock, live, entries, opens, call, arg, crashed>>

(* libfsxfs_internal_volume_open_read refuses a volume that has been read. *)
OpenReadBegin(t) ==
  /\ pc[t] = "begin"
  /\ IF superblock # NULL \/ fs # NULL
       THEN AbandonHandle(t) /\ Goto(t, "idle")
       ELSE handle' = handle /\ Goto(t, "first")
  /\ UNCHANGED <<volume, lock, live, entries, opens, call, arg, mine, crashed>>

OpenReadFirstOnce(t) ==
  /\ pc[t] = "first"
  /\ superblock' = IF superblock = NULL THEN call[t] ELSE superblock
  /\ format' = IF format = NULL THEN call[t] ELSE format
  /\ fs' = IF fs = NULL THEN call[t] ELSE fs
  /\ live' = live \cup {Superblock(superblock'), FileSystem(fs')}
  /\ Goto(t, "groups")
  /\ UNCHANGED <<file, opened, created, abort, freed, lock, handle, entries,
                 opens, call, arg, mine, crashed>>

(* The first superblock is kept and described by the IO handle, and the    *)
(* file system is made, unless the volume has them.                        *)
OpenReadFirst(t) ==
  /\ pc[t] = "first"
  /\ superblock' = IF superblock = NULL THEN call[t] ELSE superblock
  /\ format' = IF superblock = NULL THEN call[t] ELSE format
  /\ fs' = IF fs = NULL THEN call[t] ELSE fs
  /\ live' = live \cup {Superblock(superblock'), FileSystem(fs')}
  /\ Goto(t, "groups")
  /\ UNCHANGED <<file, opened, created, abort, freed, lock, handle, entries,
                 opens, call, arg, mine, crashed>>

(* The other allocation groups: their superblocks are read and dropped,    *)
(* their inode information goes to the file system.                        *)
OpenReadGroups(t) ==
  /\ pc[t] = "groups"
  /\ Using("open", {Superblock(superblock), FileSystem(fs)} \subseteq live)
  /\ Goto(t, "set")
  /\ UNCHANGED <<volume, lock, handle, live, entries, opens, call, arg, mine>>

OpenReadFailsKeepingFileSystem(t) ==
  /\ pc[t] \in {"first", "groups"}
  /\ superblock' = NULL /\ fs' = fs
  /\ live' = live \ {Superblock(superblock)}
  /\ AbandonHandle(t)
  /\ Goto(t, "idle")
  /\ UNCHANGED <<file, opened, created, format, abort, freed, lock, entries,
                 opens, call, arg, mine, crashed>>

(* Any superblock may be unreadable: whatever the volume has is freed, the *)
(* IO handle keeps describing the first one.                               *)
OpenReadFails(t) ==
  /\ pc[t] \in {"first", "groups"}
  /\ superblock' = NULL /\ fs' = NULL
  /\ live' = live \ {Superblock(superblock), FileSystem(fs)}
  /\ AbandonHandle(t)
  /\ Goto(t, "idle")
  /\ UNCHANGED <<file, opened, created, format, abort, freed, lock, entries,
                 opens, call, arg, mine, crashed>>

OpenSet(t) ==
  /\ pc[t] = "set" /\ lock = NoThread
  /\ file' = arg[t]
  /\ opened' = mine[t]
  /\ Goto(t, IF arg[t] \in Users THEN "idle" ELSE "mark")
  /\ UNCHANGED <<created, superblock, fs, format, abort, freed, lock, handle,
                 live, entries, opens, call, arg, mine, crashed>>

(* Back in libfsxfs_volume_open, which grabs the lock again.               *)
OpenMark(t) ==
  /\ pc[t] = "mark" /\ lock = NoThread
  /\ created' = TRUE
  /\ Goto(t, "idle")
  /\ UNCHANGED <<file, opened, superblock, fs, format, abort, freed, lock,
                 handle, live, entries, opens, call, arg, mine, crashed>>

(* libfsxfs_volume_close looks before it locks.                            *)
BeginClose(t) ==
  /\ pc[t] = "idle" /\ ~freed /\ MayChange
  /\ file # NULL
  /\ mine' = [mine EXCEPT ![t] = FALSE]
  /\ Goto(t, "close")
  /\ UNCHANGED <<volume, lock, handle, live, entries, opens, call, arg, crashed>>

(* libfsxfs_volume_free closes what is open before it frees the rest.      *)
BeginFree(t) ==
  /\ pc[t] = "idle" /\ ~freed /\ MayChange
  /\ mine' = [mine EXCEPT ![t] = TRUE]
  /\ Goto(t, IF file # NULL THEN "close" ELSE "free")
  /\ UNCHANGED <<volume, lock, handle, live, entries, opens, call, arg, crashed>>

CloseHandleKeepingMark(t) ==
  /\ pc[t] = "close" /\ lock = NoThread
  /\ lock' = t
  /\ handle' = IF file = NULL THEN handle
               ELSE [handle EXCEPT ![file] = IF created THEN "none"
                                             ELSE IF opened THEN "closed" ELSE @]
  /\ opened' = FALSE /\ created' = created /\ file' = NULL
  /\ Goto(t, "clear")
  /\ UNCHANGED <<superblock, fs, format, abort, freed, live, entries, opens,
                 call, arg, mine, crashed>>

(* Under the lock: the handle first, ...                                   *)
CloseHandle(t) ==
  /\ pc[t] = "close" /\ lock = NoThread
  /\ lock' = t
  /\ handle' = IF file = NULL THEN handle
               ELSE [handle EXCEPT ![file] = IF created THEN "none"
                                             ELSE IF opened THEN "closed" ELSE @]
  /\ opened' = FALSE /\ created' = FALSE /\ file' = NULL
  /\ Goto(t, "clear")
  /\ UNCHANGED <<superblock, fs, format, abort, freed, live, entries, opens,
                 call, arg, mine, crashed>>

CloseClearKeepingLock(t) ==
  /\ pc[t] = "clear"
  /\ lock' = lock
  /\ format' = NULL /\ abort' = FALSE
  /\ superblock' = NULL /\ fs' = NULL
  /\ live' = live \ {Superblock(superblock), FileSystem(fs)}
  /\ Goto(t, IF mine[t] THEN "free" ELSE "idle")
  /\ UNCHANGED <<file, opened, created, freed, handle, entries, opens, call,
                 arg, mine, crashed>>

(* ... then what was read with it.  The IO handle is set to zeros.         *)
CloseClear(t) ==
  /\ pc[t] = "clear"
  /\ lock' = NoThread
  /\ format' = NULL /\ abort' = FALSE
  /\ superblock' = NULL /\ fs' = NULL
  /\ live' = live \ {Superblock(superblock), FileSystem(fs)}
  /\ Goto(t, IF mine[t] THEN "free" ELSE "idle")
  /\ UNCHANGED <<file, opened, created, freed, handle, entries, opens, call,
                 arg, mine, crashed>>

Free(t) ==
  /\ pc[t] = "free"
  /\ freed' = TRUE
  /\ Goto(t, "idle")
  /\ UNCHANGED <<file, opened, created, superblock, fs, format, abort, lock,
                 handle, live, entries, opens, call, arg, mine, crashed>>

(* From another thread or the signal handler of the caller, while a call   *)
(* is running.                                                             *)
SignalAbort ==
  /\ ~AllIdle
  /\ abort' = TRUE
  /\ UNCHANGED <<file, opened, created, superblock, fs, format, freed, lock,
                 handle, live, entries, opens, thread, crashed>>

(* The root directory and the label: the superblock is tested before the   *)
(* lock is taken and used after.                                           *)
BeginWithSuperblock(t, op) ==
  /\ pc[t] = "idle" /\ ~freed /\ MayUse
  /\ superblock # NULL
  /\ Goto(t, op)
  /\ UNCHANGED <<volume, lock, handle, live, entries, opens, call, arg, mine, crashed>>

(* The entry keeps the file system; reading the inode may fail, and does   *)
(* when the file system or the handle is missing.                          *)
Root(t) ==
  /\ pc[t] = "root" /\ lock = NoThread
  /\ Using("root", /\ Superblock(superblock) \in live
                   /\ fs # NULL => FileSystem(fs) \in live)
  /\ entries' \in {entries, entries \cup ({fs} \ {NULL})}
  /\ Goto(t, "idle")
  /\ UNCHANGED <<volume, lock, handle, live, opens, call, arg, mine>>

Label(t) ==
  /\ pc[t] = "label" /\ lock = NoThread
  /\ Using("label", superblock # NULL => Superblock(superblock) \in live)
  /\ Goto(t, "idle")
  /\ UNCHANGED <<volume, lock, handle, live, entries, opens, call, arg, mine>>

(* A lookup by path is one step under the lock: it fails on a volume that  *)
(* is not open.                                                            *)
ByPath(t) ==
  /\ pc[t] = "idle" /\ ~freed /\ MayUse /\ lock = NoThread
  /\ Using("path", fs # NULL => FileSystem(fs) \in live)
  /\ entries' \in {entries, entries \cup ({fs} \ {NULL})}
  /\ UNCHANGED <<volume, lock, handle, live, opens, thread>>

(* A lookup by inode number takes no lock (the name of the build option is *)
(* misspelt): it fetches the pointers, reads, and makes the entry.         *)
BeginByInode(t) ==
  /\ pc[t] = "idle" /\ ~freed /\ MayUse
  /\ fs # NULL /\ file # NULL
  /\ call' = [call EXCEPT ![t] = fs]
  /\ arg' = [arg EXCEPT ![t] = file]
  /\ Goto(t, "inode")
  /\ UNCHANGED <<volume, lock, handle, live, entries, opens, mine, crashed>>

ByInode(t) ==
  /\ pc[t] = "inode"
  /\ Using("inode", FileSystem(call[t]) \in live /\ handle[arg[t]] # "none")
  /\ entries' \in {entries, entries \cup {call[t]}}
  /\ Goto(t, "idle")
  /\ UNCHANGED <<volume, lock, handle, live, opens, call, arg, mine>>

(* The caller uses a file entry, which keeps pointers of the volume and    *)
(* takes no lock of it, and frees it.                                      *)
UseEntry(t) ==
  /\ pc[t] = "idle" /\ MayUse
  /\ \E e \in entries : Using("entry", FileSystem(e) \in live /\ ~freed)
  /\ UNCHANGED <<volume, lock, handle, live, entries, opens, thread>>

FreeEntry(t) ==
  /\ pc[t] = "idle"
  /\ \E e \in entries : entries' = entries \ {e}
  /\ UNCHANGED <<volume, lock, handle, live, opens, thread, crashed>>

Call(t) ==
  \/ \E h \in {opens + 1} \cup Users : BeginOpen(t, h)
  \/ BeginClose(t) \/ BeginFree(t)
  \/ \E op \in {"root", "label"} : BeginWithSuperblock(t, op)
  \/ ByPath(t) \/ BeginByInode(t) \/ UseEntry(t) \/ FreeEntry(t)

Continue(t) ==
  \/ OpenCheck(t) \/ OpenHandle(t) \/ OpenReadBegin(t)
  \/ OpenReadFirst(t) \/ OpenReadGroups(t)
  \/ OpenSet(t) \/ OpenMark(t) \/ CloseHandle(t) \/ CloseClear(t) \/ Free(t)
  \/ Root(t) \/ Label(t) \/ ByInode(t)

(* Nothing is called after the volume was freed.                           *)
Ended == freed /\ AllIdle /\ entries = {} /\ UNCHANGED vars

Next == SignalAbort \/ Ended \/ \E t \in Threads : Call(t) \/ Continue(t) \/ OpenReadFails(t)

(* The scheduler runs every thread whose call can go on; no read need fail. *)
Spec == Init /\ [][Next]_vars /\ \A t \in Threads : WF_vars(Continue(t))

------------------------------------------------------------------------------

Steps == {"idle", "check", "bfio", "begin", "first", "groups", "set", "mark", "close",
          "clear", "free", "root", "label", "inode"}

(* The type invariant.                                                     *)
TypeOK ==
  /\ file \in {NULL} \cup Handles
  /\ opened \in BOOLEAN /\ created \in BOOLEAN
  /\ superblock \in {NULL} \cup Opens
  /\ fs \in {NULL} \cup Opens
  /\ format \in {NULL} \cup Opens
  /\ lock \in Threads \cup {NoThread}
  /\ handle \in [Handles -> {"none", "closed", "open"}]
  /\ live \subseteq {"superblock", "file system"} \X Opens
  /\ entries \subseteq Opens
  /\ abort \in BOOLEAN /\ freed \in BOOLEAN
  /\ opens \in 0 .. MaxOpens
  /\ crashed \subseteq {"open", "root", "label", "path", "inode", "entry"}
  /\ pc \in [Threads -> Steps]
  /\ call \in [Threads -> {NULL} \cup Opens]
  /\ arg \in [Threads -> {NULL} \cup Handles]
  /\ mine \in [Threads -> BOOLEAN]

(* A handle is released by the one who acquired it: the library never      *)
(* frees the caller's handle, and leaves it open exactly if the caller had *)
(* opened it, whatever failed in between and however often.  The comment   *)
(* on file_io_handle_created_in_library says when it may free: the volume  *)
(* holds a handle the library made.                                        *)
CallerHandleKept ==
  /\ AllIdle /\ created => file \in Opens
  /\ \A h \in Users : handle[h] # "none"
  /\ AllIdle => \A h \in Users \ {file} :
       handle[h] = IF h = UserOpen THEN "open" ELSE "closed"

(* Nothing is left behind by an open that failed, by a close or by a free: *)
(* no handle made by the library, no superblock and no file system; and    *)
(* none of them is freed too early, while an operation still uses it.      *)
NoLeak ==
  /\ crashed = {}
  /\ AllIdle /\ (file = NULL \/ freed) =>
       /\ \A h \in Opens : handle[h] = "none"
       /\ live = {} /\ superblock = NULL /\ fs = NULL

(* An open volume is whole: its handle is open, its superblock and file    *)
(* system were read by the same call and the IO handle describes them,     *)
(* also after an earlier open that failed half way and left the IO handle  *)
(* describing the volume it could not open.                                *)
OpenIsWhole ==
  AllIdle /\ file # NULL =>
    /\ handle[file] = "open"
    /\ superblock # NULL /\ superblock = fs /\ superblock = format

(* "Retrieves the root directory file entry", "Retrieves the file entry of *)
(* a specific inode number": they answer, whatever the other threads do    *)
(* with the volume.                                                        *)
LookupsReturn == {"root", "inode"} \cap crashed = {}

(* "Signals the volume to abort its current activity": an open that is     *)
(* reading does not go on to the other allocation groups after the signal. *)
AbortStopsOpen ==
  [][\A t \in Threads : abort /\ pc[t] = "groups" => pc'[t] # "set"]_vars

(* Every call returns: no path of an operation keeps the lock.             *)
CallsReturn == \A t \in Threads : pc[t] # "idle" ~> pc[t] = "idle"
===============================================================================
