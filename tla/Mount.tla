--------------------------------- MODULE Mount ---------------------------------
(***************************************************************************)
(* fsxfsmount: the life of its mount handle in main, and the handlers FUSE *)
(* calls, one request at a time (fuse_loop has one thread).  A handler     *)
(* looks the path up, works on the entry it got and gives it back; open    *)
(* and opendir leave the entry in the file info of the kernel until        *)
(* release and releasedir.  Any call of the library may fail.              *)
(*                                                                         *)
(* The names of an image may hold characters a path of the kernel must not *)
(* have: they are listed escaped and escaped paths are taken back before   *)
(* they are looked up.  A character is a string; "LF" stands for a control *)
(* character and "LS" for a special code point, whose two and eight        *)
(* hexadecimal digits are the one character HexLF and HexLS.               *)
(***************************************************************************)
EXTENDS Integers, Sequences, FiniteSets, SequencesExt

CONSTANTS
  Root, Files, None,  \* file entries of the image
  Parent,             \* directory of every file but the root
  Characters,         \* of names and paths
  NameOf,             \* name of every file in its directory
  Directories,        \* the files that are directories
  ListOf,             \* sub file entries of every directory, in order
  ValueSizes,         \* sizes of the extended attributes of every file
  OtherPaths,         \* paths that are asked for though nothing lists them
  Handles,            \* file infos of the kernel
  MaxEntries,         \* bound: mount file entries in memory
  MaxAttributes,      \* bound: extended attributes in memory
  BufferSizes         \* sizes of the buffers of getxattr and listxattr

Escape == "\\"
HexLF == "0a"
HexLS == "00002028"

Ids == 1 .. MaxEntries

ASSUME MountAssumption ==
  /\ Root \in Directories /\ Directories \subseteq Files /\ None \notin Files
  /\ Parent \in [Files -> Files] /\ Parent[Root] = Root
  /\ ListOf \in [Files -> Seq(Files \ {Root})]
  /\ \A f \in Files : \A k \in DOMAIN ListOf[f] : Parent[ListOf[f][k]] = f
  /\ NameOf \in [Files -> Seq(Characters)] /\ OtherPaths \subseteq Seq(Characters)
  /\ {"/", Escape, "x", "U", HexLF, HexLS, "LF", "LS"} \subseteq Characters
  /\ ValueSizes \in [Files -> Seq(Nat)]
  /\ MaxEntries \in Nat \ {0}
  /\ MaxAttributes \in Nat
  /\ BufferSizes \subseteq Nat

(* The directories of an image that is not damaged are a tree, and a name  *)
(* in it is no other name of its directory, not empty and without a        *)
(* separator.                                                              *)
ASSUME UndamagedAssumption ==
  /\ IsFiniteSet(Files)
  /\ \E depth \in [Files -> 0 .. Cardinality(Files)] :
       \A f \in Files \ {Root} : depth[Parent[f]] < depth[f]
  /\ \A f \in Files \ {Root} :
       /\ NameOf[f] # <<>> /\ "/" \notin ToSet(NameOf[f])
       /\ \A g \in Files \ {Root} : Parent[g] = Parent[f] /\ NameOf[g] = NameOf[f] => g = f

VARIABLES
  main,       \* where main is
  mountHandle, \* fsxfsmount_mount_handle: "none", "set", "null"
  frees,      \* times the mount handle was freed
  fuse,       \* whether there is a fuse handle
  owned,      \* mount file entries in memory and their files
  info,       \* file infos: kind, path and the entry in fh, 0 for NULL
  attributes, \* extended attributes in memory
  pc, job,    \* the handler and its locals
  reply,      \* what the last handler gave
  lost        \* history: entries and attributes no pointer leads to

process == <<main, mountHandle, frees, fuse>>
memory == <<owned, attributes, lost>>
vars == <<process, memory, info, pc, job, reply>>

NoJob == [op |-> "none", path |-> <<>>, handle |-> None, size |-> 0, entry |-> 0, sub |-> 0,
          attribute |-> FALSE, index |-> 0, out |-> <<>>]
NoInfo == [kind |-> "closed", path |-> <<>>, fh |-> 0]
NoReply == [op |-> "none", path |-> <<>>, result |-> "none", file |-> None, out |-> <<>>]

------------------------------------------------------------------------------
(* Names and paths                                                         *)

EscapedWithoutEscape(c) ==
  CASE c = "LF" -> <<Escape, "x", HexLF>>
    [] c = "LS" -> <<Escape, "U", HexLS>>
    [] OTHER -> <<c>>

Escaped(c) ==
  CASE c = "LF" -> <<Escape, "x", HexLF>>
    [] c = "LS" -> <<Escape, "U", HexLS>>
    [] c = Escape -> <<Escape, Escape>>
    [] OTHER -> <<c>>

(* mount_path_string_copy_from_file_entry_path.                            *)
CopyFrom(name) ==
  LET copied[n \in 0 .. Len(name)] ==
        IF n = 0 THEN <<>> ELSE copied[n - 1] \o Escaped(name[n])
  IN  copied[Len(name)]

(* One character of a path: what came before it, "bad" when the path is    *)
(* refused, and what was taken back so far.                                *)
Take(state, c) ==
  LET goesOn(after) == [state EXCEPT !.after = after]
      gives(d) == [after |-> "plain", out |-> Append(state.out, d)]
  IN  CASE state.after = "plain" -> IF c = Escape THEN goesOn("escape") ELSE gives(c)
        [] state.after = "escape" ->
             IF c = Escape THEN gives(c)
             ELSE IF c \in {"x", "U"} THEN goesOn(c) ELSE goesOn("bad")
        [] state.after = "x" -> IF c = HexLF THEN gives("LF") ELSE goesOn("bad")
        [] state.after = "U" -> IF c = HexLS THEN gives("LS") ELSE goesOn("bad")
        [] OTHER -> state

(* mount_path_string_copy_to_file_entry_path.                              *)
CopyTo(path) ==
  LET taken[n \in 0 .. Len(path)] ==
        IF n = 0 THEN [after |-> "plain", out |-> <<>>] ELSE Take(taken[n - 1], path[n])
  IN  taken[Len(path)]

PathAccepted(path) == path # <<>> /\ path[1] = "/" /\ CopyTo(path).after = "plain"

(* The path of a file in the image, and the one the kernel knows it by     *)
(* from the names that were listed.                                        *)
ImagePath[f \in Files] ==
  IF f = Root THEN <<>> ELSE ImagePath[Parent[f]] \o <<"/">> \o NameOf[f]

KernelPath[f \in Files] ==
  IF f = Root THEN <<>> ELSE KernelPath[Parent[f]] \o <<"/">> \o CopyFrom(NameOf[f])

Rooted(path) == IF path = <<>> THEN <<"/">> ELSE path

Paths == {Rooted(KernelPath[f]) : f \in Files} \cup OtherPaths

(* libfsxfs_volume_get_file_entry_by_utf8_path.                            *)
Found(path) == {f \in Files : Rooted(ImagePath[f]) = CopyTo(path).out}

------------------------------------------------------------------------------

Init ==
  /\ main = "start" /\ mountHandle = "none" /\ frees = 0 /\ fuse = FALSE
  /\ owned = [i \in Ids |-> None]
  /\ info = [h \in Handles |-> NoInfo]
  /\ attributes = 0
  /\ pc = "idle" /\ job = NoJob /\ reply = NoReply
  /\ lost = [entries |-> {}, attributes |-> 0]

handlers == <<memory, info, pc, job, reply>>

(* main                                                                    *)

InitializeHandle ==
  /\ main = "start"
  /\ main' = "initialized" /\ mountHandle' = "set"
  /\ UNCHANGED <<frees, fuse, handlers>>

(* mount_handle_open, fuse_new, then fuse_mount and fuse_daemonize.        *)
Advance(from, to, made) ==
  /\ main = from
  /\ \/ main' = to /\ fuse' = (fuse \/ made)
     \/ main' = "on_error" /\ fuse' = fuse
  /\ UNCHANGED <<mountHandle, frees, handlers>>

Open == Advance("initialized", "opened", FALSE)
NewFuse == Advance("opened", "created", TRUE)
MountFuse == Advance("created", "serving", FALSE)

(* fuse_loop gives up, whatever is open in the file system.                *)
LoopFails ==
  /\ main = "serving" /\ pc = "idle"
  /\ main' = "on_error"
  /\ UNCHANGED <<mountHandle, frees, fuse, handlers>>

FreeHandle == frees' = frees + 1 /\ mountHandle' = "null"

DestroyKeepingPointer == frees' = frees + 1 /\ mountHandle' = mountHandle

(* mount_fuse_destroy.                                                     *)
Destroy ==
  IF mountHandle = "set" THEN FreeHandle ELSE UNCHANGED <<frees, mountHandle>>

(* fuse_destroy calls the handler, main frees the handle that is left.     *)
MainFails ==
  /\ main = "on_error"
  /\ IF fuse THEN Destroy /\ fuse' = FALSE
     ELSE (IF mountHandle = "set" THEN FreeHandle ELSE UNCHANGED <<frees, mountHandle>>) /\ fuse' = fuse
  /\ main' = IF fuse THEN "on_error" ELSE "ended"
  /\ UNCHANGED handlers

(* The file system is unmounted when nothing in it is open.                *)
Unmount ==
  /\ main = "serving" /\ pc = "idle"
  /\ \A h \in Handles : info[h].kind = "closed"
  /\ Destroy
  /\ fuse' = FALSE
  /\ main' = "ended"
  /\ UNCHANGED handlers

------------------------------------------------------------------------------
(* Entries                                                                 *)

Free(i) == owned' = [owned EXCEPT ![i] = None]

New(i, f) ==
  /\ i \in Ids /\ owned[i] = None
  /\ \A j \in 1 .. i - 1 : owned[j] # None
  /\ owned' = [owned EXCEPT ![i] = f]

Full == \A i \in Ids : owned[i] # None

Reply(result, file, out) ==
  /\ reply' = [op |-> job.op, path |-> job.path, result |-> result, file |-> file, out |-> out]
  /\ pc' = "idle"
  /\ job' = NoJob

(* The kernel knows from getattr what a path is: it opens directories with *)
(* opendir, everything else with open.                                     *)
Opens(op, p) == IF op = "opendir" THEN Found(p) \subseteq Directories
                ELSE Found(p) \cap Directories = {}

(* The kernel, or Dokan, calls a handler.                                  *)
CallFrom(caller, step, j) ==
  /\ main = caller /\ pc = "idle"
  /\ pc' = step /\ job' = j
  /\ reply' = NoReply
  /\ UNCHANGED <<process, memory, info>>

Call(step, j) == CallFrom("serving", step, j)

CallWithPath ==
  \E p \in Paths :
    \/ \E op \in {"open", "opendir"}, h \in Handles :
         info[h].kind = "closed" /\ Opens(op, p) /\
         Call("lookup", [NoJob EXCEPT !.op = op, !.path = p, !.handle = h])
    \/ \E op \in {"getattr", "readlink"} : Call("lookup", [NoJob EXCEPT !.op = op, !.path = p])
    \/ \E op \in {"getxattr", "listxattr"}, n \in BufferSizes :
         Call("lookup", [NoJob EXCEPT !.op = op, !.path = p, !.size = n])

CallWithHandle ==
  \E h \in Handles :
    LET call(op) == Call(op, [NoJob EXCEPT !.op = op, !.path = info[h].path, !.handle = h])
    IN  \/ info[h].kind = "open" /\ (call("read") \/ call("release"))
        \/ info[h].kind = "opendir" /\ (call("readdir") \/ call("releasedir"))

(* mount_handle_get_file_entry_by_path; an entry that cannot be wrapped is *)
(* given back to the library there.                                        *)
LookUp ==
  /\ pc = "lookup"
  /\ PathAccepted(job.path)
  /\ \E f \in Found(job.path), i \in Ids :
       /\ New(i, f)
       /\ IF job.op \in {"open", "opendir", "create"}
            THEN /\ info' = [info EXCEPT ![job.handle] = [kind |-> job.op, path |-> job.path, fh |-> i]]
                 /\ Reply("ok", f, <<>>)
            ELSE /\ info' = info
                 /\ pc' = job.op /\ job' = [job EXCEPT !.entry = i]
                 /\ reply' = reply
  /\ UNCHANGED <<process, attributes, lost>>

(* ENOENT: the path is refused or nothing has it.                          *)
NotFound ==
  /\ pc = "lookup"
  /\ ~PathAccepted(job.path) \/ Found(job.path) = {}
  /\ Reply("ENOENT", None, <<>>)
  /\ UNCHANGED <<process, memory, info>>

(* ENOENT as well when the library fails.                                  *)
LookUpFails ==
  /\ pc = "lookup"
  /\ Reply("failed", None, <<>>)
  /\ UNCHANGED <<process, memory, info>>

(* A handler frees what its locals lead to and answers.                    *)
Finish(result, out) ==
  /\ IF job.entry = 0 THEN owned' = owned ELSE Free(job.entry)
  /\ Reply(result, IF job.entry = 0 THEN None ELSE owned[job.entry], out)
  /\ UNCHANGED <<process, info>>

------------------------------------------------------------------------------
(* Handlers of a path                                                      *)

GetAttr ==
  /\ pc = "getattr"
  /\ \E ok \in BOOLEAN : Finish(IF ok THEN "ok" ELSE "EIO", <<>>)
  /\ UNCHANGED <<attributes, lost>>

ReadLink ==
  /\ pc = "readlink"
  /\ \E ok \in BOOLEAN : Finish(IF ok THEN "ok" ELSE "EIO", <<>>)
  /\ UNCHANGED <<attributes, lost>>

FileOfJob == owned[job.entry]

(* The attribute of the name, none of them or an error.                    *)
GetXAttr ==
  /\ pc = "getxattr"
  /\ UNCHANGED lost
  /\ \/ \E k \in DOMAIN ValueSizes[FileOfJob] :
          /\ attributes < MaxAttributes
          /\ attributes' = attributes + 1
          /\ job' = [job EXCEPT !.attribute = TRUE, !.index = k]
          /\ pc' = "value"
          /\ UNCHANGED <<process, owned, info, reply>>
     \/ Finish("ENODATA", <<>>) /\ UNCHANGED attributes
     \/ Finish("EIO", <<>>) /\ UNCHANGED attributes

(* Its size alone, or its value if that fits; then both are freed.         *)
ReadValue ==
  /\ pc = "value"
  /\ job.size = 0 \/ ValueSizes[FileOfJob][job.index] <= job.size
  /\ attributes' = attributes - 1
  /\ Finish("ok", <<ValueSizes[FileOfJob][job.index]>>)
  /\ UNCHANGED lost

(* ERANGE, or the value cannot be read: on_error frees the entry but not   *)
(* the attribute.                                                          *)
ReadValueFails ==
  /\ pc = "value"
  /\ lost' = [lost EXCEPT !.attributes = @ + 1]
  /\ UNCHANGED attributes
  /\ Finish("EIO", <<>>)

(* One attribute is got, its name appended if there is a list at all, and  *)
(* freed again; the names count one byte.                                  *)
NameFits == job.size = 0 \/ 1 <= job.size - Len(job.out)

ListXAttr ==
  /\ pc = "listxattr"
  /\ job.index < Len(ValueSizes[FileOfJob])
  /\ IF job.attribute
       THEN /\ NameFits
            /\ attributes' = attributes - 1
            /\ job' = [job EXCEPT !.attribute = FALSE, !.index = @ + 1, !.out = Append(@, job.index + 1)]
       ELSE /\ attributes < MaxAttributes
            /\ attributes' = attributes + 1
            /\ job' = [job EXCEPT !.attribute = TRUE]
  /\ UNCHANGED <<process, owned, info, pc, reply, lost>>

ListXAttrEnds ==
  /\ pc = "listxattr"
  /\ job.index = Len(ValueSizes[FileOfJob])
  /\ Finish("ok", job.out)
  /\ UNCHANGED <<attributes, lost>>

(* on_error frees the attribute as well.                                   *)
ListXAttrFails ==
  /\ pc = "listxattr"
  /\ attributes' = IF job.attribute THEN attributes - 1 ELSE attributes
  /\ Finish("EIO", <<>>)
  /\ UNCHANGED lost

------------------------------------------------------------------------------
(* Handlers of a file info                                                 *)

FileOfInfo == owned[info[job.handle].fh]

ReadFile ==
  /\ pc = "read"
  /\ \/ Reply("ok", FileOfInfo, <<>>)
     \/ Reply("EIO", None, <<>>)
  /\ UNCHANGED <<process, memory, info>>

ReleaseKeepingPointer ==
  /\ pc = "release"
  /\ Free(info[job.handle].fh)
  /\ info' = info
  /\ Reply("ok", None, <<>>)
  /\ UNCHANGED <<process, attributes, lost>>

Release ==
  /\ pc = "release"
  /\ Free(info[job.handle].fh)
  /\ info' = [info EXCEPT ![job.handle] = NoInfo]
  /\ Reply("ok", None, <<>>)
  /\ UNCHANGED <<process, attributes, lost>>

(* fh is set to NULL, the entry of the directory is not freed.             *)
ReleaseDir ==
  /\ pc = "releasedir"
  /\ lost' = [lost EXCEPT !.entries = @ \cup {info[job.handle].fh}]
  /\ info' = [info EXCEPT ![job.handle] = NoInfo]
  /\ Reply("ok", None, <<>>)
  /\ UNCHANGED <<process, owned, attributes>>

(* "." and "..", then one entry at a time: got with its name escaped,      *)
(* given to the kernel and freed.                                          *)
ReadDir ==
  /\ pc = "readdir"
  /\ job.sub = 0
  /\ job.index < Len(ListOf[FileOfInfo])
  /\ \E i \in Ids :
       /\ New(i, ListOf[FileOfInfo][job.index + 1])
       /\ job' = [job EXCEPT !.sub = i]
  /\ UNCHANGED <<process, attributes, info, pc, reply, lost>>

FillDir ==
  /\ pc = "readdir"
  /\ job.sub # 0
  /\ Free(job.sub)
  /\ job' = [job EXCEPT !.sub = 0, !.index = @ + 1, !.out = Append(@, CopyFrom(NameOf[owned[job.sub]]))]
  /\ UNCHANGED <<process, attributes, info, pc, reply, lost>>

ReadDirEnds ==
  /\ pc = "readdir"
  /\ job.sub = 0
  /\ job.index = Len(ListOf[FileOfInfo])
  /\ Reply("ok", FileOfInfo, job.out)
  /\ UNCHANGED <<process, memory, info>>

(* on_error frees the sub file entry that was got.                         *)
ReadDirFails ==
  /\ pc = "readdir"
  /\ IF job.sub = 0 THEN owned' = owned ELSE Free(job.sub)
  /\ Reply("EIO", None, <<>>)
  /\ UNCHANGED <<process, attributes, info, lost>>

------------------------------------------------------------------------------

Handler ==
  \/ LookUp \/ NotFound \/ LookUpFails
  \/ GetAttr \/ ReadLink
  \/ GetXAttr \/ ReadValue \/ ReadValueFails
  \/ ListXAttr \/ ListXAttrEnds \/ ListXAttrFails
  \/ ReadFile \/ Release \/ ReleaseDir
  \/ ReadDir \/ FillDir \/ ReadDirEnds \/ ReadDirFails

Ended == main = "ended" /\ UNCHANGED vars

Next ==
  \/ InitializeHandle \/ Open \/ NewFuse \/ MountFuse
  \/ LoopFails \/ MainFails \/ Unmount
  \/ CallWithPath \/ CallWithHandle
  \/ Handler
  \/ Ended

Spec == Init /\ [][Next]_vars
------------------------------------------------------------------------------

InUse == {i \in Ids : owned[i] # None}
OpenInfos == {h \in Handles : info[h].kind # "closed"}
Held == {info[h].fh : h \in OpenInfos}

(* The type invariant.                                                     *)
TypeOK ==
  /\ main \in {"start", "initialized", "opened", "created", "serving", "dokan", "exited", "on_error", "ended"}
  /\ mountHandle \in {"none", "set", "null"} /\ frees \in Nat /\ fuse \in BOOLEAN
  /\ owned \in [Ids -> Files \cup {None}]
  /\ \A h \in Handles : info[h].kind \in {"closed", "open", "opendir", "create"} /\ info[h].fh \in 0 .. MaxEntries
  /\ attributes \in Nat
  /\ job.entry \in 0 .. MaxEntries /\ job.sub \in 0 .. MaxEntries
  /\ lost.entries \subseteq Ids /\ lost.attributes \in Nat

(* Whatever fails on the way, between two requests the process holds the   *)
(* entries of the open file infos, one for each, and beyond them only what *)
(* releasedir and a failing getxattr leave behind; the mount handle is     *)
(* freed once, by main or by FUSE.                                         *)
NothingElseIsHeld ==
  /\ pc = "idle" => InUse = Held \cup lost.entries /\ attributes = lost.attributes
  /\ Cardinality(Held) = Cardinality(OpenInfos)
  /\ frees <= 1
  /\ main = "ended" => frees = 1

(* Between two requests the process holds no entry but those of the open   *)
(* file infos: what a directory was opened with is freed when it is        *)
(* released.                                                               *)
EveryEntryIsFreed == pc = "idle" => InUse = Held

(* The entry of a file info is alive and is the file of the path it was    *)
(* opened with for as long as the kernel may read with it, and a read      *)
(* gives the data of that file.                                            *)
HandlesHoldTheirFile ==
  /\ \A h \in OpenInfos :
       /\ info[h].fh \in InUse \ lost.entries
       /\ owned[info[h].fh] \in Found(info[h].path)
  /\ reply.op = "read" /\ reply.result = "ok" => reply.file \in Found(reply.path)

Joined(path, name) == (IF path = <<"/">> THEN <<>> ELSE path) \o <<"/">> \o name

(* Every name that readdir gives, escaped as it is, leads back to the file *)
(* it was listed for and to no other, in the order of the directory; no    *)
(* path that was put together from listed names is said not to exist.      *)
NamesLeadBack ==
  /\ reply.op \in {"readdir", "find"} /\ reply.result = "ok" =>
       /\ Len(reply.out) = Len(ListOf[reply.file])
       /\ \A k \in DOMAIN reply.out :
            /\ PathAccepted(Joined(reply.path, reply.out[k]))
            /\ Found(Joined(reply.path, reply.out[k])) = {ListOf[reply.file][k]}
            /\ "/" \notin ToSet(reply.out[k])
  /\ reply.result = "ENOENT" => reply.path \notin {Rooted(KernelPath[f]) : f \in Files}
================================================================================
