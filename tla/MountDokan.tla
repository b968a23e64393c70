------------------------------- MODULE MountDokan -------------------------------
(***************************************************************************)
(* The other front end of fsxfsmount: the handlers Dokan calls on Windows, *)
(* beside those of FUSE.  A file info has one Context for files and        *)
(* directories alike, which CloseFile frees; FindFiles and                 *)
(* GetFileInformation do not use it but look the path up again.  There the *)
(* separator of a path is a backslash and the escape a circumflex: the     *)
(* model writes both as Mount does.                                        *)
(***************************************************************************)
EXTENDS Mount

(* DokanMain returns when the drive is unmounted or could not be mounted;  *)
(* the process ends either way, with the mount handle in memory.           *)
StartDokan ==
  /\ main = "opened"
  /\ main' = "dokan"
  /\ UNCHANGED <<mountHandle, frees, fuse, handlers>>

EndDokan ==
  /\ main = "dokan" /\ pc = "idle"
  /\ \A h \in Handles : info[h].kind = "closed"
  /\ main' = "exited"
  /\ UNCHANGED <<mountHandle, frees, fuse, handlers>>

(* Dokan calls a handler.  One at a time, as SingleThread says; versions of *)
(* Dokan before 2 are left with several threads.                           *)
CallDokan(step, j) == CallFrom("dokan", step, j)

(* A write access and a disposition that creates are refused at once, and  *)
(* so is a file info that has a Context.                                   *)
ZwCreateFile(p, h) ==
  /\ info[h].kind = "closed"
  /\ CallDokan("lookup", [NoJob EXCEPT !.op = "create", !.path = p, !.handle = h])

FindFiles(p) == CallDokan("lookup", [NoJob EXCEPT !.op = "find", !.path = p])

GetFileInformation(p) == CallDokan("lookup", [NoJob EXCEPT !.op = "information", !.path = p])

ReadContext(h) ==
  /\ info[h].kind # "closed"
  /\ CallDokan("read", [NoJob EXCEPT !.op = "read", !.path = info[h].path, !.handle = h])

(* CloseFile frees the Context, whatever it is.                            *)
CloseFile(h) ==
  /\ info[h].kind # "closed"
  /\ CallDokan("release", [NoJob EXCEPT !.op = "close", !.path = info[h].path, !.handle = h])

(* The getters of the entry, which is freed on every way out.              *)
FileInformation ==
  /\ pc = "information"
  /\ \E ok \in BOOLEAN : Finish(IF ok THEN "ok" ELSE "failed", <<>>)
  /\ UNCHANGED <<attributes, lost>>

(* FindFiles lists the directory it looked up: an entry is got, its name   *)
(* escaped and filled in, and it is freed.                                 *)
FindSub ==
  /\ pc = "find" /\ job.sub = 0
  /\ job.index < Len(ListOf[FileOfJob])
  /\ \E i \in Ids :
       /\ New(i, ListOf[FileOfJob][job.index + 1])
       /\ job' = [job EXCEPT !.sub = i]
  /\ UNCHANGED <<process, attributes, info, pc, reply, lost>>

FillFindData ==
  /\ pc = "find" /\ job.sub # 0
  /\ Free(job.sub)
  /\ job' = [job EXCEPT !.sub = 0, !.index = @ + 1, !.out = Append(@, CopyFrom(NameOf[owned[job.sub]]))]
  /\ UNCHANGED <<process, attributes, info, pc, reply, lost>>

FindFilesEnds ==
  /\ pc = "find" /\ job.sub = 0
  /\ job.index = Len(ListOf[FileOfJob])
  /\ Finish("ok", job.out)
  /\ UNCHANGED <<attributes, lost>>

(* on_error frees the sub file entry and the entry.                        *)
FindFilesFails ==
  /\ pc = "find"
  /\ owned' = [i \in Ids |-> IF i \in {job.sub, job.entry} THEN None ELSE owned[i]]
  /\ Reply("failed", None, <<>>)
  /\ UNCHANGED <<process, info, attributes, lost>>

DokanNext ==
  \/ StartDokan \/ EndDokan
  \/ \E p \in Paths : FindFiles(p) \/ GetFileInformation(p) \/ \E h \in Handles : ZwCreateFile(p, h)
  \/ \E h \in Handles : ReadContext(h) \/ CloseFile(h)
  \/ FileInformation \/ FindSub \/ FillFindData \/ FindFilesEnds \/ FindFilesFails

Exited == main = "exited" /\ UNCHANGED vars

MountSpec == Init /\ [][Next \/ DokanNext \/ Exited]_vars
================================================================================
