----------------------------- MODULE Mount_proofs -----------------------------
(***************************************************************************)
(* What is proved of modules Mount and MountDokan: whatever the image, the *)
(* names in it and the calls that fail, an open file info has an entry of  *)
(* its own that is alive and is the file of its path, and between two      *)
(* requests nothing is held but what the file infos and the two known      *)
(* leaks hold.  Of a tree that is not damaged also: the names it lists,    *)
(* escaped as they are, lead back to their files.                          *)
(***************************************************************************)
EXTENDS MountDokan, FiniteSetTheorems, FunctionTheorems, SequenceTheorems, WellFoundedInduction, TLAPS

InfoKinds == {"closed", "open", "opendir", "create"}
Asked == Paths \cup {<<>>}
Opening == {"open", "opendir", "create"}
OfPath == {"getattr", "readlink", "getxattr", "listxattr", "find", "information"}
OfInfo == {"read", "release", "readdir", "releasedir"}

Shape ==
  /\ owned \in [Ids -> Files \cup {None}]
  /\ info \in [Handles -> [kind : InfoKinds, path : Asked, fh : 0 .. MaxEntries]]
  /\ DOMAIN job = {"op", "path", "handle", "size", "entry", "sub", "attribute", "index", "out"}
  /\ job.path \in Asked /\ job.attribute \in BOOLEAN /\ job.index \in Nat
  /\ job.entry \in 0 .. MaxEntries /\ job.sub \in 0 .. MaxEntries
  /\ DOMAIN lost = {"entries", "attributes"}
  /\ lost.entries \subseteq Ids /\ lost.attributes \in Nat

(* An open file info has an entry to itself, which is the file of its      *)
(* path.                                                                   *)
Pointers ==
  /\ \A h \in Handles : info[h].kind # "closed" =>
       /\ info[h].fh \in Ids
       /\ owned[info[h].fh] \in Found(info[h].path)
       /\ info[h].fh \notin lost.entries
       /\ info[h].fh # job.entry /\ info[h].fh # job.sub
  /\ \A h, k \in Handles :
       info[h].kind # "closed" /\ info[k].kind # "closed" /\ info[h].fh = info[k].fh => h = k

(* So has every local of the handler that is under way.                    *)
Locals ==
  /\ job.entry # 0 => job.entry \notin lost.entries /\ job.entry # job.sub
  /\ job.sub # 0 => job.sub \notin lost.entries

Referred(i) ==
  \/ \E h \in Handles : info[h].kind # "closed" /\ info[h].fh = i
  \/ i \in lost.entries
  \/ i = job.entry \/ i = job.sub

(* Nothing else is allocated.                                              *)
Accounted ==
  /\ \A i \in Ids : owned[i] # None <=> Referred(i)
  /\ attributes = lost.attributes + (IF job.attribute THEN 1 ELSE 0)

(* What the handler has at each of its steps.                              *)
AtStep ==
  /\ pc \in {"idle", "lookup", "value"} \cup OfPath \cup OfInfo
  /\ pc \in {"idle", "lookup"} \cup OfInfo => job.entry = 0
  /\ pc \notin {"readdir", "find"} => job.sub = 0
  /\ pc \notin {"value", "listxattr"} => ~job.attribute
  /\ pc = "value" => job.attribute
  /\ pc \in OfPath => job.entry # 0
  /\ pc = "listxattr" /\ job.attribute => job.index # Len(ValueSizes[owned[job.entry]])
  /\ pc = "lookup" =>
       /\ job.op \in Opening \cup OfPath
       /\ job.op \in Opening => job.handle \in Handles /\ info[job.handle].kind = "closed"
  /\ pc \in OfInfo =>
       /\ job.handle \in Handles
       /\ info[job.handle].kind # "closed" /\ info[job.handle].path = job.path
  /\ job.op = "read" => pc = "read"

Answered == reply.op = "read" /\ reply.result = "ok" => reply.file \in Found(reply.path)

(* Who is to free the mount handle.                                        *)
Process ==
  /\ main = "start" => mountHandle = "none" /\ frees = 0
  /\ main \in {"initialized", "opened", "created", "serving", "dokan"} => mountHandle = "set" /\ frees = 0
  /\ main = "on_error" => (mountHandle = "set" /\ frees = 0) \/ (mountHandle = "null" /\ frees = 1)
  /\ main = "exited" => frees = 0
  /\ main = "ended" => frees = 1
  /\ main \in {"start", "initialized", "opened", "created", "serving", "dokan", "on_error", "exited", "ended"}

IInv == Shape /\ Pointers /\ Locals /\ Accounted /\ AtStep /\ Answered /\ Process

LEMMA Numbers ==
  /\ MaxEntries \in Nat \ {0} /\ Ids = 1 .. MaxEntries /\ 0 \notin Ids
  /\ None \notin Files
  BY MountAssumption DEF Ids

LEMMA FoundInFiles == \A p : Found(p) \subseteq Files
  BY DEF Found

LEMMA InitInductive == Init => IInv
  <1> SUFFICES ASSUME Init PROVE IInv
    OBVIOUS
  <1>1. Shape
    BY Numbers DEF Init, Shape, NoInfo, NoJob, InfoKinds, Asked
  <1>2. Pointers
    BY DEF Init, Pointers, NoInfo
  <1>3. Locals /\ Process /\ Answered
    BY DEF Init, Locals, Process, NoJob, Answered, NoReply
  <1>4. AtStep
    BY DEF Init, AtStep, NoJob, OfInfo, OfPath
  <1>5. Accounted
    BY Numbers DEF Init, Accounted, Referred, NoInfo, NoJob
  <1> QED
    BY <1>1, <1>2, <1>3, <1>4, <1>5 DEF IInv

------------------------------------------------------------------------------
(* A handler is called                                                     *)

LEMMA CallStep ==
  ASSUME IInv, NEW caller, NEW step \in {"lookup"} \cup OfInfo, NEW j, CallFrom(caller, step, j),
         DOMAIN j = {"op", "path", "handle", "size", "entry", "sub", "attribute", "index", "out"},
         j.entry = 0, j.sub = 0, j.attribute = FALSE, j.index = 0, j.path \in Asked,
         step = "lookup" =>
           /\ j.op \in Opening \cup OfPath
           /\ j.op \in Opening => j.handle \in Handles /\ info[j.handle].kind = "closed",
         step \in OfInfo =>
           j.handle \in Handles /\ info[j.handle].kind # "closed" /\ info[j.handle].path = j.path,
         j.op = "read" => step = "read"
  PROVE  IInv'
  <1>1. /\ pc = "idle" /\ job.entry = 0 /\ job.sub = 0 /\ job.attribute = FALSE
        /\ pc' = step /\ job' = j /\ reply' = NoReply
        /\ UNCHANGED <<main, mountHandle, frees, fuse, owned, attributes, lost, info>>
    BY DEF IInv, AtStep, CallFrom, process, memory
  <1>2. Shape' /\ Process'
    <2>1. Process'
      BY <1>1 DEF IInv, Process
    <2>2. j.attribute \in BOOLEAN
      OBVIOUS
    <2>3. /\ job'.path \in Asked /\ job'.attribute \in BOOLEAN /\ job'.index \in Nat
          /\ job'.entry \in 0 .. MaxEntries /\ job'.sub \in 0 .. MaxEntries
      BY <1>1, <2>2, Numbers
    <2> QED
      BY <1>1, <2>1, <2>3 DEF IInv, Shape
  <1>3. Pointers' /\ Locals'
    BY <1>1, Numbers DEF IInv, Pointers, Locals
  <1>4. Accounted'
    BY <1>1, Numbers DEF IInv, Accounted, Referred
  <1>5. AtStep' /\ Answered'
    BY <1>1 DEF IInv, AtStep, Answered, NoReply, OfInfo, OfPath, Opening
  <1> QED
    BY <1>2, <1>3, <1>4, <1>5 DEF IInv

LEMMA FieldsOfNoJob ==
  /\ DOMAIN NoJob = {"op", "path", "handle", "size", "entry", "sub", "attribute", "index", "out"}
  /\ NoJob.entry = 0 /\ NoJob.sub = 0 /\ NoJob.attribute = FALSE /\ NoJob.index = 0
  BY DEF NoJob

LEMMA CallWithPathStep ==
  ASSUME IInv, NEW p \in Paths,
         NEW op \in Opening \cup OfPath, NEW caller, NEW j,
         \/ j = [NoJob EXCEPT !.op = op, !.path = p] /\ op \in OfPath
         \/ \E n : j = [NoJob EXCEPT !.op = op, !.path = p, !.size = n] /\ op \in OfPath
         \/ \E h \in Handles : info[h].kind = "closed" /\ j = [NoJob EXCEPT !.op = op, !.path = p, !.handle = h],
         CallFrom(caller, "lookup", j)
  PROVE  IInv'
  <1>1. /\ DOMAIN j = {"op", "path", "handle", "size", "entry", "sub", "attribute", "index", "out"}
        /\ j.entry = 0 /\ j.sub = 0 /\ j.attribute = FALSE /\ j.index = 0 /\ j.path = p /\ j.op = op
        /\ op \in Opening => j.handle \in Handles /\ info[j.handle].kind = "closed"
    BY FieldsOfNoJob DEF Opening, OfPath
  <1>2. p \in Asked
    BY DEF Asked
  <1>3. "lookup" \in {"lookup"} \cup OfInfo /\ "lookup" \notin OfInfo /\ op # "read"
    BY DEF OfInfo, Opening, OfPath
  <1> QED
    BY <1>1, <1>2, <1>3, CallStep

LEMMA CallWithHandleStep ==
  ASSUME IInv, NEW h \in Handles, info[h].kind # "closed", NEW step \in OfInfo, NEW op, NEW caller,
         op = "read" => step = "read",
         CallFrom(caller, step, [NoJob EXCEPT !.op = op, !.path = info[h].path, !.handle = h])
  PROVE  IInv'
  <1> DEFINE j == [NoJob EXCEPT !.op = op, !.path = info[h].path, !.handle = h]
  <1>1. /\ DOMAIN j = {"op", "path", "handle", "size", "entry", "sub", "attribute", "index", "out"}
        /\ j.entry = 0 /\ j.sub = 0 /\ j.attribute = FALSE /\ j.index = 0
        /\ j.path = info[h].path /\ j.op = op /\ j.handle = h
    BY FieldsOfNoJob
  <1>2. info[h].path \in Asked
    BY DEF IInv, Shape
  <1>3. "lookup" \notin OfInfo
    BY DEF OfInfo
  <1>4. CallFrom(caller, step, j)
    OBVIOUS
  <1> HIDE DEF j
  <1> QED
    BY <1>1, <1>2, <1>3, <1>4, CallStep

------------------------------------------------------------------------------
(* The two ways a handler ends and the one it goes on                      *)

LEMMA ReplyFields ==
  ASSUME NEW result, NEW file, NEW out, Reply(result, file, out)
  PROVE  /\ pc' = "idle" /\ job' = NoJob
         /\ reply'.op = job.op /\ reply'.path = job.path
         /\ reply'.result = result /\ reply'.file = file
  BY DEF Reply

(* A handler that frees exactly what its locals lead to.                   *)
LEMMA AnswerStep ==
  ASSUME IInv, NEW result, NEW file, NEW out, Reply(result, file, out),
         pc # "idle", pc # "read" \/ result # "ok" \/ file \in Found(job.path),
         owned' = [i \in Ids |-> IF i = job.sub \/ i = job.entry THEN None ELSE owned[i]],
         UNCHANGED <<process, info>>,
         DOMAIN lost' = DOMAIN lost, lost'.entries = lost.entries,
         lost'.attributes \in Nat, attributes' = lost'.attributes
  PROVE  IInv'
  <1>1. /\ pc' = "idle" /\ job' = NoJob
        /\ reply'.op = job.op /\ reply'.path = job.path
        /\ reply'.result = result /\ reply'.file = file
    BY ReplyFields
  <1>2. UNCHANGED <<main, mountHandle, frees, fuse, info>>
    BY DEF process
  <1>3. job'.entry = 0 /\ job'.sub = 0 /\ job'.attribute = FALSE /\ job'.op = "none"
    BY <1>1 DEF NoJob
  <1>4. Shape'
    <2>1. owned' \in [Ids -> Files \cup {None}]
      BY DEF IInv, Shape
    <2>2. job'.path \in Asked /\ DOMAIN job' = DOMAIN NoJob
      BY <1>1 DEF NoJob, Asked
    <2>3. job'.attribute \in BOOLEAN
      BY <1>1 DEF NoJob
    <2>4. job'.entry \in 0 .. MaxEntries /\ job'.sub \in 0 .. MaxEntries /\ job'.index \in Nat
      BY <1>1, <1>3, FieldsOfNoJob, Numbers
    <2>5. DOMAIN job' = {"op", "path", "handle", "size", "entry", "sub", "attribute", "index", "out"}
      BY <2>2, FieldsOfNoJob
    <2> QED
      BY <2>1, <2>2, <2>3, <2>4, <2>5, <1>2 DEF IInv, Shape
  <1>5. Pointers' /\ Locals'
    BY <1>2, <1>3, Numbers DEF IInv, Pointers, Locals, Shape
  <1>6. Accounted'
    <2>1. \A i \in Ids : owned'[i] # None <=> Referred(i)'
      <3> SUFFICES ASSUME NEW i \in Ids PROVE owned'[i] # None <=> Referred(i)'
        OBVIOUS
      <3>1. CASE i = job.sub \/ i = job.entry
        BY <3>1, <1>2, <1>3, Numbers DEF IInv, Referred, Pointers, Locals
      <3>2. CASE i # job.sub /\ i # job.entry
        BY <3>2, <1>2, <1>3, Numbers DEF IInv, Accounted, Referred
      <3> QED
        BY <3>1, <3>2
    <2> QED
      BY <2>1, <1>2, <1>3 DEF IInv, Shape, Accounted
  <1>7. AtStep'
    BY <1>1, <1>2, <1>3 DEF AtStep, OfInfo, OfPath
  <1>8. Answered' /\ Process'
    BY <1>1, <1>2 DEF IInv, AtStep, Answered, Process
  <1> QED
    BY <1>4, <1>5, <1>6, <1>7, <1>8 DEF IInv

LEMMA FinishStep ==
  ASSUME IInv, NEW result, NEW out, Finish(result, out), pc \notin {"idle"} \cup OfInfo,
         pc # "find" \/ job.sub = 0,
         DOMAIN lost' = DOMAIN lost, lost'.entries = lost.entries,
         lost'.attributes \in Nat, attributes' = lost'.attributes
  PROVE  IInv'
  <1>1. job.sub = 0 /\ pc # "read" /\ pc # "idle"
    BY DEF IInv, AtStep, OfInfo
  <1>2. owned' = [i \in Ids |-> IF i = job.sub \/ i = job.entry THEN None ELSE owned[i]]
    BY <1>1, Numbers DEF Finish, Free, IInv, Shape
  <1>3. /\ Reply(result, IF job.entry = 0 THEN None ELSE owned[job.entry], out)
        /\ UNCHANGED <<process, info>>
    BY DEF Finish
  <1> HIDE DEF IInv
  <1> QED
    BY <1>1, <1>2, <1>3, AnswerStep

(* A new entry is referred to by nothing.                                  *)
LEMMA NewIsFresh ==
  ASSUME IInv, NEW i, NEW f \in Files, New(i, f)
  PROVE  /\ i \in Ids /\ ~Referred(i) /\ owned[i] = None
         /\ owned' \in [Ids -> Files \cup {None}] /\ owned'[i] = f /\ f # None
         /\ \A k \in Ids \ {i} : owned'[k] = owned[k]
  <1>1. i \in Ids /\ owned[i] = None /\ owned' = [owned EXCEPT ![i] = f]
    BY DEF New
  <1> QED
    BY <1>1, Numbers DEF IInv, Shape, Accounted

LEMMA LookUpStep == ASSUME IInv, LookUp PROVE IInv'
  <1> PICK f \in Found(job.path), i \in Ids :
        /\ New(i, f)
        /\ IF job.op \in {"open", "opendir", "create"}
             THEN /\ info' = [info EXCEPT ![job.handle] = [kind |-> job.op, path |-> job.path, fh |-> i]]
                  /\ Reply("ok", f, <<>>)
             ELSE /\ info' = info
                  /\ pc' = job.op /\ job' = [job EXCEPT !.entry = i]
                  /\ reply' = reply
    BY DEF LookUp
  <1>1. /\ pc = "lookup" /\ job.entry = 0 /\ job.sub = 0 /\ job.attribute = FALSE
        /\ job.op \in Opening \cup OfPath
        /\ UNCHANGED <<main, mountHandle, frees, fuse, attributes, lost>>
    BY DEF LookUp, IInv, AtStep, Shape, OfInfo, process
  <1>2. /\ i \in Ids /\ ~Referred(i) /\ owned[i] = None /\ i # 0
        /\ owned' \in [Ids -> Files \cup {None}] /\ owned'[i] = f /\ f # None
        /\ \A k \in Ids \ {i} : owned'[k] = owned[k]
    BY NewIsFresh, FoundInFiles, Numbers
  <1>3. Process'
    BY <1>1 DEF IInv, Process
  <1>4. CASE job.op \in Opening
    <2> DEFINE h == job.handle
    <2>1. /\ h \in Handles /\ info[h].kind = "closed"
          /\ info' = [info EXCEPT ![h] = [kind |-> job.op, path |-> job.path, fh |-> i]]
          /\ Reply("ok", f, <<>>)
      BY <1>1, <1>4 DEF IInv, AtStep, Opening
    <2>2. /\ pc' = "idle" /\ job' = NoJob /\ reply'.op = job.op
          /\ job'.entry = 0 /\ job'.sub = 0 /\ job'.attribute = FALSE /\ job'.op = "none"
          /\ job'.path \in Asked /\ job'.index = 0
      BY <2>1, ReplyFields DEF NoJob, Asked
    <2>3. /\ info' \in [Handles -> [kind : InfoKinds, path : Asked, fh : 0 .. MaxEntries]]
          /\ info'[h].kind = job.op /\ info'[h].path = job.path /\ info'[h].fh = i
          /\ \A k \in Handles \ {h} : info'[k] = info[k]
      BY <2>1, <1>2, <1>4, Numbers DEF IInv, Shape, InfoKinds, Opening
    <2>4. Shape'
      <3>1. job'.attribute \in BOOLEAN /\ job'.index \in Nat
        BY <2>2 DEF NoJob
      <3>2. job'.entry \in 0 .. MaxEntries /\ job'.sub \in 0 .. MaxEntries
        BY <2>2, Numbers
      <3>3. DOMAIN job' = {"op", "path", "handle", "size", "entry", "sub", "attribute", "index", "out"}
        BY <2>2, FieldsOfNoJob
      <3> QED
        BY <1>1, <1>2, <2>2, <2>3, <3>1, <3>2, <3>3 DEF IInv, Shape
    <2>5. Pointers' /\ Locals'
      <3>1. ASSUME NEW k \in Handles, info'[k].kind # "closed"
            PROVE  /\ info'[k].fh \in Ids /\ owned'[info'[k].fh] \in Found(info'[k].path)
                   /\ info'[k].fh \notin lost.entries
                   /\ k # h => info'[k].fh # i
        BY <3>1, <1>1, <1>2, <2>3 DEF IInv, Pointers, Referred
      <3>2. \A k, l \in Handles :
              info'[k].kind # "closed" /\ info'[l].kind # "closed" /\ info'[k].fh = info'[l].fh => k = l
        BY <3>1, <2>3 DEF IInv, Pointers
      <3> QED
        BY <3>1, <3>2, <1>1, <2>2, Numbers DEF Pointers, Locals
    <2>6. Accounted'
      <3>1. job.op # "closed"
        BY <1>4 DEF Opening
      <3>2. \A k \in Ids : owned'[k] # None <=> Referred(k)'
        <4> SUFFICES ASSUME NEW k \in Ids PROVE owned'[k] # None <=> Referred(k)'
          OBVIOUS
        <4>1. CASE k = i
          BY <4>1, <3>1, <2>1, <2>3, <1>2 DEF Referred
        <4>2. CASE k # i
          <5>1. owned'[k] # None <=> Referred(k)
            BY <4>2, <1>2 DEF IInv, Accounted
          <5>2. (\E m \in Handles : info[m].kind # "closed" /\ info[m].fh = k)
                <=> (\E m \in Handles : info'[m].kind # "closed" /\ info'[m].fh = k)
            BY <4>2, <2>1, <2>3
          <5> QED
            BY <5>1, <5>2, <1>1, <2>2, Numbers DEF Referred
        <4> QED
          BY <4>1, <4>2
      <3> QED
        BY <3>2, <1>1, <2>2 DEF IInv, Accounted
    <2>7. AtStep' /\ Answered'
      BY <1>4, <2>2 DEF AtStep, Answered, OfInfo, OfPath, Opening
    <2> QED
      BY <1>3, <2>4, <2>5, <2>6, <2>7 DEF IInv
  <1>5. CASE job.op \notin Opening
    <2>1. /\ info' = info /\ pc' = job.op /\ reply' = reply /\ job.op \in OfPath
          /\ job' = [job EXCEPT !.entry = i]
      BY <1>1, <1>5 DEF Opening
    <2>2. /\ DOMAIN job' = DOMAIN job /\ job'.entry = i /\ job'.sub = 0 /\ job'.attribute = FALSE
          /\ job'.path = job.path /\ job'.op = job.op /\ job'.index = job.index
      BY <1>1, <2>1 DEF IInv, Shape
    <2>3. Shape'
      BY <1>1, <1>2, <2>1, <2>2, Numbers DEF IInv, Shape
    <2>4. Pointers' /\ Locals'
      BY <1>1, <1>2, <2>1, <2>2, Numbers DEF IInv, Pointers, Locals, Referred
    <2>5. Accounted'
      BY <1>1, <1>2, <2>1, <2>2, Numbers DEF IInv, Accounted, Referred
    <2>6. AtStep' /\ Answered'
      BY <1>1, <1>2, <2>1, <2>2 DEF IInv, AtStep, Answered, OfInfo, OfPath
    <2> QED
      BY <1>3, <2>3, <2>4, <2>5, <2>6 DEF IInv
  <1> QED
    BY <1>4, <1>5

LEMMA NothingFreed ==
  ASSUME IInv, NEW result, NEW file, NEW out, Reply(result, file, out),
         pc \in {"lookup", "read"} \/ (pc = "readdir" /\ job.sub = 0),
         pc # "read" \/ result # "ok" \/ file \in Found(job.path),
         UNCHANGED <<process, memory, info>>
  PROVE  IInv'
  <1>1. job.entry = 0 /\ job.sub = 0 /\ ~job.attribute /\ pc # "idle"
    BY DEF IInv, AtStep, OfInfo
  <1>2. owned' = [i \in Ids |-> IF i = job.sub \/ i = job.entry THEN None ELSE owned[i]]
    BY <1>1, Numbers DEF memory, IInv, Shape
  <1>3. /\ lost' = lost /\ lost'.attributes \in Nat /\ attributes' = lost'.attributes
        /\ UNCHANGED <<process, info>>
    BY <1>1 DEF memory, IInv, Shape, Accounted
  <1> HIDE DEF IInv
  <1> QED
    BY <1>1, <1>2, <1>3, AnswerStep

(* A handler without an extended attribute ends and leaves them alone.     *)
LEMMA PlainFinish ==
  ASSUME IInv, NEW result, NEW out, Finish(result, out), pc \notin {"idle", "value"} \cup OfInfo,
         ~job.attribute, pc # "find" \/ job.sub = 0, UNCHANGED <<attributes, lost>>
  PROVE  IInv'
  <1>1. lost' = lost /\ lost'.attributes \in Nat /\ attributes' = lost'.attributes
    BY DEF IInv, Shape, Accounted
  <1> HIDE DEF IInv
  <1> QED
    BY <1>1, FinishStep

LEMMA GettersStep ==
  ASSUME IInv, GetAttr \/ ReadLink \/ FileInformation \/ ListXAttrEnds \/ FindFilesEnds
  PROVE  IInv'
  <1>1. ~job.attribute
    BY DEF GetAttr, ReadLink, FileInformation, ListXAttrEnds, FindFilesEnds, FileOfJob, IInv, AtStep
  <1>2. CASE GetAttr
    BY <1>1, <1>2, PlainFinish DEF GetAttr, OfInfo
  <1>3. CASE ReadLink
    BY <1>1, <1>3, PlainFinish DEF ReadLink, OfInfo
  <1>4. CASE FileInformation
    BY <1>1, <1>4, PlainFinish DEF FileInformation, OfInfo
  <1>5. CASE ListXAttrEnds
    BY <1>1, <1>5, PlainFinish DEF ListXAttrEnds, OfInfo
  <1>6. CASE FindFilesEnds
    BY <1>1, <1>6, PlainFinish DEF FindFilesEnds, OfInfo
  <1> QED
    BY <1>2, <1>3, <1>4, <1>5, <1>6

(* A step of a handler that gets or gives back an extended attribute.      *)
LEMMA AttributeStep ==
  ASSUME IInv, NEW l \in {"value", "listxattr"}, pc \in {"getxattr", "listxattr"},
         pc' = l, l = "value" => job'.attribute,
         DOMAIN job' = DOMAIN job, job'.op = job.op, job'.path = job.path,
         job'.entry = job.entry, job'.sub = job.sub, job'.attribute \in BOOLEAN, job'.index \in Nat,
         l = "listxattr" /\ job'.attribute => job'.index # Len(ValueSizes[owned[job.entry]]),
         attributes' = lost.attributes + (IF job'.attribute THEN 1 ELSE 0),
         UNCHANGED <<process, owned, info, reply, lost>>
  PROVE  IInv'
  <1>1. UNCHANGED <<main, mountHandle, frees, fuse, owned, info, reply, lost>>
    BY DEF process
  <1>2. Shape'
    BY <1>1, Numbers DEF IInv, Shape
  <1>3. Pointers' /\ Locals' /\ Process' /\ Answered'
    BY <1>1 DEF IInv, Pointers, Locals, Process, Answered
  <1>4. Accounted'
    BY <1>1, Numbers DEF IInv, Accounted, Referred
  <1>5. AtStep'
    <2>1. job.entry # 0 /\ job.sub = 0 /\ pc \notin OfInfo /\ pc' \notin OfInfo /\ job.op # "read"
      BY DEF IInv, AtStep, OfInfo, OfPath
    <2>2. pc' \in {"idle", "lookup", "value"} \cup OfPath \cup OfInfo
      BY DEF OfPath
    <2> QED
      BY <1>1, <2>1, <2>2 DEF AtStep, OfInfo, OfPath
  <1> QED
    BY <1>2, <1>3, <1>4, <1>5 DEF IInv

(* The attributes of the file that a handler works on.                     *)
LEMMA AttributesOfJob ==
  ASSUME IInv, pc \in OfPath PROVE Len(ValueSizes[FileOfJob]) \in Nat
  <1>1. job.entry \in Ids
    BY Numbers DEF IInv, Shape, AtStep
  <1>2. owned[job.entry] \in Files
    BY <1>1 DEF IInv, Shape, Accounted, Referred
  <1> QED
    BY <1>2, MountAssumption DEF FileOfJob

LEMMA GetXAttrStep == ASSUME IInv, GetXAttr PROVE IInv'
  <1>1. pc = "getxattr" /\ lost' = lost
    BY DEF GetXAttr
  <1>5. ~job.attribute
    BY <1>1 DEF IInv, AtStep
  <1>6. attributes = lost.attributes
    BY <1>5 DEF IInv, Accounted, Shape
  <1>2. CASE Finish("ENODATA", <<>>) /\ UNCHANGED attributes
    BY <1>1, <1>5, <1>2, PlainFinish DEF OfInfo
  <1>3. CASE Finish("EIO", <<>>) /\ UNCHANGED attributes
    BY <1>1, <1>5, <1>3, PlainFinish DEF OfInfo
  <1>4. ASSUME NEW k \in Nat, attributes' = attributes + 1,
               job' = [job EXCEPT !.attribute = TRUE, !.index = k], pc' = "value",
               UNCHANGED <<process, owned, info, reply>>
        PROVE  IInv'
    <2>1. /\ DOMAIN job' = DOMAIN job /\ job'.op = job.op /\ job'.path = job.path
          /\ job'.entry = job.entry /\ job'.sub = job.sub /\ job'.index \in Nat
      BY <1>4 DEF IInv, Shape
    <2>2. job'.attribute = TRUE
      BY <1>4 DEF IInv, Shape
    <2>3. attributes' = lost.attributes + (IF job'.attribute THEN 1 ELSE 0)
      BY <1>4, <1>6, <2>2
    <2> HIDE DEF IInv
    <2> QED
      BY <1>1, <1>4, <2>1, <2>2, <2>3, AttributeStep
  <1>7. \A k \in DOMAIN ValueSizes[FileOfJob] : k \in Nat
    <2>1. job.entry \in Ids
      BY <1>1, Numbers DEF IInv, Shape, AtStep, OfPath
    <2>2. owned[job.entry] \in Files
      BY <2>1 DEF IInv, Shape, Accounted, Referred
    <2> QED
      BY <2>2, MountAssumption DEF FileOfJob
  <1> QED
    BY <1>1, <1>2, <1>3, <1>4, <1>7 DEF GetXAttr

LEMMA ListXAttrStep == ASSUME IInv, ListXAttr PROVE IInv'
  <1>1. /\ pc = "listxattr" /\ pc' = "listxattr"
        /\ UNCHANGED <<process, owned, info, reply, lost>>
    BY DEF ListXAttr
  <1>2. CASE job.attribute
    <2>1. /\ attributes' = attributes - 1
          /\ job' = [job EXCEPT !.attribute = FALSE, !.index = @ + 1, !.out = Append(@, job.index + 1)]
      BY <1>2 DEF ListXAttr
    <2>2. /\ DOMAIN job' = DOMAIN job /\ job'.op = job.op /\ job'.path = job.path
          /\ job'.entry = job.entry /\ job'.sub = job.sub /\ job'.index \in Nat
      BY <2>1 DEF IInv, Shape
    <2>3. job'.attribute = FALSE
      BY <2>1 DEF IInv, Shape
    <2>4. attributes' = lost.attributes + (IF job'.attribute THEN 1 ELSE 0)
      BY <1>2, <2>1, <2>3 DEF IInv, Accounted, Shape
    <2> HIDE DEF IInv
    <2> QED
      BY <1>1, <2>2, <2>3, <2>4, AttributeStep
  <1>3. CASE ~job.attribute
    <2>1. /\ attributes' = attributes + 1 /\ job' = [job EXCEPT !.attribute = TRUE]
      BY <1>3 DEF ListXAttr
    <2>2. /\ DOMAIN job' = DOMAIN job /\ job'.op = job.op /\ job'.path = job.path
          /\ job'.entry = job.entry /\ job'.sub = job.sub /\ job'.index = job.index /\ job'.index \in Nat
      BY <2>1 DEF IInv, Shape
    <2>3. job'.attribute = TRUE
      BY <2>1 DEF IInv, Shape
    <2>4. attributes' = lost.attributes + (IF job'.attribute THEN 1 ELSE 0)
      BY <1>3, <2>1, <2>3 DEF IInv, Accounted, Shape
    <2>5. job'.index # Len(ValueSizes[owned[job.entry]])
      BY <1>1, <2>2, AttributesOfJob DEF ListXAttr, FileOfJob, OfPath
    <2> HIDE DEF IInv
    <2> QED
      BY <1>1, <2>2, <2>3, <2>4, <2>5, AttributeStep
  <1> QED
    BY <1>2, <1>3

(* The handlers that end with an extended attribute.                       *)
LEMMA AttributeFinish ==
  ASSUME IInv, ReadValue \/ ReadValueFails \/ ListXAttrFails PROVE IInv'
  <1>1. pc \notin {"idle", "find"} \cup OfInfo
    BY DEF ReadValue, ReadValueFails, ListXAttrFails, OfInfo
  <1>2. /\ DOMAIN lost' = DOMAIN lost /\ lost'.entries = lost.entries
        /\ lost'.attributes \in Nat /\ attributes' = lost'.attributes
    <2>1. CASE ReadValue
      <3>1. job.attribute /\ lost' = lost /\ attributes' = attributes - 1
        BY <2>1 DEF ReadValue, IInv, AtStep
      <3> QED
        BY <3>1 DEF IInv, Accounted, Shape
    <2>2. CASE ReadValueFails
      <3>1. job.attribute /\ lost' = [lost EXCEPT !.attributes = @ + 1] /\ attributes' = attributes
        BY <2>2 DEF ReadValueFails, IInv, AtStep
      <3> QED
        BY <3>1 DEF IInv, Accounted, Shape
    <2>3. CASE ListXAttrFails
      <3>1. lost' = lost /\ attributes' = IF job.attribute THEN attributes - 1 ELSE attributes
        BY <2>3 DEF ListXAttrFails
      <3> QED
        BY <3>1 DEF IInv, Accounted, Shape
    <2> QED
      BY <2>1, <2>2, <2>3
  <1>3. PICK result, out : Finish(result, out)
    BY DEF ReadValue, ReadValueFails, ListXAttrFails
  <1> HIDE DEF IInv
  <1> QED
    BY <1>1, <1>2, <1>3, FinishStep

------------------------------------------------------------------------------
(* Listing a directory                                                     *)

(* A sub file entry is got.                                                *)
LEMMA SubStep ==
  ASSUME IInv, pc \in {"readdir", "find"}, job.sub = 0,
         NEW i \in Ids, NEW f \in Files, New(i, f), job' = [job EXCEPT !.sub = i],
         UNCHANGED <<process, attributes, info, pc, reply, lost>>
  PROVE  IInv'
  <1>1. /\ i \in Ids /\ ~Referred(i) /\ owned[i] = None /\ i # 0
        /\ owned' \in [Ids -> Files \cup {None}] /\ owned'[i] = f /\ f # None
        /\ \A k \in Ids \ {i} : owned'[k] = owned[k]
    BY NewIsFresh, Numbers
  <1>2. /\ DOMAIN job' = DOMAIN job /\ job'.sub = i /\ job'.entry = job.entry
        /\ job'.path = job.path /\ job'.op = job.op /\ job'.handle = job.handle
        /\ job'.index \in Nat
    BY DEF IInv, Shape
  <1>3. job'.attribute = job.attribute
    BY DEF IInv, Shape
  <1>4. UNCHANGED <<main, mountHandle, frees, fuse, attributes, info, pc, reply, lost>>
    BY DEF process
  <1>5. Shape'
    BY <1>1, <1>2, <1>3, <1>4, Numbers DEF IInv, Shape
  <1>6. Pointers' /\ Locals'
    BY <1>1, <1>2, <1>4, Numbers DEF IInv, Pointers, Locals, Referred
  <1>7. Accounted'
    <2>1. \A k \in Ids : owned'[k] # None <=> Referred(k)'
      BY <1>1, <1>2, <1>4, Numbers DEF IInv, Accounted, Referred
    <2> QED
      BY <2>1, <1>3, <1>4 DEF IInv, Accounted
  <1>8. AtStep'
    BY <1>2, <1>3, <1>4 DEF IInv, AtStep, OfInfo, OfPath
  <1>9. Answered' /\ Process'
    BY <1>4 DEF IInv, Answered, Process
  <1> QED
    BY <1>5, <1>6, <1>7, <1>8, <1>9 DEF IInv

(* It is freed when its name was given.                                    *)
LEMMA FillStep ==
  ASSUME IInv, pc \in {"readdir", "find"}, job.sub # 0, Free(job.sub), NEW o,
         job' = [job EXCEPT !.sub = 0, !.index = @ + 1, !.out = o],
         UNCHANGED <<process, attributes, info, pc, reply, lost>>
  PROVE  IInv'
  <1>1. /\ job.sub \in Ids /\ owned'[job.sub] = None
        /\ owned' \in [Ids -> Files \cup {None}]
        /\ \A k \in Ids \ {job.sub} : owned'[k] = owned[k]
    BY Numbers DEF IInv, Shape, Free
  <1>2. /\ DOMAIN job' = DOMAIN job /\ job'.sub = 0 /\ job'.entry = job.entry
        /\ job'.path = job.path /\ job'.op = job.op /\ job'.handle = job.handle
        /\ job'.index \in Nat
    BY DEF IInv, Shape
  <1>3. job'.attribute = job.attribute
    BY DEF IInv, Shape
  <1>4. UNCHANGED <<main, mountHandle, frees, fuse, attributes, info, pc, reply, lost>>
    BY DEF process
  <1>5. Shape'
    BY <1>1, <1>2, <1>3, <1>4, Numbers DEF IInv, Shape
  <1>6. Pointers' /\ Locals'
    BY <1>1, <1>2, <1>4, Numbers DEF IInv, Pointers, Locals
  <1>7. Accounted'
    <2>1. \A k \in Ids : owned'[k] # None <=> Referred(k)'
      BY <1>1, <1>2, <1>4, Numbers DEF IInv, Accounted, Referred, Pointers, Locals
    <2> QED
      BY <2>1, <1>3, <1>4 DEF IInv, Accounted
  <1>8. AtStep'
    BY <1>2, <1>3, <1>4 DEF IInv, AtStep, OfInfo, OfPath
  <1>9. Answered' /\ Process'
    BY <1>4 DEF IInv, Answered, Process
  <1> QED
    BY <1>5, <1>6, <1>7, <1>8, <1>9 DEF IInv

LEMMA ListedAreFiles ==
  \A f \in Files : \A k \in Nat : k < Len(ListOf[f]) => ListOf[f][k + 1] \in Files
  BY MountAssumption

(* The next entry of a directory that is listed is a file of the image.    *)
LEMMA NextIsFile ==
  ASSUME IInv, NEW f \in Files, job.index < Len(ListOf[f])
  PROVE  ListOf[f][job.index + 1] \in Files
  BY ListedAreFiles DEF IInv, Shape

LEMMA ListingStep ==
  ASSUME IInv, ReadDir \/ FillDir \/ FindSub \/ FillFindData PROVE IInv'
  <1>1. CASE ReadDir
    <2>1. FileOfInfo \in Files
      BY <1>1, FoundInFiles DEF ReadDir, FileOfInfo, IInv, AtStep, Pointers, OfInfo
    <2>2. ListOf[FileOfInfo][job.index + 1] \in Files
      BY <1>1, <2>1, NextIsFile DEF ReadDir
    <2> HIDE DEF IInv
    <2> QED
      BY <1>1, <2>2, SubStep DEF ReadDir
  <1>2. CASE FindSub
    <2>1. job.entry \in Ids
      BY <1>2, Numbers DEF FindSub, IInv, Shape, AtStep, OfPath
    <2>2. FileOfJob \in Files
      BY <2>1 DEF FileOfJob, IInv, Shape, Accounted, Referred
    <2>3. ListOf[FileOfJob][job.index + 1] \in Files
      BY <1>2, <2>2, NextIsFile DEF FindSub
    <2> HIDE DEF IInv
    <2> QED
      BY <1>2, <2>3, SubStep DEF FindSub
  <1>3. CASE FillDir
    BY <1>3, FillStep DEF FillDir
  <1>4. CASE FillFindData
    BY <1>4, FillStep DEF FillFindData
  <1> QED
    BY <1>1, <1>2, <1>3, <1>4

LEMMA ListingFails == ASSUME IInv, ReadDirFails \/ FindFilesFails PROVE IInv'
  <1>1. pc \in {"readdir", "find"} /\ UNCHANGED <<process, attributes, info, lost>>
    BY DEF ReadDirFails, FindFilesFails
  <1>2. PICK result \in {"EIO", "failed"} : Reply(result, None, <<>>)
    BY DEF ReadDirFails, FindFilesFails
  <1>3. owned' = [i \in Ids |-> IF i = job.sub \/ i = job.entry THEN None ELSE owned[i]]
    <2>1. CASE ReadDirFails
      <3>1. job.entry = 0 /\ owned' = (IF job.sub = 0 THEN owned ELSE [owned EXCEPT ![job.sub] = None])
        BY <2>1 DEF ReadDirFails, Free, IInv, AtStep, OfInfo
      <3> QED
        BY <3>1, Numbers DEF IInv, Shape
    <2>2. CASE FindFilesFails
      BY <2>2 DEF FindFilesFails
    <2> QED
      BY <2>1, <2>2
  <1>4. lost' = lost /\ lost'.attributes \in Nat /\ attributes' = lost'.attributes
    <2>1. ~job.attribute
      BY <1>1 DEF IInv, AtStep
    <2> QED
      BY <2>1, <1>1 DEF IInv, Shape, Accounted
  <1> HIDE DEF IInv
  <1> QED
    BY <1>1, <1>2, <1>3, <1>4, AnswerStep

------------------------------------------------------------------------------
(* The handlers of a file info                                             *)

LEMMA ReplyStep ==
  ASSUME IInv, NotFound \/ LookUpFails \/ ReadFile \/ ReadDirEnds PROVE IInv'
  <1>1. CASE NotFound
    BY <1>1, NothingFreed DEF NotFound
  <1>2. CASE LookUpFails
    BY <1>2, NothingFreed DEF LookUpFails
  <1>3. CASE ReadFile
    <2>1. FileOfInfo \in Found(job.path)
      BY <1>3 DEF ReadFile, FileOfInfo, IInv, AtStep, Pointers, OfInfo
    <2> HIDE DEF IInv
    <2> QED
      BY <1>3, <2>1, NothingFreed DEF ReadFile
  <1>4. CASE ReadDirEnds
    BY <1>4, NothingFreed DEF ReadDirEnds
  <1> QED
    BY <1>1, <1>2, <1>3, <1>4

(* A file info is closed: what it pointed to is freed, or lost.            *)
LEMMA CloseStep ==
  ASSUME IInv, Release \/ ReleaseDir PROVE IInv'
  <1> DEFINE h == job.handle
             i == info[h].fh
  <1>1. /\ pc \in {"release", "releasedir"} /\ job.entry = 0 /\ job.sub = 0 /\ ~job.attribute
        /\ h \in Handles /\ info[h].kind # "closed" /\ job.op # "read"
    BY DEF Release, ReleaseDir, IInv, AtStep, OfInfo
  <1>2. /\ i \in Ids /\ i \notin lost.entries
        /\ \A k \in Handles \ {h} : info[k].kind # "closed" => info[k].fh # i
    BY <1>1 DEF IInv, Pointers
  <1>3. /\ info' = [info EXCEPT ![h] = NoInfo] /\ Reply("ok", None, <<>>)
        /\ UNCHANGED <<main, mountHandle, frees, fuse, attributes>>
    BY DEF Release, ReleaseDir, process
  <1>4. \/ owned' = [owned EXCEPT ![i] = None] /\ lost' = lost
        \/ owned' = owned /\ lost' = [lost EXCEPT !.entries = @ \cup {i}]
    BY DEF Release, ReleaseDir, Free
  <1>5. /\ pc' = "idle" /\ job' = NoJob /\ reply'.op = job.op
        /\ job'.entry = 0 /\ job'.sub = 0 /\ job'.attribute = FALSE /\ job'.op = "none"
        /\ job'.path \in Asked
    BY <1>3, ReplyFields DEF NoJob, Asked
  <1>6. /\ info' \in [Handles -> [kind : InfoKinds, path : Asked, fh : 0 .. MaxEntries]]
        /\ info'[h].kind = "closed"
        /\ \A k \in Handles \ {h} : info'[k] = info[k]
    <2>1. NoInfo \in [kind : InfoKinds, path : Asked, fh : 0 .. MaxEntries] /\ NoInfo.kind = "closed"
      BY Numbers DEF NoInfo, InfoKinds, Asked
    <2> QED
      BY <2>1, <1>1, <1>3 DEF IInv, Shape
  <1>7. /\ DOMAIN lost' = DOMAIN lost /\ lost'.attributes = lost.attributes
        /\ \/ owned' = [owned EXCEPT ![i] = None] /\ lost'.entries = lost.entries
           \/ owned' = owned /\ lost'.entries = lost.entries \cup {i}
    BY <1>4 DEF IInv, Shape
  <1> HIDE DEF h, i
  <1>8. Shape'
    <2>1. job'.attribute \in BOOLEAN /\ job'.index \in Nat
      BY <1>5 DEF NoJob
    <2>2. job'.entry \in 0 .. MaxEntries /\ job'.sub \in 0 .. MaxEntries
      BY <1>5, Numbers
    <2>3. DOMAIN job' = {"op", "path", "handle", "size", "entry", "sub", "attribute", "index", "out"}
      BY <1>5, FieldsOfNoJob
    <2>4. owned' \in [Ids -> Files \cup {None}] /\ lost'.entries \subseteq Ids
      BY <1>2, <1>7 DEF IInv, Shape
    <2> QED
      BY <1>5, <1>6, <1>7, <2>1, <2>2, <2>3, <2>4 DEF IInv, Shape
  <1>9. Pointers' /\ Locals'
    <2>1. ASSUME NEW k \in Handles, info'[k].kind # "closed"
          PROVE  /\ k # h /\ info'[k] = info[k] /\ info[k].fh \in Ids /\ info[k].fh # i
                 /\ owned'[info[k].fh] = owned[info[k].fh]
                 /\ info[k].fh \notin lost'.entries
      BY <2>1, <1>2, <1>6, <1>7 DEF IInv, Pointers, Shape
    <2>2. \A k \in Handles : info'[k].kind # "closed" =>
            /\ info'[k].fh \in Ids /\ owned'[info'[k].fh] \in Found(info'[k].path)
            /\ info'[k].fh \notin lost'.entries
            /\ info'[k].fh # job'.entry /\ info'[k].fh # job'.sub
      BY <2>1, <1>5, Numbers DEF IInv, Pointers
    <2>3. \A k, l \in Handles :
            info'[k].kind # "closed" /\ info'[l].kind # "closed" /\ info'[k].fh = info'[l].fh => k = l
      BY <2>1 DEF IInv, Pointers
    <2> QED
      BY <2>2, <2>3, <1>5 DEF Pointers, Locals
  <1>10. Accounted'
    <2>1. ASSUME NEW j \in Ids PROVE owned'[j] # None <=> Referred(j)'
      <3>1. CASE j = i
        <4>1. owned[i] # None
          BY <1>1, <1>2 DEF IInv, Accounted, Referred, i
        <4>2. CASE owned' = owned /\ lost'.entries = lost.entries \cup {i}
          BY <3>1, <4>1, <4>2 DEF Referred
        <4>3. CASE owned' = [owned EXCEPT ![i] = None] /\ lost'.entries = lost.entries
          <5>1. owned'[i] = None
            BY <4>3, <1>2 DEF IInv, Shape
          <5>2. \A k \in Handles : info'[k].kind # "closed" => info'[k].fh # i
            BY <1>2, <1>6
          <5> QED
            BY <3>1, <4>3, <5>1, <5>2, <1>2, <1>5, Numbers DEF Referred
        <4> QED
          BY <4>2, <4>3, <1>7
      <3>2. CASE j # i
        <4>1. (\E k \in Handles : info[k].kind # "closed" /\ info[k].fh = j)
                <=> (\E k \in Handles : info'[k].kind # "closed" /\ info'[k].fh = j)
          BY <3>2, <1>6 DEF i
        <4>2. owned'[j] = owned[j] /\ (j \in lost'.entries <=> j \in lost.entries)
          BY <3>2, <1>7 DEF IInv, Shape
        <4>3. owned[j] # None <=> Referred(j)
          BY DEF IInv, Accounted
        <4> QED
          BY <4>1, <4>2, <4>3, <1>1, <1>5, Numbers DEF Referred
      <3> QED
        BY <3>1, <3>2
    <2>2. attributes' = lost'.attributes
      BY <1>1, <1>3, <1>7 DEF IInv, Accounted, Shape
    <2>3. ~job'.attribute
      BY <1>5
    <2>4. attributes' = lost'.attributes + (IF job'.attribute THEN 1 ELSE 0)
      BY <2>2, <2>3, <1>7 DEF IInv, Shape
    <2> QED
      BY <2>1, <2>4 DEF Accounted
  <1>11. AtStep' /\ Answered' /\ Process'
    <2>1. AtStep'
      BY <1>5 DEF AtStep, OfInfo, OfPath
    <2>2. Answered' /\ Process'
      BY <1>1, <1>3, <1>5 DEF IInv, Answered, Process
    <2> QED
      BY <2>1, <2>2
  <1> QED
    BY <1>8, <1>9, <1>10, <1>11 DEF IInv

------------------------------------------------------------------------------
(* main                                                                    *)

LEMMA ProcessStep ==
  ASSUME IInv, UNCHANGED <<owned, attributes, lost, info, pc, job, reply>>, Process' PROVE IInv'
  <1>1. Shape' /\ Answered'
    BY DEF IInv, Shape, Answered
  <1>2. Pointers' /\ Locals'
    BY DEF IInv, Pointers, Locals
  <1>3. Accounted'
    BY DEF IInv, Accounted, Referred
  <1>4. AtStep'
    BY DEF IInv, AtStep
  <1> QED
    BY <1>1, <1>2, <1>3, <1>4 DEF IInv

LEMMA MainStep ==
  ASSUME IInv,
         \/ InitializeHandle \/ Open \/ NewFuse \/ MountFuse \/ LoopFails \/ MainFails \/ Unmount
         \/ StartDokan \/ EndDokan
  PROVE  IInv'
  <1>1. UNCHANGED <<owned, attributes, lost, info, pc, job, reply>>
    BY DEF InitializeHandle, Open, NewFuse, MountFuse, LoopFails, Advance, MainFails, Unmount,
           StartDokan, EndDokan, handlers, memory
  <1>2. Process'
    <2>1. CASE InitializeHandle \/ StartDokan \/ EndDokan
      BY <2>1 DEF InitializeHandle, StartDokan, EndDokan, IInv, Process
    <2>2. CASE Open \/ NewFuse \/ MountFuse \/ LoopFails
      BY <2>2 DEF Open, NewFuse, MountFuse, LoopFails, Advance, IInv, Process
    <2>3. CASE MainFails \/ Unmount
      BY <2>3 DEF MainFails, Unmount, Destroy, FreeHandle, IInv, Process
    <2> QED
      BY <2>1, <2>2, <2>3
  <1> HIDE DEF IInv
  <1> QED
    BY <1>1, <1>2, ProcessStep

------------------------------------------------------------------------------

LEMMA CallsStep ==
  ASSUME IInv,
         \/ CallWithPath \/ CallWithHandle
         \/ \E p \in Paths : FindFiles(p) \/ GetFileInformation(p) \/ \E h \in Handles : ZwCreateFile(p, h)
         \/ \E h \in Handles : ReadContext(h) \/ CloseFile(h)
  PROVE  IInv'
  <1>1. CASE CallWithPath
    <2> SUFFICES ASSUME NEW p \in Paths,
                        \/ \E op \in {"open", "opendir"}, h \in Handles :
                             info[h].kind = "closed" /\
                             Call("lookup", [NoJob EXCEPT !.op = op, !.path = p, !.handle = h])
                        \/ \E op \in {"getattr", "readlink"} :
                             Call("lookup", [NoJob EXCEPT !.op = op, !.path = p])
                        \/ \E op \in {"getxattr", "listxattr"}, n \in BufferSizes :
                             Call("lookup", [NoJob EXCEPT !.op = op, !.path = p, !.size = n])
                 PROVE  IInv'
      BY <1>1 DEF CallWithPath
    <2>1. ASSUME NEW op \in {"open", "opendir"}, NEW h \in Handles, info[h].kind = "closed",
                 Call("lookup", [NoJob EXCEPT !.op = op, !.path = p, !.handle = h])
          PROVE  IInv'
      BY <2>1, CallWithPathStep DEF Call, Opening
    <2>2. ASSUME NEW op \in {"getattr", "readlink"}, Call("lookup", [NoJob EXCEPT !.op = op, !.path = p])
          PROVE  IInv'
      BY <2>2, CallWithPathStep DEF Call, OfPath
    <2>3. ASSUME NEW op \in {"getxattr", "listxattr"}, NEW n \in BufferSizes,
                 Call("lookup", [NoJob EXCEPT !.op = op, !.path = p, !.size = n])
          PROVE  IInv'
      BY <2>3, CallWithPathStep DEF Call, OfPath
    <2> QED
      BY <2>1, <2>2, <2>3
  <1>2. CASE CallWithHandle
    <2> SUFFICES ASSUME NEW h \in Handles, NEW op \in OfInfo, info[h].kind # "closed",
                        Call(op, [NoJob EXCEPT !.op = op, !.path = info[h].path, !.handle = h])
                 PROVE  IInv'
      BY <1>2 DEF CallWithHandle, OfInfo
    <2> QED
      BY CallWithHandleStep DEF Call
  <1>3. ASSUME NEW p \in Paths, FindFiles(p) \/ GetFileInformation(p) PROVE IInv'
    <2>1. "find" \in OfPath /\ "information" \in OfPath
      BY DEF OfPath
    <2>2. CASE FindFiles(p)
      BY <2>1, <2>2, CallWithPathStep DEF FindFiles, CallDokan
    <2>3. CASE GetFileInformation(p)
      BY <2>1, <2>3, CallWithPathStep DEF GetFileInformation, CallDokan
    <2> QED
      BY <1>3, <2>2, <2>3
  <1>4. ASSUME NEW p \in Paths, NEW h \in Handles, ZwCreateFile(p, h) PROVE IInv'
    BY <1>4, CallWithPathStep DEF ZwCreateFile, CallDokan, Opening
  <1>5. ASSUME NEW h \in Handles, ReadContext(h) \/ CloseFile(h) PROVE IInv'
    <2>1. "read" \in OfInfo /\ "release" \in OfInfo
      BY DEF OfInfo
    <2>2. CASE ReadContext(h)
      <3>1. /\ info[h].kind # "closed"
            /\ CallFrom("dokan", "read", [NoJob EXCEPT !.op = "read", !.path = info[h].path, !.handle = h])
        BY <2>2 DEF ReadContext, CallDokan
      <3>2. "read" = "read" => "read" = "read"
        OBVIOUS
      <3> HIDE DEF IInv
      <3> QED
        BY <2>1, <3>1, <3>2, CallWithHandleStep
    <2>3. CASE CloseFile(h)
      <3>1. /\ info[h].kind # "closed"
            /\ CallFrom("dokan", "release", [NoJob EXCEPT !.op = "close", !.path = info[h].path, !.handle = h])
        BY <2>3 DEF CloseFile, CallDokan
      <3>2. "close" = "read" => "release" = "read"
        OBVIOUS
      <3> HIDE DEF IInv
      <3> QED
        BY <2>1, <3>1, <3>2, CallWithHandleStep
    <2> QED
      BY <1>5, <2>2, <2>3
  <1> QED
    BY <1>1, <1>2, <1>3, <1>4, <1>5

(* The inductive invariant of the process that mounts a volume, by FUSE or *)
(* by Dokan: what is in memory is what the file infos, the handler under   *)
(* way and the known leaks refer to, each of them something else.          *)
THEOREM Safety == MountSpec => []IInv
  <1>1. IInv /\ [Next \/ DokanNext \/ Exited]_vars => IInv'
    <2> SUFFICES ASSUME IInv, [Next \/ DokanNext \/ Exited]_vars PROVE IInv'
      OBVIOUS
    <2>1. CASE UNCHANGED vars
      BY <2>1, ProcessStep DEF vars, process, memory, IInv, Process
    <2>2. CASE Ended \/ Exited
      BY <2>1, <2>2 DEF Ended, Exited
    <2>3. CASE \/ InitializeHandle \/ Open \/ NewFuse \/ MountFuse \/ LoopFails \/ MainFails \/ Unmount
               \/ StartDokan \/ EndDokan
      BY <2>3, MainStep
    <2>4. CASE \/ CallWithPath \/ CallWithHandle
               \/ \E p \in Paths : FindFiles(p) \/ GetFileInformation(p) \/ \E h \in Handles : ZwCreateFile(p, h)
               \/ \E h \in Handles : ReadContext(h) \/ CloseFile(h)
      BY <2>4, CallsStep
    <2>5. CASE LookUp \/ NotFound \/ LookUpFails \/ ReadFile \/ ReadDirEnds
      BY <2>5, LookUpStep, ReplyStep
    <2>6. CASE \/ GetAttr \/ ReadLink \/ FileInformation \/ ListXAttrEnds \/ FindFilesEnds
               \/ GetXAttr \/ ListXAttr \/ ReadValue \/ ReadValueFails \/ ListXAttrFails
      BY <2>6, GettersStep, GetXAttrStep, ListXAttrStep, AttributeFinish
    <2>7. CASE Release \/ ReleaseDir
      BY <2>7, CloseStep
    <2>8. CASE ReadDir \/ FillDir \/ FindSub \/ FillFindData \/ ReadDirFails \/ FindFilesFails
      BY <2>8, ListingStep, ListingFails
    <2> HIDE DEF IInv
    <2> QED
      BY <2>1, <2>2, <2>3, <2>4, <2>5, <2>6, <2>7, <2>8 DEF Next, DokanNext, Handler
  <1> QED
    BY <1>1, InitInductive, PTL DEF MountSpec

(* For as long as a file info is open its entry is alive, is the file of   *)
(* the path it was opened with and belongs to it alone, and a read gives   *)
(* the data of that file (mount_fuse.c, mount_dokan.c).                    *)
THEOREM OpenFilesAreHeld == MountSpec => []HandlesHoldTheirFile
  <1>1. IInv => HandlesHoldTheirFile
    <2> SUFFICES ASSUME IInv PROVE HandlesHoldTheirFile
      OBVIOUS
    <2>1. ASSUME NEW h \in OpenInfos
          PROVE  info[h].fh \in InUse \ lost.entries /\ owned[info[h].fh] \in Found(info[h].path)
      <3>1. /\ info[h].fh \in Ids /\ info[h].fh \notin lost.entries
            /\ owned[info[h].fh] \in Found(info[h].path)
        BY <2>1 DEF IInv, Pointers, OpenInfos
      <3>2. owned[info[h].fh] # None
        BY <3>1, FoundInFiles, Numbers
      <3> QED
        BY <3>1, <3>2 DEF InUse
    <2> QED
      BY <2>1 DEF HandlesHoldTheirFile, IInv, Answered
  <1> QED
    BY <1>1, Safety, PTL

(* Between two requests the process has the entries of the open file infos *)
(* and what releasedir and a failing getxattr leave behind, and nothing    *)
(* else, whatever failed; the mount handle is freed once.                  *)
THEOREM NothingIsForgotten ==
  ASSUME IsFiniteSet(Handles)
  PROVE  MountSpec => []NothingElseIsHeld
  <1>1. IInv => NothingElseIsHeld
    <2> SUFFICES ASSUME IInv PROVE NothingElseIsHeld
      OBVIOUS
    <2>1. ASSUME pc = "idle" PROVE InUse = Held \cup lost.entries /\ attributes = lost.attributes
      <3>1. job.entry = 0 /\ job.sub = 0 /\ ~job.attribute
        BY <2>1 DEF IInv, AtStep
      <3>2. \A i \in Ids : owned[i] # None <=> i \in Held \cup lost.entries
        BY <3>1, Numbers DEF IInv, Accounted, Referred, Held, OpenInfos
      <3>3. Held \cup lost.entries \subseteq Ids
        BY DEF IInv, Pointers, Shape, Held, OpenInfos
      <3>4. attributes = lost.attributes
        BY <3>1 DEF IInv, Accounted, Shape
      <3> QED
        BY <3>2, <3>3, <3>4 DEF InUse
    <2>2. Cardinality(Held) = Cardinality(OpenInfos)
      <3> DEFINE f == [h \in OpenInfos |-> info[h].fh]
      <3>1. f \in Bijection(OpenInfos, Held)
        <4>1. f \in [OpenInfos -> Held] /\ \A i \in Held : \E h \in OpenInfos : f[h] = i
          BY DEF Held
        <4>2. \A h, k \in OpenInfos : f[h] = f[k] => h = k
          BY DEF IInv, Pointers, OpenInfos
        <4> QED
          BY <4>1, <4>2, Fun_IsBij
      <3>2. IsFiniteSet(OpenInfos)
        BY FS_Subset DEF OpenInfos
      <3> QED
        BY <3>1, <3>2, FS_Bijection DEF ExistsBijection
    <2>3. frees <= 1 /\ (main = "ended" => frees = 1)
      BY DEF IInv, Process
    <2> QED
      BY <2>1, <2>2, <2>3 DEF NothingElseIsHeld
  <1> QED
    BY <1>1, Safety, PTL

------------------------------------------------------------------------------
(* Recursion                                                               *)

(* A set of numbers that is not empty has a least one.                     *)
LEMMA LeastNumber ==
  ASSUME NEW I \in SUBSET Nat, I # {}
  PROVE  \E m \in I : \A j \in I : m <= j
  <1> DEFINE R == OpToRel(<, Nat)
  <1>1. IsWellFoundedOn(R, Nat)
    BY NatLessThanWellFounded
  <1>2. \A x, y \in Nat : x < y => <<x, y>> \in R
    BY DEF OpToRel
  <1> HIDE DEF R
  <1>3. PICK m \in I : \A j \in I : ~(<<j, m>> \in R)
    BY <1>1, WFMin
  <1>4. ASSUME NEW j \in I PROVE m <= j
    <2>1. j \in Nat /\ m \in Nat
      OBVIOUS
    <2>2. ~(<<j, m>> \in R)
      BY <1>3
    <2>3. ~(j < m)
      BY <1>2, <2>1, <2>2, Zenon
    <2> QED
      BY <2>1, <2>3
  <1> QED
    BY <1>4

(* What holds of 0 and goes on from each number to the next.               *)
LEMMA EveryNumber ==
  ASSUME NEW N \in Nat, NEW S, 0 \in S, \A n \in 1 .. N : n - 1 \in S => n \in S
  PROVE  \A n \in 0 .. N : n \in S
  <1> DEFINE I == {n \in 0 .. N : n \notin S}
  <1> SUFFICES ASSUME I # {} PROVE FALSE
    OBVIOUS
  <1>1. I \in SUBSET Nat
    OBVIOUS
  <1>2. PICK m \in I : \A j \in I : m <= j
    BY <1>1, LeastNumber
  <1>3. m \in 1 .. N /\ m \notin S /\ m - 1 \in 0 .. N /\ m - 1 < m
    BY <1>1
  <1>4. m - 1 \notin I
    BY <1>1, <1>2, <1>3
  <1> QED
    BY <1>3, <1>4

(* What holds of the root and goes on from a directory to what is in it.   *)
LEMMA EveryFile ==
  ASSUME NEW S, Root \in S, \A f \in Files \ {Root} : Parent[f] \in S => f \in S
  PROVE  \A f \in Files : f \in S
  <1>1. PICK depth \in [Files -> 0 .. Cardinality(Files)] :
          \A f \in Files \ {Root} : depth[Parent[f]] < depth[f]
    BY UndamagedAssumption
  <1> DEFINE I == {depth[f] : f \in {x \in Files : x \notin S}}
  <1> SUFFICES ASSUME I # {} PROVE FALSE
    OBVIOUS
  <1>2. I \in SUBSET Nat
    BY <1>1
  <1>3. PICK m \in I : \A j \in I : m <= j
    BY <1>2, LeastNumber
  <1>4. PICK f \in Files : f \notin S /\ m = depth[f]
    OBVIOUS
  <1>5. f \in Files \ {Root} /\ Parent[f] \in Files /\ Parent[f] \notin S
    BY <1>4, MountAssumption
  <1>6. depth[Parent[f]] \in I /\ depth[Parent[f]] < m
    BY <1>1, <1>4, <1>5
  <1> QED
    BY <1>2, <1>3, <1>6

(* A function over numbers that is given by its first value and by each    *)
(* from the one before exists.                                             *)
OverNumbers(N, X, base, step, f) ==
  /\ f \in [0 .. N -> X]
  /\ f[0] = base
  /\ \A n \in 1 .. N : f[n] = step[<<n, f[n - 1]>>]

LEMMA SequenceRecursion ==
  ASSUME NEW N \in Nat, NEW X, NEW base \in X, NEW step \in [(1 .. N) \X X -> X]
  PROVE  \E f : OverNumbers(N, X, base, step, f)
  <1> DEFINE Upto(m, f) == f[0] = base /\ \A n \in 1 .. m : f[n] = step[<<n, f[n - 1]>>]
             S == {m \in 0 .. N : \E f \in [0 .. N -> X] : Upto(m, f)}
  <1>1. 0 \in S
    <2> DEFINE g == [n \in 0 .. N |-> base]
    <2>1. g \in [0 .. N -> X] /\ g[0] = base
      OBVIOUS
    <2> HIDE DEF g
    <2>2. Upto(0, g)
      BY <2>1
    <2> QED
      BY <2>1, <2>2
  <1>2. ASSUME NEW m \in 1 .. N, m - 1 \in S PROVE m \in S
    <2>1. PICK f \in [0 .. N -> X] : Upto(m - 1, f)
      BY <1>2
    <2> DEFINE g == [n \in 0 .. N |-> IF n = m THEN step[<<m, f[m - 1]>>] ELSE f[n]]
    <2>2. m - 1 \in 0 .. N /\ <<m, f[m - 1]>> \in (1 .. N) \X X
      OBVIOUS
    <2>3. g \in [0 .. N -> X]
      BY <2>2
    <2>4. g[0] = base
      BY <2>1
    <2>5. ASSUME NEW n \in 1 .. m PROVE g[n] = step[<<n, g[n - 1]>>]
      <3>1. n - 1 \in 0 .. N /\ n - 1 # m /\ n \in 0 .. N
        OBVIOUS
      <3>2. g[n - 1] = f[n - 1]
        BY <3>1
      <3>3. CASE n = m
        BY <3>1, <3>2, <3>3
      <3>4. CASE n # m
        <4>1. n \in 1 .. m - 1
          BY <3>4
        <4> QED
          BY <2>1, <3>1, <3>2, <3>4, <4>1
      <3> QED
        BY <3>3, <3>4
    <2> HIDE DEF g
    <2>6. Upto(m, g) /\ m \in 0 .. N
      BY <2>4, <2>5
    <2> QED
      BY <2>3, <2>6
  <1>3. N \in S
    <2> HIDE DEF S
    <2> QED
      BY <1>1, <1>2, EveryNumber
  <1> QED
    BY <1>3 DEF OverNumbers

(* So does one over the files that is given by its value for the root and  *)
(* by each from the one of the directory.                                  *)
OverFiles(X, base, step, F) ==
  /\ F \in [Files -> X]
  /\ F[Root] = base
  /\ \A f \in Files \ {Root} : F[f] = step[<<f, F[Parent[f]]>>]

LEMMA TreeRecursion ==
  ASSUME NEW X, NEW base \in X, NEW step \in [Files \X X -> X]
  PROVE  \E F : OverFiles(X, base, step, F)
  <1>1. PICK depth \in [Files -> 0 .. Cardinality(Files)] :
          \A f \in Files \ {Root} : depth[Parent[f]] < depth[f]
    BY UndamagedAssumption
  <1> DEFINE N == Cardinality(Files)
             Upto(m, F) ==
               /\ F[Root] = base
               /\ \A f \in Files \ {Root} : depth[f] <= m => F[f] = step[<<f, F[Parent[f]]>>]
             S == {m \in 0 .. N : \E F \in [Files -> X] : Upto(m, F)}
  <1>2. N \in Nat
    BY UndamagedAssumption, FS_CardinalityType
  <1>3. Root \in Files /\ Parent \in [Files -> Files]
    BY MountAssumption
  <1>4. 0 \in S
    <2>1. ASSUME NEW f \in Files \ {Root} PROVE ~(depth[f] <= 0)
      <3>1. Parent[f] \in Files /\ depth[f] \in Nat /\ depth[Parent[f]] \in Nat
        BY <1>1, <1>2, <1>3
      <3> QED
        BY <1>1, <3>1
    <2>2. Upto(0, [f \in Files |-> base]) /\ [f \in Files |-> base] \in [Files -> X]
      BY <1>3, <2>1
    <2> QED
      BY <1>2, <2>2
  <1>5. ASSUME NEW m \in 1 .. N, m - 1 \in S PROVE m \in S
    <2>1. PICK F \in [Files -> X] : Upto(m - 1, F)
      BY <1>5
    <2> DEFINE G == [f \in Files |-> IF f # Root /\ depth[f] = m THEN step[<<f, F[Parent[f]]>>] ELSE F[f]]
    <2>2. \A f \in Files : <<f, F[Parent[f]]>> \in Files \X X
      BY <1>3
    <2>3. G \in [Files -> X] /\ G[Root] = base
      BY <1>3, <2>1, <2>2
    <2>4. ASSUME NEW f \in Files \ {Root}, depth[f] <= m PROVE G[f] = step[<<f, G[Parent[f]]>>]
      <3>1. /\ Parent[f] \in Files /\ depth[f] \in Nat /\ depth[Parent[f]] \in Nat
            /\ depth[Parent[f]] < depth[f] /\ m \in Nat
        BY <1>1, <1>2, <1>3
      <3>2. G[Parent[f]] = F[Parent[f]]
        <4>1. depth[Parent[f]] # m
          BY <2>4, <3>1
        <4> QED
          BY <3>1, <4>1
      <3>3. CASE depth[f] = m
        BY <3>2, <3>3
      <3>4. CASE depth[f] # m
        <4>1. depth[f] <= m - 1
          BY <2>4, <3>1, <3>4
        <4> QED
          BY <2>1, <3>2, <3>4, <4>1
      <3> QED
        BY <3>3, <3>4
    <2> HIDE DEF G
    <2>5. Upto(m, G) /\ m \in 0 .. N
      BY <1>2, <2>3, <2>4
    <2> QED
      BY <2>3, <2>5
  <1>6. N \in S
    <2> HIDE DEF S, N
    <2> QED
      BY <1>2, <1>4, <1>5, EveryNumber
  <1>7. PICK F \in [Files -> X] : Upto(N, F)
    BY <1>6
  <1>8. \A f \in Files : depth[f] <= N
    BY <1>1, <1>2
  <1> QED
    BY <1>7, <1>8 DEF OverFiles

------------------------------------------------------------------------------
(* Names that are escaped and taken back                                   *)

Strings == Seq(Characters)
Afters == {"plain", "escape", "x", "U", "bad"}
Start == [after |-> "plain", out |-> <<>>]
TakeStates == [after : Afters, out : Strings]

LEMMA EscapedIs ==
  ASSUME NEW c \in Characters
  PROVE  /\ Escaped(c) \in Strings
         /\ c # "/" => "/" \notin ToSet(Escaped(c))
  <1>1. Escaped(c) \in {<<Escape, "x", HexLF>>, <<Escape, "U", HexLS>>, <<Escape, Escape>>, <<c>>}
    BY DEF Escaped
  <1>2. Escape # "/" /\ HexLF # "/" /\ HexLS # "/" /\ Escape \in Characters /\ HexLF \in Characters /\ HexLS \in Characters
        /\ "x" \in Characters /\ "U" \in Characters
    BY MountAssumption DEF Escape, HexLF, HexLS
  <1>3. CASE Escaped(c) = <<Escape, "x", HexLF>>
    BY <1>2, <1>3 DEF ToSet, Strings
  <1>4. CASE Escaped(c) = <<Escape, "U", HexLS>>
    BY <1>2, <1>4 DEF ToSet, Strings
  <1>5. CASE Escaped(c) = <<Escape, Escape>>
    BY <1>2, <1>5 DEF ToSet, Strings
  <1>6. CASE Escaped(c) = <<c>>
    BY <1>6 DEF ToSet, Strings
  <1> QED
    BY <1>1, <1>3, <1>4, <1>5, <1>6

LEMMA TakeType ==
  ASSUME NEW state \in TakeStates, NEW c \in Characters
  PROVE  Take(state, c) \in TakeStates
  <1>1. /\ state = [after |-> state.after, out |-> state.out]
        /\ state.after \in Afters /\ state.out \in Strings
    BY DEF TakeStates
  <1>2. ASSUME NEW a \in Afters PROVE [state EXCEPT !.after = a] \in TakeStates
    BY DEF TakeStates
  <1>3. ASSUME NEW d \in Characters PROVE [after |-> "plain", out |-> Append(state.out, d)] \in TakeStates
    BY <1>1 DEF TakeStates, Strings, Afters
  <1>4. state \in TakeStates /\ {"LF", "LS"} \subseteq Characters
    BY MountAssumption
  <1> HIDE DEF TakeStates
  <1> QED
    BY <1>1, <1>2, <1>3, <1>4 DEF Take, Afters

(* What one character does where it is not refused.                        *)
LEMMA TakeIs ==
  ASSUME NEW o \in Strings, NEW c \in Characters
  PROVE  /\ c # Escape => Take([after |-> "plain", out |-> o], c) = [after |-> "plain", out |-> Append(o, c)]
         /\ Take([after |-> "plain", out |-> o], Escape) = [after |-> "escape", out |-> o]
         /\ Take([after |-> "escape", out |-> o], Escape) = [after |-> "plain", out |-> Append(o, Escape)]
         /\ Take([after |-> "escape", out |-> o], "x") = [after |-> "x", out |-> o]
         /\ Take([after |-> "escape", out |-> o], "U") = [after |-> "U", out |-> o]
         /\ Take([after |-> "x", out |-> o], HexLF) = [after |-> "plain", out |-> Append(o, "LF")]
         /\ Take([after |-> "U", out |-> o], HexLS) = [after |-> "plain", out |-> Append(o, "LS")]
  BY DEF Take, Escape, HexLF, HexLS, Strings

(* The loops of the two directions of mount_path_string.c.                 *)
Copied(name, f) ==
  f = [n \in 0 .. Len(name) |-> IF n = 0 THEN <<>> ELSE f[n - 1] \o Escaped(name[n])]

LEMMA CopyFromIs ==
  ASSUME NEW name \in Strings
  PROVE  \E f \in [0 .. Len(name) -> Strings] :
           /\ f[0] = <<>>
           /\ \A n \in 1 .. Len(name) : f[n] = f[n - 1] \o Escaped(name[n])
           /\ CopyFrom(name) = f[Len(name)]
  <1> DEFINE N == Len(name)
             step == [p \in (1 .. N) \X Strings |-> p[2] \o Escaped(name[p[1]])]
             g == CHOOSE f : Copied(name, f)
  <1>1. N \in Nat /\ (\A n \in 1 .. N : name[n] \in Characters) /\ <<>> \in Strings
    BY DEF Strings
  <1>2. \A n \in 1 .. N, s \in Strings : s \o Escaped(name[n]) \in Strings
    BY <1>1, EscapedIs DEF Strings
  <1>3. step \in [(1 .. N) \X Strings -> Strings]
    BY <1>2
  <1>4. \A n \in 1 .. N, s \in Strings : step[<<n, s>>] = s \o Escaped(name[n])
    OBVIOUS
  <1> HIDE DEF step, N, g
  <1>5. PICK f : OverNumbers(N, Strings, <<>>, step, f)
    BY <1>1, <1>3, SequenceRecursion
  <1>6. \A n \in 1 .. N : f[n] = f[n - 1] \o Escaped(name[n])
    <2> SUFFICES ASSUME NEW n \in 1 .. N PROVE f[n] = f[n - 1] \o Escaped(name[n])
      OBVIOUS
    <2>1. f[n - 1] \in Strings
      BY <1>1, <1>5 DEF OverNumbers
    <2> QED
      BY <1>4, <1>5, <2>1 DEF OverNumbers
  <1>7. Copied(name, f)
    <2>1. \A n \in 0 .. N : n \in 1 .. N \/ n = 0
      BY <1>1
    <2>2. \A n \in 0 .. N : f[n] = IF n = 0 THEN <<>> ELSE f[n - 1] \o Escaped(name[n])
      BY <1>5, <1>6, <2>1 DEF OverNumbers
    <2>3. f = [n \in 0 .. N |-> f[n]]
      BY <1>5 DEF OverNumbers
    <2> QED
      BY <2>2, <2>3, Zenon DEF Copied, N
  <1>8. Copied(name, g)
    BY <1>7 DEF g
  <1>9. CopyFrom(name) = g[N]
    BY DEF CopyFrom, Copied, g, N
  <1>10. g[0] = <<>> /\ \A n \in 1 .. N : g[n] = g[n - 1] \o Escaped(name[n])
    BY <1>1, <1>8 DEF Copied, N
  <1> DEFINE S == {n \in 0 .. N : g[n] \in Strings}
  <1>11. 0 \in S
    BY <1>1, <1>10
  <1>12. ASSUME NEW n \in 1 .. N, n - 1 \in S PROVE n \in S
    <2>1. n \in 0 .. N /\ g[n - 1] \in Strings
      BY <1>1, <1>12
    <2>2. g[n] \in Strings
      BY <1>2, <1>10, <2>1
    <2> QED
      BY <2>1, <2>2
  <1>13. \A n \in 0 .. N : n \in S
    <2> HIDE DEF S
    <2> QED
      BY <1>1, <1>11, <1>12, EveryNumber
  <1>14. g \in [0 .. N -> Strings]
    BY <1>8, <1>13 DEF Copied, N
  <1> QED
    BY <1>9, <1>10, <1>14 DEF N

Taken(path, f) ==
  f = [n \in 0 .. Len(path) |->
         IF n = 0 THEN [after |-> "plain", out |-> <<>>] ELSE Take(f[n - 1], path[n])]

LEMMA CopyToIs ==
  ASSUME NEW path \in Strings
  PROVE  \E f \in [0 .. Len(path) -> TakeStates] :
           /\ f[0] = Start
           /\ \A n \in 1 .. Len(path) : f[n] = Take(f[n - 1], path[n])
           /\ CopyTo(path) = f[Len(path)]
  <1> DEFINE N == Len(path)
             step == [p \in (1 .. N) \X TakeStates |-> Take(p[2], path[p[1]])]
             g == CHOOSE f : Taken(path, f)
  <1>1. N \in Nat /\ (\A n \in 1 .. N : path[n] \in Characters) /\ Start \in TakeStates
    BY DEF Strings, Start, TakeStates, Afters
  <1>2. \A n \in 1 .. N, s \in TakeStates : Take(s, path[n]) \in TakeStates
    BY <1>1, TakeType
  <1>3. step \in [(1 .. N) \X TakeStates -> TakeStates]
    BY <1>2
  <1>4. \A n \in 1 .. N, s \in TakeStates : step[<<n, s>>] = Take(s, path[n])
    OBVIOUS
  <1> HIDE DEF step, N, g
  <1>5. PICK f : OverNumbers(N, TakeStates, Start, step, f)
    BY <1>1, <1>3, SequenceRecursion
  <1>6. \A n \in 1 .. N : f[n] = Take(f[n - 1], path[n])
    <2> SUFFICES ASSUME NEW n \in 1 .. N PROVE f[n] = Take(f[n - 1], path[n])
      OBVIOUS
    <2>1. f[n - 1] \in TakeStates
      BY <1>1, <1>5 DEF OverNumbers
    <2> QED
      BY <1>4, <1>5, <2>1 DEF OverNumbers
  <1>7. Taken(path, f)
    <2>1. \A n \in 0 .. N : n \in 1 .. N \/ n = 0
      BY <1>1
    <2>2. \A n \in 0 .. N : f[n] = IF n = 0 THEN Start ELSE Take(f[n - 1], path[n])
      BY <1>5, <1>6, <2>1 DEF OverNumbers
    <2>3. f = [n \in 0 .. N |-> f[n]]
      BY <1>5 DEF OverNumbers
    <2> QED
      BY <2>2, <2>3, Zenon DEF Taken, N, Start
  <1>8. Taken(path, g)
    BY <1>7 DEF g
  <1>9. CopyTo(path) = g[N]
    BY DEF CopyTo, Taken, g, N
  <1>10. g[0] = Start /\ \A n \in 1 .. N : g[n] = Take(g[n - 1], path[n])
    BY <1>1, <1>8 DEF Taken, Start, N
  <1> DEFINE S == {n \in 0 .. N : g[n] \in TakeStates}
  <1>11. 0 \in S
    BY <1>1, <1>10
  <1>12. ASSUME NEW n \in 1 .. N, n - 1 \in S PROVE n \in S
    BY <1>2, <1>10, <1>12
  <1>13. \A n \in 0 .. N : n \in S
    <2> HIDE DEF S
    <2> QED
      BY <1>1, <1>11, <1>12, EveryNumber
  <1>14. g \in [0 .. N -> TakeStates]
    BY <1>8, <1>13 DEF Taken, N
  <1> QED
    BY <1>9, <1>10, <1>14 DEF N

Plain(out) == [after |-> "plain", out |-> out]

LEMMA StringFacts ==
  ASSUME NEW s \in Strings, NEW c \in Characters
  PROVE  /\ Append(s, c) \in Strings /\ Len(Append(s, c)) = Len(s) + 1 /\ Len(s) \in Nat
         /\ (Append(s, c))[Len(s) + 1] = c
         /\ \A n \in 1 .. Len(s) : s[n] \in Characters /\ (Append(s, c))[n] = s[n]
         /\ <<c>> \in Strings /\ s \o <<c>> = Append(s, c)
  BY DEF Strings

(* A path that goes on by one character.                                   *)
LEMMA CopyToAppend ==
  ASSUME NEW p \in Strings, NEW c \in Characters
  PROVE  CopyTo(Append(p, c)) = Take(CopyTo(p), c)
  <1> DEFINE N == Len(p)
             q == Append(p, c)
  <1>1. /\ N \in Nat /\ q \in Strings /\ Len(q) = N + 1 /\ q[N + 1] = c
        /\ \A n \in 1 .. N : q[n] = p[n]
    BY StringFacts
  <1>2. PICK f \in [0 .. N -> TakeStates] :
          /\ f[0] = Start
          /\ \A n \in 1 .. N : f[n] = Take(f[n - 1], p[n])
          /\ CopyTo(p) = f[N]
    BY CopyToIs
  <1>3. PICK g \in [0 .. Len(q) -> TakeStates] :
          /\ g[0] = Start
          /\ \A n \in 1 .. Len(q) : g[n] = Take(g[n - 1], q[n])
          /\ CopyTo(q) = g[Len(q)]
    BY <1>1, CopyToIs
  <1> DEFINE S == {n \in 0 .. N : g[n] = f[n]}
  <1> HIDE DEF N, q
  <1>4. 0 \in S
    BY <1>1, <1>2, <1>3
  <1>5. ASSUME NEW n \in 1 .. N, n - 1 \in S PROVE n \in S
    <2>1. n \in 1 .. Len(q) /\ q[n] = p[n] /\ g[n - 1] = f[n - 1] /\ n \in 0 .. N
      BY <1>1, <1>5
    <2>2. g[n] = f[n]
      BY <1>2, <1>3, <2>1
    <2> QED
      BY <2>1, <2>2
  <1>6. \A n \in 0 .. N : n \in S
    <2> HIDE DEF S
    <2> QED
      BY <1>1, <1>4, <1>5, EveryNumber
  <1>7. g[N] = f[N] /\ N + 1 \in 1 .. Len(q) /\ (N + 1) - 1 = N
    BY <1>1, <1>6
  <1>8. g[N + 1] = Take(g[N], c)
    BY <1>1, <1>3, <1>7
  <1>9. CopyTo(q) = Take(CopyTo(p), c)
    BY <1>1, <1>2, <1>3, <1>7, <1>8
  <1> QED
    BY <1>9 DEF q

LEMMA CopyToEmpty == CopyTo(<<>>) = Plain(<<>>)
  <1>1. <<>> \in Strings /\ Len(<<>>) = 0
    BY DEF Strings
  <1>2. PICK f \in [0 .. Len(<<>>) -> TakeStates] : f[0] = Start /\ CopyTo(<<>>) = f[Len(<<>>)]
    BY <1>1, CopyToIs
  <1> QED
    BY <1>1, <1>2 DEF Start, Plain

(* What an escaped character is taken back to.                             *)
LEMMA EscapedTaken ==
  ASSUME NEW p \in Strings, NEW o \in Strings, CopyTo(p) = Plain(o), NEW c \in Characters
  PROVE  CopyTo(p \o Escaped(c)) = Plain(Append(o, c))
  <1>1. {Escape, "x", "U", HexLF, HexLS, "LF", "LS"} \subseteq Characters
    BY MountAssumption
  <1>2. CASE c = "LF"
    <2> DEFINE p1 == Append(p, Escape)
               p2 == Append(p1, "x")
               p3 == Append(p2, HexLF)
    <2>1. Escaped(c) = <<Escape, "x", HexLF>>
      BY <1>2 DEF Escaped, Escape
    <2>2. p1 \in Strings /\ p2 \in Strings
      BY <1>1, StringFacts
    <2>3. p \o <<Escape, "x", HexLF>> = p3
      BY <1>1 DEF Strings
    <2>4. CopyTo(p3) = Take(Take(Take(CopyTo(p), Escape), "x"), HexLF)
      BY <1>1, <2>2, CopyToAppend
    <2>5. Take(CopyTo(p), Escape) = [after |-> "escape", out |-> o]
      BY <1>1, TakeIs DEF Plain
    <2>6. Take([after |-> "escape", out |-> o], "x") = [after |-> "x", out |-> o]
      BY <1>1, TakeIs
    <2>7. Take([after |-> "x", out |-> o], HexLF) = Plain(Append(o, "LF"))
      BY <1>1, TakeIs DEF Plain
    <2> HIDE DEF p3
    <2> QED
      BY <1>2, <2>1, <2>3, <2>4, <2>5, <2>6, <2>7
  <1>3. CASE c = "LS"
    <2> DEFINE p1 == Append(p, Escape)
               p2 == Append(p1, "U")
               p3 == Append(p2, HexLS)
    <2>1. Escaped(c) = <<Escape, "U", HexLS>>
      BY <1>3 DEF Escaped, Escape
    <2>2. p1 \in Strings /\ p2 \in Strings
      BY <1>1, StringFacts
    <2>3. p \o <<Escape, "U", HexLS>> = p3
      BY <1>1 DEF Strings
    <2>4. CopyTo(p3) = Take(Take(Take(CopyTo(p), Escape), "U"), HexLS)
      BY <1>1, <2>2, CopyToAppend
    <2>5. Take(CopyTo(p), Escape) = [after |-> "escape", out |-> o]
      BY <1>1, TakeIs DEF Plain
    <2>6. Take([after |-> "escape", out |-> o], "U") = [after |-> "U", out |-> o]
      BY <1>1, TakeIs
    <2>7. Take([after |-> "U", out |-> o], HexLS) = Plain(Append(o, "LS"))
      BY <1>1, TakeIs DEF Plain
    <2> HIDE DEF p3
    <2> QED
      BY <1>3, <2>1, <2>3, <2>4, <2>5, <2>6, <2>7
  <1>4. CASE c = Escape
    <2> DEFINE p1 == Append(p, Escape)
               p2 == Append(p1, Escape)
    <2>1. Escaped(c) = <<Escape, Escape>>
      BY <1>4 DEF Escaped, Escape
    <2>2. p1 \in Strings
      BY <1>1, StringFacts
    <2>3. p \o <<Escape, Escape>> = p2
      BY <1>1 DEF Strings
    <2>4. CopyTo(p2) = Take(Take(CopyTo(p), Escape), Escape)
      BY <1>1, <2>2, CopyToAppend
    <2>5. Take(CopyTo(p), Escape) = [after |-> "escape", out |-> o]
      BY <1>1, TakeIs DEF Plain
    <2>6. Take([after |-> "escape", out |-> o], Escape) = Plain(Append(o, Escape))
      BY <1>1, TakeIs DEF Plain
    <2> HIDE DEF p2
    <2> QED
      BY <1>4, <2>1, <2>3, <2>4, <2>5, <2>6
  <1>5. CASE c \notin {"LF", "LS", Escape}
    <2>1. Escaped(c) = <<c>>
      BY <1>5 DEF Escaped
    <2>2. p \o <<c>> = Append(p, c)
      BY StringFacts
    <2>3. c # Escape
      BY <1>5
    <2>4. Take([after |-> "plain", out |-> o], c) = [after |-> "plain", out |-> Append(o, c)]
      BY <2>3, TakeIs
    <2> QED
      BY <2>1, <2>2, <2>4, CopyToAppend DEF Plain
  <1> QED
    BY <1>2, <1>3, <1>4, <1>5

(* A name that is escaped behind a path is taken back to the name.         *)
LEMMA CopyBack ==
  ASSUME NEW p \in Strings, NEW o \in Strings, CopyTo(p) = Plain(o), NEW name \in Strings
  PROVE  /\ CopyFrom(name) \in Strings
         /\ CopyTo(p \o CopyFrom(name)) = Plain(o \o name)
  <1> DEFINE N == Len(name)
             Part(n) == SubSeq(name, 1, n)
  <1>1. N \in Nat /\ \A n \in 1 .. N : name[n] \in Characters
    BY DEF Strings
  <1>2. PICK f \in [0 .. N -> Strings] :
          /\ f[0] = <<>>
          /\ \A n \in 1 .. N : f[n] = f[n - 1] \o Escaped(name[n])
          /\ CopyFrom(name) = f[N]
    BY CopyFromIs
  <1>3. Part(0) = <<>> /\ Part(N) = name
    BY <1>1 DEF Strings
  <1>4. \A n \in 1 .. N : Part(n) = Append(Part(n - 1), name[n])
    BY <1>1 DEF Strings
  <1>5. \A n \in 0 .. N : Part(n) \in Strings
    BY <1>1 DEF Strings
  <1> HIDE DEF N, Part
  <1> DEFINE S == {n \in 0 .. N : CopyTo(p \o f[n]) = Plain(o \o Part(n))}
  <1>6. 0 \in S
    <2>1. p \o <<>> = p /\ o \o <<>> = o
      BY DEF Strings
    <2> QED
      BY <1>1, <1>2, <1>3, <2>1
  <1>7. ASSUME NEW n \in 1 .. N, n - 1 \in S PROVE n \in S
    <2> DEFINE a == f[n - 1]
               b == Part(n - 1)
               c == name[n]
    <2>1. n - 1 \in 0 .. N /\ n \in 0 .. N
      BY <1>1
    <2>2. a \in Strings /\ b \in Strings /\ c \in Characters /\ Escaped(c) \in Strings
      BY <1>1, <1>2, <1>5, <2>1, EscapedIs
    <2>3. CopyTo(p \o a) = Plain(o \o b)
      BY <1>7
    <2>4. f[n] = a \o Escaped(c) /\ Part(n) = Append(b, c)
      BY <1>2, <1>4
    <2> HIDE DEF a, b, c
    <2>5. p \o a \in Strings /\ o \o b \in Strings
      BY <2>2 DEF Strings
    <2>6. CopyTo((p \o a) \o Escaped(c)) = Plain(Append(o \o b, c))
      BY <2>2, <2>3, <2>5, EscapedTaken
    <2>7. p \o (a \o Escaped(c)) = (p \o a) \o Escaped(c)
      <3>1. p \in Seq(Characters) /\ a \in Seq(Characters) /\ Escaped(c) \in Seq(Characters)
        BY <2>2 DEF Strings
      <3> QED
        BY <3>1, ConcatAssociative
    <2>8. o \o Append(b, c) = Append(o \o b, c)
      BY <2>2 DEF Strings
    <2> QED
      BY <2>1, <2>4, <2>6, <2>7, <2>8
  <1>8. \A n \in 0 .. N : n \in S
    <2> HIDE DEF S
    <2> QED
      BY <1>1, <1>6, <1>7, EveryNumber
  <1> QED
    BY <1>1, <1>2, <1>3, <1>8

(* No separator comes of escaping.                                         *)
LEMMA NoSeparator ==
  ASSUME NEW name \in Strings, "/" \notin ToSet(name)
  PROVE  "/" \notin ToSet(CopyFrom(name))
  <1> DEFINE N == Len(name)
  <1>1. N \in Nat /\ \A n \in 1 .. N : name[n] \in Characters /\ name[n] # "/"
    BY DEF Strings, ToSet
  <1>2. PICK f \in [0 .. N -> Strings] :
          /\ f[0] = <<>>
          /\ \A n \in 1 .. N : f[n] = f[n - 1] \o Escaped(name[n])
          /\ CopyFrom(name) = f[N]
    BY CopyFromIs
  <1> HIDE DEF N
  <1> DEFINE S == {n \in 0 .. N : "/" \notin ToSet(f[n])}
  <1>3. 0 \in S
    BY <1>1, <1>2 DEF ToSet
  <1>4. ASSUME NEW n \in 1 .. N, n - 1 \in S PROVE n \in S
    <2> DEFINE a == f[n - 1]
               e == Escaped(name[n])
    <2>1. a \in Strings /\ e \in Strings /\ "/" \notin ToSet(e) /\ "/" \notin ToSet(a)
      BY <1>1, <1>2, <1>4, EscapedIs
    <2>2. f[n] = a \o e
      BY <1>2
    <2> HIDE DEF a, e
    <2>3. "/" \notin ToSet(a \o e)
      BY <2>1 DEF ToSet, Strings
    <2>4. "/" \notin ToSet(f[n])
      BY <2>2, <2>3
    <2> QED
      BY <1>1, <2>4
  <1>5. \A n \in 0 .. N : n \in S
    <2> HIDE DEF S
    <2> QED
      BY <1>1, <1>3, <1>4, EveryNumber
  <1> QED
    BY <1>1, <1>2, <1>5

(* Only one path is taken back to the separator alone.                     *)
LEMMA RootIsSeparator ==
  ASSUME NEW p \in Strings, PathAccepted(p), CopyTo(p).out = <<"/">>
  PROVE  p = <<"/">>
  <1> DEFINE N == Len(p)
  <1>1. N \in Nat /\ N > 0 /\ p[1] = "/" /\ "/" \in Characters
        /\ \A n \in 1 .. N : p[n] \in Characters
    BY MountAssumption DEF PathAccepted, Strings
  <1>2. PICK f \in [0 .. N -> TakeStates] :
          /\ f[0] = Start
          /\ \A n \in 1 .. N : f[n] = Take(f[n - 1], p[n])
          /\ CopyTo(p) = f[N]
    BY CopyToIs
  <1> HIDE DEF N
  <1>3. f[1] = Plain(<<"/">>)
    <2>1. f[1] = Take(Start, "/")
      BY <1>1, <1>2
    <2>2. Take(Start, "/") = Plain(Append(<<>>, "/"))
      BY DEF Take, Start, Plain, Escape
    <2> QED
      BY <2>1, <2>2
  <1>4. ASSUME NEW s \in TakeStates, NEW c \in Characters
        PROVE  /\ Len(Take(s, c).out) >= Len(s.out) /\ Len(s.out) \in Nat
               /\ Take(s, c).after = "plain" => Len(Take(s, c).out) = Len(s.out) + 1
    <2>1. s.out \in Strings /\ s = [after |-> s.after, out |-> s.out] /\ s.after \in Afters
      BY DEF TakeStates
    <2>2. \A d \in Characters : Len(Append(s.out, d)) = Len(s.out) + 1 /\ Len(s.out) \in Nat
      BY <2>1 DEF Strings
    <2>3. {"LF", "LS"} \subseteq Characters
      BY MountAssumption
    <2>4. \/ Take(s, c).after # "plain" /\ Take(s, c).out = s.out
          \/ \E d \in Characters : Take(s, c).out = Append(s.out, d)
      BY <2>1, <2>3 DEF Take, Afters
    <2> QED
      BY <2>1, <2>2, <2>4 DEF Strings
  <1> DEFINE S == {n \in 0 .. N : n >= 1 => Len(f[n].out) >= 1}
  <1>5. 0 \in S
    BY <1>1
  <1>6. ASSUME NEW n \in 1 .. N, n - 1 \in S PROVE n \in S
    <2>1. CASE n = 1
      BY <1>1, <1>3, <2>1 DEF Plain
    <2>2. CASE n # 1
      <3>1. n - 1 >= 1 /\ n - 1 \in 0 .. N /\ n \in 0 .. N /\ f[n - 1] \in TakeStates
        BY <1>1, <1>2, <2>2
      <3>2. Len(f[n - 1].out) >= 1
        BY <1>6, <3>1
      <3>3. Len(f[n].out) >= Len(f[n - 1].out) /\ Len(f[n - 1].out) \in Nat
        BY <1>1, <1>2, <1>4, <3>1
      <3>4. f[n].out \in Strings
        BY <1>2, <3>1 DEF TakeStates
      <3> QED
        BY <3>1, <3>2, <3>3, <3>4 DEF Strings
    <2> QED
      BY <2>1, <2>2
  <1>7. \A n \in 0 .. N : n \in S
    <2> HIDE DEF S
    <2> QED
      BY <1>1, <1>5, <1>6, EveryNumber
  <1>8. N = 1
    <2> SUFFICES ASSUME N # 1 PROVE FALSE
      OBVIOUS
    <2>1. N - 1 >= 1 /\ N - 1 \in 0 .. N /\ N \in 1 .. N
      BY <1>1
    <2>2. Len(f[N - 1].out) >= 1
      BY <1>7, <2>1
    <2>3. f[N].after = "plain" /\ f[N].out = <<"/">>
      BY <1>2 DEF PathAccepted
    <2>4. Len(f[N].out) = Len(f[N - 1].out) + 1 /\ Len(f[N - 1].out) \in Nat
      BY <1>1, <1>2, <1>4, <2>1, <2>3
    <2>5. Len(<<"/">>) = 1
      OBVIOUS
    <2> QED
      BY <2>2, <2>3, <2>4, <2>5
  <1> QED
    BY <1>1, <1>8 DEF N, Strings

------------------------------------------------------------------------------
(* Paths in the tree                                                       *)

Behind(path, name) == path \o <<"/">> \o name

Named(names, F) ==
  F = [f \in Files |-> IF f = Root THEN <<>> ELSE Behind(F[Parent[f]], names[f])]

LEMMA BehindType == \A p, n \in Strings : Behind(p, n) \in Strings
  BY MountAssumption DEF Behind, Strings

LEMMA BehindIsLonger ==
  ASSUME NEW p \in Strings, NEW n \in Strings
  PROVE  Behind(p, n) # <<>>
  <1>1. Len(Behind(p, n)) = Len(p) + 1 + Len(n) /\ Len(p) \in Nat /\ Len(n) \in Nat
    BY MountAssumption DEF Behind, Strings
  <1>2. Len(Behind(p, n)) # 0
    BY <1>1
  <1> QED
    BY <1>2

LEMMA NamedExists ==
  ASSUME NEW names \in [Files -> Strings]
  PROVE  \E F : Named(names, F)
  <1> DEFINE step == [p \in Files \X Strings |-> Behind(p[2], names[p[1]])]
  <1>1. <<>> \in Strings
    BY DEF Strings
  <1>2. step \in [Files \X Strings -> Strings]
    BY BehindType
  <1>3. \A f \in Files, s \in Strings : step[<<f, s>>] = Behind(s, names[f])
    OBVIOUS
  <1> HIDE DEF step
  <1>4. PICK F : OverFiles(Strings, <<>>, step, F)
    BY <1>1, <1>2, TreeRecursion
  <1>5. F = [f \in Files |-> F[f]]
    BY <1>4 DEF OverFiles
  <1>6. \A f \in Files : F[f] = IF f = Root THEN <<>> ELSE Behind(F[Parent[f]], names[f])
    <2> SUFFICES ASSUME NEW f \in Files
                 PROVE  F[f] = IF f = Root THEN <<>> ELSE Behind(F[Parent[f]], names[f])
      OBVIOUS
    <2>1. F[Parent[f]] \in Strings
      BY <1>4, MountAssumption DEF OverFiles
    <2> QED
      BY <1>3, <1>4, <2>1 DEF OverFiles
  <1>7. Named(names, F)
    BY <1>5, <1>6, Zenon DEF Named
  <1> QED
    BY <1>7

LEMMA NamedIs ==
  ASSUME NEW names \in [Files -> Strings], NEW F, Named(names, F)
  PROVE  /\ F \in [Files -> Strings]
         /\ F[Root] = <<>>
         /\ \A f \in Files \ {Root} : F[f] = Behind(F[Parent[f]], names[f])
  <1>1. Root \in Files /\ Parent \in [Files -> Files] /\ <<>> \in Strings
    BY MountAssumption DEF Strings
  <1>2. F[Root] = <<>> /\ \A f \in Files \ {Root} : F[f] = Behind(F[Parent[f]], names[f])
    BY <1>1 DEF Named
  <1> DEFINE S == {f \in Files : F[f] \in Strings}
  <1>3. Root \in S
    BY <1>1, <1>2
  <1>4. ASSUME NEW f \in Files \ {Root}, Parent[f] \in S PROVE f \in S
    BY <1>1, <1>2, <1>4, BehindType
  <1>5. \A f \in Files : f \in S
    <2> HIDE DEF S
    <2> QED
      BY <1>3, <1>4, EveryFile
  <1>6. F \in [Files -> Strings]
    BY <1>5 DEF Named
  <1> QED
    BY <1>2, <1>6

LEMMA NamesAre ==
  /\ NameOf \in [Files -> Strings]
  /\ [f \in Files |-> CopyFrom(NameOf[f])] \in [Files -> Strings]
  <1>1. NameOf \in [Files -> Strings]
    BY MountAssumption DEF Strings
  <1>2. \A name \in Strings : CopyFrom(name) \in Strings
    <2> SUFFICES ASSUME NEW name \in Strings PROVE CopyFrom(name) \in Strings
      OBVIOUS
    <2>1. Len(name) \in 0 .. Len(name)
      BY DEF Strings
    <2>2. PICK f \in [0 .. Len(name) -> Strings] : CopyFrom(name) = f[Len(name)]
      BY CopyFromIs
    <2> QED
      BY <2>1, <2>2
  <1> QED
    BY <1>1, <1>2

LEMMA ImagePathIs ==
  /\ ImagePath \in [Files -> Strings]
  /\ ImagePath[Root] = <<>>
  /\ \A f \in Files \ {Root} : ImagePath[f] = Behind(ImagePath[Parent[f]], NameOf[f])
  <1>1. ImagePath = CHOOSE F : Named(NameOf, F)
    BY DEF ImagePath, Named, Behind
  <1>2. Named(NameOf, ImagePath)
    BY <1>1, NamesAre, NamedExists
  <1> QED
    BY <1>2, NamesAre, NamedIs

LEMMA KernelPathIs ==
  /\ KernelPath \in [Files -> Strings]
  /\ KernelPath[Root] = <<>>
  /\ \A f \in Files \ {Root} : KernelPath[f] = Behind(KernelPath[Parent[f]], CopyFrom(NameOf[f]))
  <1> DEFINE names == [f \in Files |-> CopyFrom(NameOf[f])]
             Escapes(F) ==
               F = [f \in Files |-> IF f = Root THEN <<>>
                                    ELSE F[Parent[f]] \o <<"/">> \o CopyFrom(NameOf[f])]
  <1>1. KernelPath = CHOOSE F : Escapes(F)
    BY DEF KernelPath
  <1>2. names \in [Files -> Strings]
    BY NamesAre
  <1>3. \A f \in Files : names[f] = CopyFrom(NameOf[f])
    OBVIOUS
  <1> HIDE DEF names
  <1>4. \A F : Named(names, F) <=> Escapes(F)
    BY <1>3 DEF Named, Behind
  <1>5. PICK F : Named(names, F)
    BY <1>2, NamedExists
  <1> HIDE DEF Escapes
  <1>6. Escapes(KernelPath)
    BY <1>1, <1>4, <1>5
  <1>7. Named(names, KernelPath)
    BY <1>4, <1>6
  <1>8. /\ KernelPath \in [Files -> Strings]
        /\ KernelPath[Root] = <<>>
        /\ \A f \in Files \ {Root} : KernelPath[f] = Behind(KernelPath[Parent[f]], names[f])
    BY <1>2, <1>7, NamedIs
  <1> QED
    BY <1>3, <1>8

(* A path ends in one name only.                                           *)
LEMMA BehindIsOne ==
  ASSUME NEW p \in Strings, NEW q \in Strings, NEW m \in Strings, NEW n \in Strings,
         "/" \notin ToSet(m), "/" \notin ToSet(n), Behind(p, m) = Behind(q, n)
  PROVE  p = q /\ m = n
  <1> DEFINE s == Behind(p, m)
  <1>1. /\ Len(p) \in Nat /\ Len(q) \in Nat /\ Len(m) \in Nat /\ Len(n) \in Nat
        /\ \A i \in 1 .. Len(m) : m[i] # "/"
        /\ \A i \in 1 .. Len(n) : n[i] # "/"
    BY DEF Strings, ToSet
  <1>2. /\ Len(s) = Len(p) + 1 + Len(m)
        /\ s[Len(p) + 1] = "/"
        /\ \A i \in 1 .. Len(p) : s[i] = p[i]
        /\ \A i \in 1 .. Len(m) : s[Len(p) + 1 + i] = m[i]
    BY MountAssumption DEF Strings, Behind
  <1>3. s = Behind(q, n)
    OBVIOUS
  <1> HIDE DEF s
  <1>4. /\ Len(s) = Len(q) + 1 + Len(n)
        /\ s[Len(q) + 1] = "/"
        /\ \A i \in 1 .. Len(q) : s[i] = q[i]
        /\ \A i \in 1 .. Len(n) : s[Len(q) + 1 + i] = n[i]
    BY <1>3, MountAssumption DEF Strings, Behind
  <1>5. ~(Len(p) < Len(q))
    <2> SUFFICES ASSUME Len(p) < Len(q) PROVE FALSE
      OBVIOUS
    <2> DEFINE i == Len(q) - Len(p)
    <2>1. i \in 1 .. Len(m) /\ Len(p) + 1 + i = Len(q) + 1
      BY <1>1, <1>2, <1>4
    <2> HIDE DEF i
    <2>2. s[Len(p) + 1 + i] = m[i] /\ m[i] # "/"
      BY <1>1, <1>2, <2>1
    <2> QED
      BY <1>2, <1>4, <2>1, <2>2
  <1>6. ~(Len(q) < Len(p))
    <2> SUFFICES ASSUME Len(q) < Len(p) PROVE FALSE
      OBVIOUS
    <2> DEFINE i == Len(p) - Len(q)
    <2>1. i \in 1 .. Len(n) /\ Len(q) + 1 + i = Len(p) + 1
      BY <1>1, <1>2, <1>4
    <2> HIDE DEF i
    <2>2. s[Len(q) + 1 + i] = n[i] /\ n[i] # "/"
      BY <1>1, <1>4, <2>1
    <2> QED
      BY <1>2, <1>4, <2>1, <2>2
  <1>7. Len(p) = Len(q) /\ Len(m) = Len(n)
    BY <1>1, <1>2, <1>4, <1>5, <1>6
  <1>8. p = q
    <2>1. \A i \in 1 .. Len(p) : p[i] = q[i]
      BY <1>2, <1>4, <1>7
    <2> QED
      BY <1>7, <2>1 DEF Strings
  <1>9. m = n
    <2>1. \A i \in 1 .. Len(m) : m[i] = n[i]
      BY <1>2, <1>4, <1>7
    <2> QED
      BY <1>7, <2>1 DEF Strings
  <1> QED
    BY <1>8, <1>9

(* So a path is the path of one file.                                      *)
LEMMA ImagePathIsOne ==
  \A f, g \in Files : ImagePath[f] = ImagePath[g] => f = g
  <1> DEFINE S == {f \in Files : \A g \in Files : ImagePath[f] = ImagePath[g] => f = g}
  <1>1. Root \in Files /\ Parent \in [Files -> Files]
    BY MountAssumption
  <1>2. \A f \in Files \ {Root} : ImagePath[f] # <<>>
    BY <1>1, ImagePathIs, NamesAre, BehindIsLonger
  <1>3. Root \in S
    BY <1>1, <1>2, ImagePathIs
  <1>4. ASSUME NEW f \in Files \ {Root}, Parent[f] \in S PROVE f \in S
    <2> SUFFICES ASSUME NEW g \in Files, ImagePath[f] = ImagePath[g] PROVE f = g
      OBVIOUS
    <2>1. g # Root
      BY <1>1, <1>2, ImagePathIs
    <2>2. /\ ImagePath[Parent[f]] \in Strings /\ ImagePath[Parent[g]] \in Strings
          /\ NameOf[f] \in Strings /\ NameOf[g] \in Strings
          /\ Behind(ImagePath[Parent[f]], NameOf[f]) = Behind(ImagePath[Parent[g]], NameOf[g])
      BY <1>1, <2>1, ImagePathIs, NamesAre
    <2>3. "/" \notin ToSet(NameOf[f]) /\ "/" \notin ToSet(NameOf[g])
      BY <2>1, UndamagedAssumption
    <2>4. ImagePath[Parent[f]] = ImagePath[Parent[g]] /\ NameOf[f] = NameOf[g]
      BY <2>2, <2>3, BehindIsOne
    <2>5. Parent[f] = Parent[g]
      BY <1>1, <1>4, <2>4
    <2> QED
      BY <2>1, <2>4, <2>5, UndamagedAssumption
  <1>5. \A f \in Files : f \in S
    <2> HIDE DEF S
    <2> QED
      BY <1>3, <1>4, EveryFile
  <1> QED
    BY <1>5

(* What is looked up for the name of a sub entry behind a path.            *)
LEMMA BehindIsTaken ==
  ASSUME NEW p \in Strings, NEW o \in Strings, CopyTo(p) = Plain(o), NEW name \in Strings
  PROVE  CopyTo(Behind(p, CopyFrom(name))) = Plain(Behind(o, name))
  <1>1. "/" \in Characters
    BY MountAssumption
  <1>2. CopyTo(Append(p, "/")) = Plain(Append(o, "/"))
    <2>1. Take(Plain(o), "/") = Plain(Append(o, "/"))
      BY <1>1, TakeIs DEF Plain, Escape
    <2> QED
      BY <1>1, <2>1, CopyToAppend
  <1>3. /\ Append(p, "/") \in Strings /\ Append(p, "/") = p \o <<"/">>
        /\ Append(o, "/") \in Strings /\ Append(o, "/") = o \o <<"/">>
    BY <1>1, StringFacts
  <1>4. CopyTo(Append(p, "/") \o CopyFrom(name)) = Plain(Append(o, "/") \o name)
    BY <1>2, <1>3, CopyBack
  <1> QED
    BY <1>3, <1>4 DEF Behind

(* The path the kernel knows a file by is taken back to its own.           *)
LEMMA KernelPathTaken == \A f \in Files : CopyTo(KernelPath[f]) = Plain(ImagePath[f])
  <1> DEFINE S == {f \in Files : CopyTo(KernelPath[f]) = Plain(ImagePath[f])}
  <1>1. Root \in Files /\ Parent \in [Files -> Files]
    BY MountAssumption
  <1>2. Root \in S
    BY <1>1, ImagePathIs, KernelPathIs, CopyToEmpty
  <1>3. ASSUME NEW f \in Files \ {Root}, Parent[f] \in S PROVE f \in S
    <2> DEFINE p == KernelPath[Parent[f]]
               o == ImagePath[Parent[f]]
    <2>1. p \in Strings /\ o \in Strings /\ NameOf[f] \in Strings /\ CopyTo(p) = Plain(o)
      BY <1>1, <1>3, ImagePathIs, KernelPathIs, NamesAre
    <2>2. KernelPath[f] = Behind(p, CopyFrom(NameOf[f])) /\ ImagePath[f] = Behind(o, NameOf[f])
      BY ImagePathIs, KernelPathIs
    <2> HIDE DEF p, o
    <2> QED
      BY <2>1, <2>2, BehindIsTaken
  <1> HIDE DEF S
  <1>4. \A f \in Files : f \in S
    BY <1>2, <1>3, EveryFile
  <1> QED
    BY <1>4 DEF S

------------------------------------------------------------------------------
(* Names that lead back                                                    *)

LEMMA PathsAreStrings == Paths \subseteq Strings
  <1>1. \A f \in Files : Rooted(KernelPath[f]) \in Strings
    BY KernelPathIs, MountAssumption DEF Rooted, Strings
  <1>2. OtherPaths \subseteq Strings
    BY MountAssumption DEF Strings
  <1> QED
    BY <1>1, <1>2 DEF Paths

LEMMA SeparatorTaken ==
  /\ <<"/">> \in Strings /\ PathAccepted(<<"/">>)
  /\ CopyTo(<<"/">>) = Plain(<<"/">>)
  <1>1. "/" \in Characters /\ <<>> \in Strings
    BY MountAssumption DEF Strings
  <1>2. Append(<<>>, "/") = <<"/">>
    OBVIOUS
  <1>3. Take(Plain(<<>>), "/") = Plain(Append(<<>>, "/"))
    <2>1. "/" # Escape
      BY DEF Escape
    <2> QED
      BY <1>1, <2>1, TakeIs DEF Plain
  <1>4. CopyTo(<<"/">>) = Plain(<<"/">>)
    <2>1. CopyTo(Append(<<>>, "/")) = Take(CopyTo(<<>>), "/")
      BY <1>1, CopyToAppend
    <2> QED
      BY <1>2, <1>3, <2>1, CopyToEmpty
  <1>5. <<"/">> \in Strings /\ <<"/">> # <<>> /\ <<"/">>[1] = "/"
    BY <1>1 DEF Strings
  <1> QED
    BY <1>4, <1>5 DEF PathAccepted, Plain

LEMMA PathsInTree ==
  ASSUME NEW f \in Files \ {Root}
  PROVE  /\ ImagePath[f] \in Strings /\ KernelPath[f] \in Strings
         /\ ImagePath[f] # <<>> /\ ImagePath[f] # <<"/">> /\ KernelPath[f] # <<>>
  <1>1. Parent[f] \in Files
    BY MountAssumption
  <1> DEFINE p == ImagePath[Parent[f]]
             q == KernelPath[Parent[f]]
             n == NameOf[f]
             m == CopyFrom(NameOf[f])
  <1>2. /\ p \in Strings /\ q \in Strings /\ n \in Strings /\ m \in Strings
        /\ n # <<>>
        /\ ImagePath[f] = Behind(p, n) /\ KernelPath[f] = Behind(q, m)
    BY <1>1, ImagePathIs, KernelPathIs, NamesAre, UndamagedAssumption
  <1> HIDE DEF p, q, n, m
  <1>3. Behind(p, n) # <<>> /\ Behind(q, m) # <<>>
    BY <1>2, BehindIsLonger
  <1>4. Behind(p, n) # <<"/">>
    <2>1. Len(Behind(p, n)) = Len(p) + 1 + Len(n) /\ Len(p) \in Nat /\ Len(n) \in Nat
      BY <1>2, MountAssumption DEF Behind, Strings
    <2>2. Len(n) > 0
      BY <1>2 DEF Strings
    <2> SUFFICES ASSUME Behind(p, n) = <<"/">> PROVE FALSE
      OBVIOUS
    <2>3. Len(p) + 1 + Len(n) = 1
      BY <2>1
    <2> QED
      BY <2>1, <2>2, <2>3
  <1> QED
    BY <1>1, <1>2, <1>3, <1>4, ImagePathIs, KernelPathIs

(* Every path put together from listed names is found.                     *)
LEMMA KernelPathIsFound ==
  ASSUME NEW f \in Files
  PROVE  PathAccepted(Rooted(KernelPath[f])) /\ Found(Rooted(KernelPath[f])) # {}
  <1>1. Root \in Files /\ Parent \in [Files -> Files]
    BY MountAssumption
  <1>2. CASE f = Root
    <2>1. Rooted(KernelPath[f]) = <<"/">> /\ Rooted(ImagePath[f]) = <<"/">>
      BY <1>2, ImagePathIs, KernelPathIs DEF Rooted
    <2>2. f \in Found(<<"/">>)
      BY <2>1, SeparatorTaken DEF Found, Plain
    <2> QED
      BY <2>1, <2>2, SeparatorTaken
  <1>3. CASE f # Root
    <2>1. Rooted(KernelPath[f]) = KernelPath[f] /\ Rooted(ImagePath[f]) = ImagePath[f]
      BY <1>3, PathsInTree DEF Rooted
    <2>2. CopyTo(KernelPath[f]) = Plain(ImagePath[f])
      BY KernelPathTaken
    <2> DEFINE S == {g \in Files : g = Root \/ KernelPath[g][1] = "/"}
    <2>3. ASSUME NEW g \in Files \ {Root}, Parent[g] \in S PROVE g \in S
      <3> DEFINE p == KernelPath[Parent[g]]
                 m == CopyFrom(NameOf[g])
      <3>1. p \in Strings /\ m \in Strings /\ KernelPath[g] = Behind(p, m)
        BY <1>1, KernelPathIs, NamesAre
      <3>2. p = <<>> \/ p[1] = "/"
        BY <2>3, KernelPathIs
      <3> HIDE DEF p, m
      <3>3. (Behind(p, m))[1] = "/"
        BY <3>1, <3>2, MountAssumption DEF Behind, Strings
      <3> QED
        BY <3>1, <3>3
    <2>4. \A g \in Files : g \in S
      <3>1. Root \in S
        BY <1>1
      <3> HIDE DEF S
      <3> QED
        BY <2>3, <3>1, EveryFile
    <2>5. KernelPath[f][1] = "/" /\ KernelPath[f] # <<>>
      BY <1>3, <2>4, PathsInTree
    <2>6. f \in Found(KernelPath[f])
      BY <2>1, <2>2 DEF Found, Plain
    <2> QED
      BY <2>1, <2>2, <2>5, <2>6 DEF PathAccepted, Plain
  <1> QED
    BY <1>2, <1>3

(* So is every name listed of the directory a path leads to, behind that   *)
(* path.                                                                   *)
LEMMA ListedLeadsBack ==
  ASSUME NEW p \in Strings, PathAccepted(p), NEW d \in Found(p), NEW f \in Files \ {Root}, Parent[f] = d
  PROVE  /\ PathAccepted(Joined(p, CopyFrom(NameOf[f])))
         /\ Found(Joined(p, CopyFrom(NameOf[f]))) = {f}
         /\ "/" \notin ToSet(CopyFrom(NameOf[f]))
  <1> DEFINE n == NameOf[f]
             m == CopyFrom(n)
             q == Joined(p, m)
             o == CopyTo(p).out
  <1>1. n \in Strings /\ m \in Strings /\ "/" \notin ToSet(n)
    BY NamesAre, UndamagedAssumption
  <1>2. CopyTo(p) = Plain(o) /\ o \in Strings
    <2>1. Len(p) \in 0 .. Len(p)
      BY DEF Strings
    <2>2. CopyTo(p) \in TakeStates
      BY <2>1, CopyToIs
    <2> QED
      BY <2>2 DEF PathAccepted, TakeStates, Plain
  <1>3. d \in Files /\ o = Rooted(ImagePath[d])
    BY DEF Found
  <1> HIDE DEF o
  <1>4. CopyTo(q) = Plain(ImagePath[f]) /\ q # <<>> /\ q[1] = "/"
    <2>1. ImagePath[f] = Behind(ImagePath[d], n)
      BY ImagePathIs
    <2>2. CASE d = Root
      <3>1. o = <<"/">> /\ ImagePath[d] = <<>>
        BY <1>3, <2>2, ImagePathIs DEF Rooted
      <3>2. p = <<"/">>
        BY <1>2, <3>1, RootIsSeparator DEF Plain
      <3>3. q = Behind(<<>>, m)
        BY <3>2 DEF Joined, Behind
      <3>4. <<>> \in Strings
        BY DEF Strings
      <3>5. CopyTo(q) = Plain(Behind(<<>>, n))
        BY <1>1, <3>3, <3>4, CopyToEmpty, BehindIsTaken
      <3> HIDE DEF m, n
      <3>6. Behind(<<>>, m) # <<>> /\ (Behind(<<>>, m))[1] = "/"
        <4>1. (Behind(<<>>, m))[1] = "/"
          BY <1>1, MountAssumption DEF Behind, Strings
        <4> QED
          BY <1>1, <3>4, <4>1, BehindIsLonger
      <3> QED
        BY <2>1, <3>1, <3>3, <3>5, <3>6
    <2>3. CASE d # Root
      <3>1. o = ImagePath[d] /\ o # <<"/">>
        BY <1>3, <2>3, PathsInTree DEF Rooted
      <3>2. p # <<"/">>
        BY <1>2, <3>1, SeparatorTaken DEF Plain
      <3>3. q = Behind(p, m)
        BY <3>2 DEF Joined, Behind
      <3>4. CopyTo(q) = Plain(Behind(o, n))
        BY <1>1, <1>2, <3>3, BehindIsTaken
      <3> HIDE DEF m, n
      <3>5. Behind(p, m) # <<>> /\ (Behind(p, m))[1] = "/"
        <4>1. p # <<>> /\ p[1] = "/"
          BY DEF PathAccepted
        <4>2. (Behind(p, m))[1] = "/"
          BY <1>1, <4>1, MountAssumption DEF Behind, Strings
        <4> QED
          BY <1>1, <4>2, BehindIsLonger
      <3> QED
        BY <2>1, <3>1, <3>3, <3>4, <3>5
    <2> QED
      BY <2>2, <2>3
  <1>5. PathAccepted(q)
    BY <1>4 DEF PathAccepted, Plain
  <1>6. Found(q) = {f}
    <2>1. ImagePath[f] # <<>> /\ ImagePath[f] # <<"/">>
      BY PathsInTree
    <2>2. Found(q) = {g \in Files : Rooted(ImagePath[g]) = ImagePath[f]}
      BY <1>4 DEF Found, Plain
    <2>3. \A g \in Files : Rooted(ImagePath[g]) = ImagePath[f] <=> g = f
      BY <2>1, ImagePathIsOne DEF Rooted
    <2> QED
      BY <2>2, <2>3
  <1>7. "/" \notin ToSet(m)
    BY <1>1, NoSeparator
  <1> QED
    BY <1>5, <1>6, <1>7

Listings == {"readdir", "find"}

(* The handler that lists a directory has looked it up by an accepted path *)
(* and given its names in order, each escaped.                             *)
Listed(path, file) ==
  /\ path \in Strings /\ PathAccepted(path) /\ file \in Found(path)
  /\ job.index \in 0 .. Len(ListOf[file])
  /\ Len(job.out) = job.index
  /\ job.out \in Seq(Strings)
  /\ \A k \in 1 .. job.index : job.out[k] = CopyFrom(NameOf[ListOf[file][k]])
  /\ job.sub # 0 => job.index + 1 \in 1 .. Len(ListOf[file]) /\ owned[job.sub] = ListOf[file][job.index + 1]

Names ==
  /\ \A h \in Handles : info[h].kind # "closed" => info[h].path \in Strings /\ PathAccepted(info[h].path)
  /\ pc # "idle" /\ job.op \in Listings => pc \in {"lookup", job.op}
  /\ pc = "lookup" => job.path \in Strings /\ job.index = 0 /\ job.out = <<>>
  /\ pc = "readdir" => job.op = pc /\ Listed(info[job.handle].path, FileOfInfo)
  /\ pc = "find" => job.op = pc /\ Listed(job.path, FileOfJob)

LEMMA ListsAre ==
  ASSUME NEW d \in Files
  PROVE  /\ Len(ListOf[d]) \in Nat
         /\ \A k \in 1 .. Len(ListOf[d]) : ListOf[d][k] \in Files \ {Root} /\ Parent[ListOf[d][k]] = d
  <1>1. ListOf[d] \in Seq(Files \ {Root})
    BY MountAssumption
  <1>2. DOMAIN ListOf[d] = 1 .. Len(ListOf[d]) /\ Len(ListOf[d]) \in Nat
    BY <1>1
  <1> QED
    BY <1>1, <1>2, MountAssumption

LEMMA InitNames == Init => Names /\ NamesLeadBack
  BY DEF Init, Names, NamesLeadBack, NoInfo, NoJob, NoReply

(* What an answer that lists nothing says.                                 *)
LEMMA AnswerKeepsNames ==
  ASSUME NEW result, NEW file, NEW out, Reply(result, file, out),
         \A h \in Handles : info'[h].kind # "closed" => info'[h].path \in Strings /\ PathAccepted(info'[h].path),
         result # "ENOENT", result = "ok" => job.op \notin Listings
  PROVE  Names' /\ NamesLeadBack'
  <1>1. pc' = "idle" /\ reply'.op = job.op /\ reply'.result = result
    BY ReplyFields
  <1>2. Names'
    BY <1>1 DEF Names
  <1>3. NamesLeadBack'
    BY <1>1 DEF NamesLeadBack, Listings
  <1> QED
    BY <1>2, <1>3

(* A listing that has come to its end.                                     *)
LEMMA ListingEnds ==
  ASSUME Names, NEW file, Listed(job.path, file), job.index = Len(ListOf[file]),
         Reply("ok", file, job.out), UNCHANGED info
  PROVE  Names' /\ NamesLeadBack'
  <1>1. /\ pc' = "idle" /\ reply'.path = job.path
        /\ reply'.result = "ok" /\ reply'.file = file /\ reply'.out = job.out
    BY DEF Reply
  <1>2. Names'
    BY <1>1 DEF Names
  <1>3. file \in Files /\ job.path \in Strings /\ PathAccepted(job.path) /\ file \in Found(job.path)
    BY DEF Listed, Found
  <1>4. DOMAIN job.out = 1 .. Len(ListOf[file]) /\ Len(job.out) = Len(ListOf[file])
    BY DEF Listed
  <1>5. ASSUME NEW k \in 1 .. Len(ListOf[file])
        PROVE  /\ PathAccepted(Joined(job.path, job.out[k]))
               /\ Found(Joined(job.path, job.out[k])) = {ListOf[file][k]}
               /\ "/" \notin ToSet(job.out[k])
    <2>1. ListOf[file][k] \in Files \ {Root} /\ Parent[ListOf[file][k]] = file
      BY <1>3, ListsAre
    <2>2. job.out[k] = CopyFrom(NameOf[ListOf[file][k]])
      BY DEF Listed
    <2> DEFINE f == ListOf[file][k]
    <2> HIDE DEF f
    <2>3. f \in Files \ {Root} /\ Parent[f] = file /\ job.out[k] = CopyFrom(NameOf[f])
      BY <2>1, <2>2 DEF f
    <2>4. /\ PathAccepted(Joined(job.path, CopyFrom(NameOf[f])))
          /\ Found(Joined(job.path, CopyFrom(NameOf[f]))) = {f}
          /\ "/" \notin ToSet(CopyFrom(NameOf[f]))
      BY <1>3, <2>3, ListedLeadsBack
    <2> QED
      BY <2>3, <2>4 DEF f
  <1>6. NamesLeadBack'
    BY <1>1, <1>4, <1>5 DEF NamesLeadBack
  <1> QED
    BY <1>2, <1>6

LEMMA SilenceLeadsBack ==
  ASSUME NamesLeadBack, reply' = reply \/ reply' = NoReply PROVE NamesLeadBack'
  <1>1. CASE reply' = reply
    BY <1>1 DEF NamesLeadBack
  <1>2. CASE reply' = NoReply
    BY <1>2 DEF NamesLeadBack, NoReply
  <1> QED
    BY <1>1, <1>2

LEMMA CallKeepsNames ==
  ASSUME IInv, Names, NamesLeadBack,
         \/ CallWithPath \/ CallWithHandle
         \/ \E p \in Paths : FindFiles(p) \/ GetFileInformation(p) \/ \E h \in Handles : ZwCreateFile(p, h)
         \/ \E h \in Handles : ReadContext(h) \/ CloseFile(h)
  PROVE  Names' /\ NamesLeadBack'
  <1>1. pc = "idle" /\ reply' = NoReply /\ UNCHANGED <<owned, info>>
    BY DEF CallWithPath, CallWithHandle, FindFiles, GetFileInformation, ZwCreateFile, ReadContext, CloseFile,
           Call, CallDokan, CallFrom, memory
  <1>2. /\ job'.index = 0 /\ job'.out = <<>> /\ job'.sub = 0
        /\ \/ pc' = "lookup" /\ job'.path \in Paths
           \/ /\ pc' \in {"readdir", "read", "release", "releasedir"}
              /\ job'.op \in Listings => pc' = job'.op
              /\ pc' = "readdir" => job'.op = pc'
              /\ job'.handle \in Handles /\ info[job'.handle].kind # "closed"
    <2>1. CASE CallWithPath
      BY <2>1 DEF CallWithPath, Call, CallFrom, NoJob
    <2>2. CASE CallWithHandle
      BY <2>2 DEF CallWithHandle, Call, CallFrom, NoJob, Listings
    <2>3. CASE \E p \in Paths : FindFiles(p) \/ GetFileInformation(p) \/ \E h \in Handles : ZwCreateFile(p, h)
      BY <2>3 DEF FindFiles, GetFileInformation, ZwCreateFile, CallDokan, CallFrom, NoJob
    <2>4. CASE \E h \in Handles : ReadContext(h) \/ CloseFile(h)
      BY <2>4 DEF ReadContext, CloseFile, CallDokan, CallFrom, NoJob, Listings
    <2> QED
      BY <2>1, <2>2, <2>3, <2>4
  <1>3. ASSUME pc' = "readdir" PROVE Listed(info[job.handle].path, FileOfInfo)'
    <2> DEFINE h == job'.handle
               d == owned[info[h].fh]
    <2>1. h \in Handles /\ info[h].kind # "closed"
      BY <1>2, <1>3
    <2>2. d \in Found(info[h].path) /\ info[h].path \in Strings /\ PathAccepted(info[h].path)
      BY <2>1 DEF IInv, Pointers, Names
    <2>3. d \in Files
      BY <2>2, FoundInFiles
    <2>4. Len(ListOf[d]) \in Nat
      BY <2>3, ListsAre
    <2>5. <<>> \in Seq(Strings) /\ Len(<<>>) = 0
      OBVIOUS
    <2> QED
      BY <1>1, <1>2, <2>2, <2>4, <2>5 DEF Listed, FileOfInfo
  <1>4. Names'
    BY <1>1, <1>2, <1>3, PathsAreStrings DEF Names, Listings
  <1> QED
    BY <1>1, <1>4, SilenceLeadsBack

LEMMA LookUpKeepsNames ==
  ASSUME IInv, Names, NamesLeadBack, LookUp \/ NotFound \/ LookUpFails
  PROVE  Names' /\ NamesLeadBack'
  <1>1. /\ pc = "lookup" /\ job.op \in Opening \cup OfPath /\ job.path \in Strings
        /\ job.index = 0 /\ job.out = <<>> /\ job.sub = 0
        /\ DOMAIN job = {"op", "path", "handle", "size", "entry", "sub", "attribute", "index", "out"}
    BY DEF LookUp, NotFound, LookUpFails, IInv, AtStep, Shape, Names
  <1>2. CASE LookUpFails
    BY <1>1, <1>2, AnswerKeepsNames DEF LookUpFails, Names
  <1>3. CASE NotFound
    <2>1. /\ pc' = "idle" /\ reply'.path = job.path /\ reply'.result = "ENOENT" /\ UNCHANGED info
          /\ ~PathAccepted(job.path) \/ Found(job.path) = {}
      BY <1>3 DEF NotFound, Reply
    <2>2. job.path \notin {Rooted(KernelPath[f]) : f \in Files}
      BY <2>1, KernelPathIsFound
    <2> QED
      BY <2>1, <2>2 DEF Names, NamesLeadBack
  <1>4. ASSUME LookUp, job.op \in Opening PROVE Names' /\ NamesLeadBack'
    <2>1. PICK f \in Found(job.path), i \in Ids :
            /\ info' = [info EXCEPT ![job.handle] = [kind |-> job.op, path |-> job.path, fh |-> i]]
            /\ Reply("ok", f, <<>>) /\ PathAccepted(job.path)
      BY <1>4 DEF LookUp, Opening
    <2>2. \A h \in Handles : info'[h] = info[h] \/ info'[h].path = job.path
      BY <2>1 DEF IInv, Shape
    <2>3. job.op \notin Listings
      BY <1>4 DEF Opening, Listings
    <2>4. \A h \in Handles : info'[h].kind # "closed" => info'[h].path \in Strings /\ PathAccepted(info'[h].path)
      BY <1>1, <2>1, <2>2 DEF Names
    <2> QED
      BY <2>1, <2>3, <2>4, AnswerKeepsNames
  <1>5. ASSUME LookUp, job.op \notin Opening PROVE Names' /\ NamesLeadBack'
    <2>1. PICK f \in Found(job.path), i \in Ids :
            /\ New(i, f) /\ UNCHANGED <<info, reply>> /\ PathAccepted(job.path)
            /\ pc' = job.op /\ job' = [job EXCEPT !.entry = i]
      BY <1>5 DEF LookUp, Opening
    <2>2. /\ job'.op = job.op /\ job'.path = job.path /\ job'.index = 0 /\ job'.out = <<>> /\ job'.sub = 0
          /\ job'.entry = i /\ owned'[i] = f
      BY <1>1, <2>1 DEF New, IInv, Shape
    <2>3. pc' \in OfPath
      BY <1>1, <1>5, <2>1
    <2>4. f \in Files /\ Len(ListOf[f]) \in Nat /\ <<>> \in Seq(Strings) /\ Len(<<>>) = 0
      BY ListsAre, FoundInFiles
    <2>5. pc' = "find" => Listed(job.path, FileOfJob)'
      <3>1. FileOfJob' = f
        BY <2>2 DEF FileOfJob
      <3>2. 0 \in 0 .. Len(ListOf[f]) /\ \A k \in 1 .. 0 : job'.out[k] = CopyFrom(NameOf[ListOf[f][k]])
        BY <2>4
      <3> QED
        BY <1>1, <2>1, <2>2, <2>4, <3>1, <3>2 DEF Listed
    <2>6. Names'
      BY <1>1, <2>1, <2>2, <2>3, <2>5 DEF Names, OfPath, Listings
    <2> QED
      BY <2>1, <2>6, SilenceLeadsBack
  <1> QED
    BY <1>2, <1>3, <1>4, <1>5

(* Handlers that list nothing.                                             *)
LEMMA OthersKeepNames ==
  ASSUME IInv, Names, NamesLeadBack,
         \/ GetAttr \/ ReadLink \/ FileInformation \/ ListXAttrEnds \/ ReadValue \/ ReadValueFails
         \/ ListXAttrFails \/ ReadFile \/ Release \/ ReleaseDir \/ ReadDirFails \/ FindFilesFails
  PROVE  Names' /\ NamesLeadBack'
  <1>1. \A h \in Handles : info'[h].kind # "closed" => info'[h].path \in Strings /\ PathAccepted(info'[h].path)
    <2>1. CASE Release \/ ReleaseDir
      <3>1. info' = [info EXCEPT ![job.handle] = NoInfo]
        BY <2>1 DEF Release, ReleaseDir
      <3>2. \A h \in Handles : info'[h] = info[h] \/ info'[h].kind = "closed"
        BY <3>1 DEF IInv, Shape, NoInfo
      <3> QED
        BY <3>2 DEF Names
    <2>2. CASE UNCHANGED info
      BY <2>2 DEF Names
    <2>3. Release \/ ReleaseDir \/ UNCHANGED info
      BY DEF GetAttr, ReadLink, FileInformation, ListXAttrEnds, ReadValue, ReadValueFails, ListXAttrFails,
             ReadFile, ReadDirFails, FindFilesFails, Finish
    <2> QED
      BY <2>1, <2>2, <2>3
  <1>2. \E result, file, out :
          /\ Reply(result, file, out)
          /\ result # "ENOENT"
          /\ result = "ok" => pc \notin {"idle", "lookup", "readdir", "find"}
    <2>1. CASE GetAttr \/ ReadLink \/ FileInformation
      BY <2>1 DEF GetAttr, ReadLink, FileInformation, Finish
    <2>2. CASE ListXAttrEnds \/ ReadValue \/ ReadValueFails \/ ListXAttrFails
      BY <2>2 DEF ListXAttrEnds, ReadValue, ReadValueFails, ListXAttrFails, Finish
    <2>3. CASE ReadFile \/ Release \/ ReleaseDir \/ ReadDirFails \/ FindFilesFails
      BY <2>3 DEF ReadFile, Release, ReleaseDir, ReadDirFails, FindFilesFails
    <2> QED
      BY <2>1, <2>2, <2>3
  <1>3. PICK result, file, out :
          /\ Reply(result, file, out)
          /\ result # "ENOENT"
          /\ result = "ok" => pc \notin {"idle", "lookup", "readdir", "find"}
    BY <1>2
  <1>4. result = "ok" => job.op \notin Listings
    BY <1>3 DEF Names, Listings
  <1> HIDE DEF IInv
  <1> QED
    BY <1>1, <1>3, <1>4, AnswerKeepsNames

(* Handlers that go on without listing.                                    *)
LEMMA AttributesKeepNames ==
  ASSUME IInv, Names, NamesLeadBack, GetXAttr \/ ListXAttr
  PROVE  Names' /\ NamesLeadBack'
  <1>1. pc \in {"getxattr", "listxattr"} /\ job.op \notin Listings /\ UNCHANGED info
    BY DEF GetXAttr, ListXAttr, Finish, Names, Listings
  <1>2. \A h \in Handles : info'[h].kind # "closed" => info'[h].path \in Strings /\ PathAccepted(info'[h].path)
    BY <1>1 DEF Names
  <1>3. CASE pc' \in {"value", "listxattr"} /\ job'.op = job.op /\ UNCHANGED reply
    <2>1. Names'
      BY <1>1, <1>2, <1>3 DEF Names
    <2> QED
      BY <1>3, <2>1, SilenceLeadsBack
  <1>4. CASE \E result \in {"ENODATA", "EIO"} : \E file, out : Reply(result, file, out)
    BY <1>1, <1>2, <1>4, AnswerKeepsNames
  <1>5. GetXAttr \/ ListXAttr =>
          \/ pc' \in {"value", "listxattr"} /\ job'.op = job.op /\ UNCHANGED reply
          \/ \E result \in {"ENODATA", "EIO"} : \E file, out : Reply(result, file, out)
    <2>1. DOMAIN job = {"op", "path", "handle", "size", "entry", "sub", "attribute", "index", "out"}
      BY DEF IInv, Shape
    <2>2. CASE GetXAttr
      BY <2>1, <2>2 DEF GetXAttr, Finish
    <2>3. CASE ListXAttr
      BY <2>1, <2>3 DEF ListXAttr
    <2> QED
      BY <2>2, <2>3
  <1> QED
    BY <1>3, <1>4, <1>5

(* An entry is allocated and freed beside the directory.                   *)
LEMMA ListingKeepsNames ==
  ASSUME IInv, Names, NamesLeadBack, ReadDir \/ FillDir \/ FindSub \/ FillFindData
  PROVE  Names' /\ NamesLeadBack'
  <1> DEFINE slot == IF pc = "readdir" THEN info[job.handle].fh ELSE job.entry
             d == owned[slot]
             path == IF pc = "readdir" THEN info[job.handle].path ELSE job.path
             list == ListOf[d]
  <1>1. /\ pc \in {"readdir", "find"} /\ UNCHANGED <<info, pc, reply>>
        /\ DOMAIN job = {"op", "path", "handle", "size", "entry", "sub", "attribute", "index", "out"}
        /\ job.op = pc
    BY DEF ReadDir, FillDir, FindSub, FillFindData, IInv, Shape, Names
  <1>2. Listed(path, d)
    BY <1>1 DEF Names, FileOfInfo, FileOfJob
  <1>3. slot \in Ids /\ slot # job.sub /\ d \in Files
    <2>1. d \in Files
      BY <1>2, FoundInFiles DEF Listed
    <2>2. CASE pc = "readdir"
      BY <2>1, <2>2 DEF IInv, AtStep, Pointers, OfInfo
    <2>3. CASE pc = "find"
      <3>1. job.entry # 0 /\ job.entry \in 0 .. MaxEntries
        BY <2>3 DEF IInv, AtStep, OfPath, Shape
      <3> QED
        BY <2>1, <2>3, <3>1, Numbers DEF IInv, Locals
    <2> QED
      BY <1>1, <2>2, <2>3
  <1>4. /\ job.index \in 0 .. Len(list) /\ Len(list) \in Nat
        /\ Len(job.out) = job.index /\ job.out \in Seq(Strings)
        /\ \A k \in 1 .. job.index : job.out[k] = CopyFrom(NameOf[list[k]])
        /\ \A k \in 1 .. Len(list) : list[k] \in Files /\ CopyFrom(NameOf[list[k]]) \in Strings
    BY <1>2, <1>3, ListsAre, NamesAre DEF Listed
  <1>5. path \in Strings /\ PathAccepted(path) /\ d \in Found(path)
    BY <1>2 DEF Listed
  <1>6. \/ /\ job.sub = 0 /\ job.index < Len(list)
           /\ \E i \in Ids : New(i, list[job.index + 1]) /\ job' = [job EXCEPT !.sub = i]
        \/ /\ job.sub # 0 /\ owned' = [owned EXCEPT ![job.sub] = None]
           /\ job' = [job EXCEPT !.sub = 0, !.index = @ + 1,
                                 !.out = Append(@, CopyFrom(NameOf[owned[job.sub]]))]
    BY DEF ReadDir, FillDir, FindSub, FillFindData, FileOfInfo, FileOfJob, Free
  <1>7. /\ job'.op = job.op /\ job'.path = job.path /\ job'.handle = job.handle /\ job'.entry = job.entry
        /\ owned'[slot] = d
    <2>1. CASE job.sub = 0
      <3>1. PICK i \in Ids : New(i, list[job.index + 1]) /\ job' = [job EXCEPT !.sub = i]
        BY <1>6, <2>1
      <3>2. i # slot
        BY <1>3, <3>1, Numbers DEF New
      <3> QED
        BY <1>1, <1>3, <3>1, <3>2 DEF New, IInv, Shape
    <2>2. CASE job.sub # 0
      BY <1>1, <1>3, <1>6, <2>2 DEF IInv, Shape
    <2> QED
      BY <2>1, <2>2
  <1> HIDE DEF slot, d, path, list
  <1>8. /\ job'.index \in 0 .. Len(list)
        /\ Len(job'.out) = job'.index /\ job'.out \in Seq(Strings)
        /\ \A k \in 1 .. job'.index : job'.out[k] = CopyFrom(NameOf[list[k]])
        /\ job'.sub # 0 => job'.index + 1 \in 1 .. Len(list) /\ owned'[job'.sub] = list[job'.index + 1]
    <2>1. CASE job.sub = 0
      <3>1. PICK i \in Ids : New(i, list[job.index + 1]) /\ job' = [job EXCEPT !.sub = i]
        BY <1>6, <2>1
      <3>2. job'.index = job.index /\ job'.out = job.out /\ job'.sub = i /\ job.index < Len(list)
        BY <1>1, <1>6, <2>1, <3>1
      <3>3. owned'[i] = list[job.index + 1]
        BY <3>1 DEF New, IInv, Shape
      <3>4. job.index + 1 \in 1 .. Len(list)
        BY <1>4, <3>2
      <3> QED
        BY <1>4, <3>2, <3>3, <3>4
    <2>2. CASE job.sub # 0
      <3> DEFINE n == job.index
                 name == CopyFrom(NameOf[list[n + 1]])
      <3>1. n + 1 \in 1 .. Len(list) /\ owned[job.sub] = list[n + 1]
        BY <1>2, <2>2 DEF Listed, list
      <3>2. job'.sub = 0 /\ job'.index = n + 1 /\ job'.out = Append(job.out, name)
        BY <1>1, <1>6, <2>2, <3>1
      <3>3. name \in Strings
        BY <1>4, <3>1
      <3> HIDE DEF name
      <3>4. /\ Append(job.out, name) \in Seq(Strings) /\ Len(Append(job.out, name)) = n + 1
            /\ (Append(job.out, name))[n + 1] = name
            /\ \A k \in 1 .. n : (Append(job.out, name))[k] = job.out[k]
        BY <1>4, <3>3
      <3>5. ASSUME NEW k \in 1 .. n + 1 PROVE (Append(job.out, name))[k] = CopyFrom(NameOf[list[k]])
        <4>1. n \in Nat /\ (k = n + 1 \/ k \in 1 .. n)
          BY <1>4
        <4>2. CASE k = n + 1
          BY <3>4, <4>2 DEF name
        <4>3. CASE k \in 1 .. n
          BY <1>4, <3>4, <4>3
        <4> QED
          BY <4>1, <4>2, <4>3
      <3>6. n + 1 \in 0 .. Len(list)
        BY <1>4, <3>1
      <3> HIDE DEF n
      <3> QED
        BY <3>2, <3>4, <3>5, <3>6
    <2> QED
      BY <2>1, <2>2
  <1>9. (pc = "readdir" => FileOfInfo' = d) /\ (pc = "find" => FileOfJob' = d)
    BY <1>1, <1>7 DEF slot, FileOfInfo, FileOfJob
  <1>10. ASSUME pc = "readdir" PROVE Names'
    <2>1. (info[job.handle].path)' = path
      BY <1>1, <1>7, <1>10 DEF path
    <2>2. Listed(info[job.handle].path, FileOfInfo)'
      BY <1>5, <1>8, <1>9, <1>10, <2>1 DEF Listed, list
    <2> QED
      BY <1>1, <1>7, <1>10, <2>2 DEF Names
  <1>11. ASSUME pc = "find" PROVE Names'
    <2>1. job'.path = path
      BY <1>7, <1>11 DEF path
    <2>2. Listed(job.path, FileOfJob)'
      BY <1>5, <1>8, <1>9, <1>11, <2>1 DEF Listed, list
    <2> QED
      BY <1>1, <1>7, <1>11, <2>2 DEF Names
  <1> QED
    BY <1>1, <1>10, <1>11, SilenceLeadsBack

LEMMA ListingEndKeepsNames ==
  ASSUME Names, NamesLeadBack, ReadDirEnds \/ FindFilesEnds, IInv
  PROVE  Names' /\ NamesLeadBack'
  <1>1. CASE ReadDirEnds
    <2>1. /\ pc = "readdir" /\ Reply("ok", FileOfInfo, job.out) /\ UNCHANGED info
          /\ job.index = Len(ListOf[FileOfInfo])
      BY <1>1 DEF ReadDirEnds
    <2>2. Listed(job.path, FileOfInfo)
      BY <2>1 DEF Names, IInv, AtStep, OfInfo
    <2> HIDE DEF IInv, Names
    <2> QED
      BY <2>1, <2>2, ListingEnds
  <1>2. CASE FindFilesEnds
    <2>1. pc = "find" /\ job.entry # 0
      BY <1>2 DEF FindFilesEnds, IInv, AtStep, OfPath
    <2>2. /\ Reply("ok", FileOfJob, job.out) /\ UNCHANGED info
          /\ job.index = Len(ListOf[FileOfJob])
      BY <1>2, <2>1 DEF FindFilesEnds, Finish, FileOfJob
    <2>3. Listed(job.path, FileOfJob)
      BY <2>1 DEF Names
    <2> HIDE DEF IInv, Names
    <2> QED
      BY <2>2, <2>3, ListingEnds
  <1> QED
    BY <1>1, <1>2

LEMMA SteadyNames ==
  ASSUME Names, NamesLeadBack, UNCHANGED <<owned, info, pc, job, reply>>
  PROVE  Names' /\ NamesLeadBack'
  <1>1. Names'
    BY DEF Names, Listed, FileOfInfo, FileOfJob
  <1> QED
    BY <1>1, SilenceLeadsBack

LEMMA NextKeepsNames ==
  ASSUME IInv, Names, NamesLeadBack, [Next \/ DokanNext \/ Exited]_vars
  PROVE  Names' /\ NamesLeadBack'
  <1>1. CASE UNCHANGED vars
    BY <1>1, SteadyNames DEF vars, memory
  <1>2. CASE Ended \/ Exited
    BY <1>1, <1>2 DEF Ended, Exited
  <1>3. CASE \/ InitializeHandle \/ Open \/ NewFuse \/ MountFuse \/ LoopFails \/ MainFails \/ Unmount
             \/ StartDokan \/ EndDokan
    <2>1. UNCHANGED <<owned, info, pc, job, reply>>
      BY <1>3 DEF InitializeHandle, Open, NewFuse, MountFuse, LoopFails, Advance, MainFails, Unmount,
                  StartDokan, EndDokan, handlers, memory
    <2> QED
      BY <2>1, SteadyNames
  <1>4. CASE \/ CallWithPath \/ CallWithHandle
             \/ \E p \in Paths : FindFiles(p) \/ GetFileInformation(p) \/ \E h \in Handles : ZwCreateFile(p, h)
             \/ \E h \in Handles : ReadContext(h) \/ CloseFile(h)
    BY <1>4, CallKeepsNames
  <1>5. CASE LookUp \/ NotFound \/ LookUpFails \/ GetXAttr \/ ListXAttr \/ ReadDirEnds \/ FindFilesEnds
    BY <1>5, LookUpKeepsNames, AttributesKeepNames, ListingEndKeepsNames
  <1>6. CASE \/ GetAttr \/ ReadLink \/ FileInformation \/ ListXAttrEnds \/ ReadValue \/ ReadValueFails
             \/ ListXAttrFails \/ ReadFile \/ Release \/ ReleaseDir \/ ReadDirFails \/ FindFilesFails
    BY <1>6, OthersKeepNames
  <1>7. CASE ReadDir \/ FillDir \/ FindSub \/ FillFindData
    BY <1>7, ListingKeepsNames
  <1> HIDE DEF IInv, Names
  <1> QED
    BY <1>1, <1>2, <1>3, <1>4, <1>5, <1>6, <1>7 DEF Next, DokanNext, Handler

(* In any undamaged tree every name that readdir or FindFiles lists leads, *)
(* behind the path of its directory, back to the file it was listed for    *)
(* and to no other, and no path put together from listed names is unknown  *)
(* (mount_path_string.c).                                                  *)
THEOREM ListedNamesLeadBack == MountSpec => []NamesLeadBack
  <1>1. Init => Names /\ NamesLeadBack
    BY InitNames
  <1>2. IInv /\ Names /\ NamesLeadBack /\ [Next \/ DokanNext \/ Exited]_vars => Names' /\ NamesLeadBack'
    BY NextKeepsNames
  <1>3. MountSpec => [](Names /\ NamesLeadBack)
    BY <1>1, <1>2, Safety, PTL DEF MountSpec
  <1> QED
    BY <1>3, PTL
==============================================================================
