----------------------------- MODULE Volume_proofs -----------------------------
(***************************************************************************)
(* What is proved of module Volume: for any number of threads and of open  *)
(* calls, callers that change only a volume nobody else is using never     *)
(* lose a handle, leak an object or see a volume that is half open.        *)
(* Behind it what is proved of module FileSystem, which reads the volume:  *)
(* what a lookup of an inode number may answer, for every image, every     *)
(* number of allocation groups and every bound.                            *)
(***************************************************************************)
EXTENDS Volume, FileSystem, FiniteSetTheorems, TLAPS

(* A handle that the volume does not hold: those of the library are gone,  *)
(* those of the caller are as the caller left them.                        *)
Rest(h) == IF h \in Opens THEN "none" ELSE IF h = UserOpen THEN "open" ELSE "closed"

AtRestBut(h) == \A q \in Handles \ {h} : handle[q] = Rest(q)

(* A new handle of the library is closed until it is opened.               *)
AtRestOrNew(h, n) ==
  \A q \in Handles \ {h} : handle[q] = IF q = n /\ q \in Opens THEN "closed" ELSE Rest(q)

IsClosed == file = NULL /\ ~created /\ superblock = NULL /\ fs = NULL /\ live = {}

Whole ==
  /\ superblock # NULL /\ fs = superblock /\ format = superblock
  /\ live = {Superblock(superblock), FileSystem(superblock)}

IsOpen ==
  /\ file # NULL /\ handle[file] = "open" /\ Whole
  /\ (created <=> file \in Opens) /\ opened = (file # UserOpen)

(* The handle an open call has opened but not yet given to the volume.     *)
Acquired(t) ==
  /\ file = NULL /\ ~created
  /\ arg[t] \in Handles /\ handle[arg[t]] = "open" /\ mine[t] = (arg[t] # UserOpen)
  /\ AtRestBut(arg[t])

(* What holds at each step of a call.                                      *)
AtStep(t) ==
  /\ pc[t] = "check" =>
       /\ IsClosed \/ IsOpen
       /\ ~mine[t] /\ call[t] \in Opens /\ arg[t] \in Handles
       /\ arg[t] \in Opens => arg[t] # file
       /\ AtRestOrNew(file, arg[t])
  /\ pc[t] = "bfio" =>
       /\ IsClosed
       /\ ~mine[t] /\ call[t] \in Opens /\ arg[t] \in Handles
       /\ AtRestOrNew(NULL, arg[t])
  /\ pc[t] \in {"begin", "first"} => IsClosed /\ Acquired(t) /\ call[t] \in Opens
  /\ pc[t] \in {"groups", "set"} => Whole /\ Acquired(t)
  /\ pc[t] = "mark" =>
       /\ file \in Opens /\ handle[file] = "open" /\ opened /\ Whole
       /\ AtRestBut(file)
  /\ pc[t] = "close" => IsOpen /\ AtRestBut(file)
  /\ pc[t] = "clear" => file = NULL /\ ~created /\ Whole /\ AtRestBut(NULL)
  /\ pc[t] = "free" => IsClosed /\ AtRestBut(NULL)
  /\ pc[t] \in {"root", "label"} => IsOpen
  /\ pc[t] = "inode" => IsOpen /\ call[t] = fs /\ arg[t] = file

(* One that changes the volume does so alone.                              *)
Alone == \A t, q \in Threads : Changing(t) /\ q # t => pc[q] = "idle"

Quiet == (\A t \in Threads : ~Changing(t)) => (IsClosed \/ IsOpen) /\ AtRestBut(file)

EntriesKept ==
  /\ entries \subseteq {fs}
  /\ \A t \in Threads : Changing(t) => entries = {} /\ ~freed

Numbered ==
  /\ file \in Opens => file <= opens
  /\ \A t \in Threads : arg[t] \in Opens => arg[t] <= opens

FreedIsClosed == freed => file = NULL
UsersKept == \A h \in Users : handle[h] # "none"

IInv ==
  /\ TypeOK
  /\ Alone
  /\ Quiet
  /\ EntriesKept
  /\ Numbered
  /\ FreedIsClosed
  /\ UsersKept
  /\ crashed = {}
  /\ \A t \in Threads : AtStep(t)

LEMMA HandleNumbers ==
  /\ NULL \notin Handles /\ UserClosed \notin Opens /\ UserOpen \notin Opens
  /\ UserOpen # UserClosed
  /\ Handles = Opens \cup {UserClosed, UserOpen}
  /\ Opens \subseteq Nat /\ MaxOpens \in Nat
  BY VolumeAssumption DEF NULL, Handles, Opens, Users, UserClosed, UserOpen

LEMMA InitInductive == Init => IInv
  <1> SUFFICES ASSUME Init PROVE IInv
    OBVIOUS
  <1>1. TypeOK
    <2>1. handle \in [Handles -> {"none", "closed", "open"}]
      BY HandleNumbers DEF Init
    <2>2. /\ pc \in [Threads -> Steps] /\ call \in [Threads -> {NULL} \cup Opens]
          /\ arg \in [Threads -> {NULL} \cup Handles] /\ mine \in [Threads -> BOOLEAN]
      BY DEF Init, Steps
    <2>3. opens \in 0 .. MaxOpens
      BY HandleNumbers DEF Init
    <2> QED
      BY <2>1, <2>2, <2>3 DEF Init, TypeOK
  <1>2. AtRestBut(NULL) /\ UsersKept
    BY HandleNumbers DEF Init, AtRestBut, Rest, UsersKept, Users
  <1>3. \A t \in Threads : pc[t] = "idle"
    BY DEF Init
  <1>4. IsClosed
    BY DEF Init, IsClosed
  <1> QED
    BY <1>1, <1>2, <1>3, <1>4 DEF Init, IInv, Alone, Quiet, EntriesKept, Numbered,
      FreedIsClosed, AtStep, Changing, NULL, Opens

------------------------------------------------------------------------------
(* Steps of a call that changes the volume                                 *)

(* The others are idle, and stay so.                                       *)
LEMMA OthersIdle ==
  ASSUME IInv, NEW t \in Threads, Changing(t), NEW l \in Steps, Goto(t, l),
         entries' = entries
  PROVE  /\ pc' \in [Threads -> Steps] /\ pc'[t] = l
         /\ entries' = {} /\ ~freed
         /\ Alone'
         /\ \A q \in Threads \ {t} : AtStep(q)' /\ pc'[q] = "idle"
         /\ (\A q \in Threads : ~Changing(q)') <=> ~Changing(t)'
  <1>1. pc \in [Threads -> Steps] /\ pc' = [pc EXCEPT ![t] = l]
    BY DEF IInv, TypeOK, Goto
  <1>2. pc' \in [Threads -> Steps] /\ pc'[t] = l
    BY <1>1
  <1>3. \A q \in Threads \ {t} : pc'[q] = "idle"
    BY <1>1 DEF IInv, Alone
  <1>4. \A q \in Threads \ {t} : AtStep(q)' /\ ~Changing(q)'
    BY <1>3 DEF AtStep, Changing
  <1>5. Alone'
    BY <1>3, <1>4 DEF Alone
  <1>6. entries' = {} /\ ~freed
    BY DEF IInv, EntriesKept
  <1> QED
    BY <1>2, <1>3, <1>4, <1>5, <1>6

(* So only the thread itself and what it leaves behind are to be looked at.*)
LEMMA Sufficient ==
  ASSUME IInv, NEW t \in Threads, Changing(t), NEW l \in Steps, Goto(t, l),
         entries' = entries, TypeOK', Numbered', UsersKept', crashed' = {}, AtStep(t)',
         l = "idle" => (IsClosed' \/ IsOpen') /\ AtRestBut(file)' /\ FreedIsClosed',
         l # "idle" => Changing(t)' /\ freed' = freed
  PROVE  IInv'
  <1>1. /\ entries' = {} /\ ~freed /\ Alone' /\ pc'[t] = l
        /\ \A q \in Threads \ {t} : AtStep(q)' /\ pc'[q] = "idle"
        /\ (\A q \in Threads : ~Changing(q)') <=> ~Changing(t)'
    BY OthersIdle
  <1>2. \A q \in Threads : AtStep(q)'
    BY <1>1
  <1>3. \A q \in Threads : Changing(q)' => q = t /\ l # "idle"
    BY <1>1 DEF Changing
  <1>4. EntriesKept'
    BY <1>1, <1>3 DEF EntriesKept
  <1>5. Quiet' /\ FreedIsClosed'
    BY <1>1, <1>3 DEF Quiet, FreedIsClosed
  <1> QED
    BY <1>1, <1>2, <1>4, <1>5 DEF IInv

(* The error paths leave every handle as it was before the call.           *)
LEMMA Abandoned ==
  ASSUME IInv, NEW t \in Threads, AbandonHandle(t), arg[t] \in Handles
  PROVE  /\ handle' \in [Handles -> {"none", "closed", "open"}]
         /\ UsersKept'
         /\ \A q \in Handles \ {arg[t]} : handle'[q] = handle[q]
         /\ handle'[arg[t]] = IF arg[t] \in Opens THEN "none"
                              ELSE IF mine[t] THEN "closed" ELSE handle[arg[t]]
  <1> DEFINE h == IF arg[t] \in Opens THEN "none" ELSE IF mine[t] THEN "closed" ELSE handle[arg[t]]
  <1>1. handle \in [Handles -> {"none", "closed", "open"}] /\ UsersKept
    BY DEF IInv, TypeOK
  <1>2. handle' = [handle EXCEPT ![arg[t]] = h]
    BY DEF AbandonHandle
  <1>3. handle[arg[t]] \in {"none", "closed", "open"}
    BY <1>1
  <1>4. h \in {"none", "closed", "open"}
    BY <1>3
  <1>5. arg[t] \in Users => h # "none"
    BY <1>1, HandleNumbers DEF UsersKept, Users
  <1> HIDE DEF h
  <1>6. /\ handle' \in [Handles -> {"none", "closed", "open"}] /\ handle'[arg[t]] = h
        /\ \A q \in Handles \ {arg[t]} : handle'[q] = handle[q]
    BY <1>1, <1>2, <1>4
  <1>7. Users \subseteq Handles
    BY DEF Handles
  <1>8. UsersKept'
    BY <1>1, <1>5, <1>6, <1>7 DEF UsersKept
  <1> QED
    BY <1>6, <1>8 DEF h

(* A step of a call that changes nothing but the step and a handle.        *)
LEMMA TypesKept ==
  ASSUME IInv, UNCHANGED <<volume, lock, live, entries, opens, call, arg, mine, crashed>>,
         pc' \in [Threads -> Steps], handle' \in [Handles -> {"none", "closed", "open"}]
  PROVE  TypeOK' /\ Numbered' /\ crashed' = {} /\ FreedIsClosed' /\ handle \in [Handles -> {"none", "closed", "open"}]
  <1>1. TypeOK /\ Numbered /\ crashed = {} /\ FreedIsClosed
    BY DEF IInv
  <1>2. UNCHANGED <<file, opened, created, superblock, fs, format, abort, freed>>
    BY DEF volume
  <1>3. /\ file' \in {NULL} \cup Handles /\ opened' \in BOOLEAN /\ created' \in BOOLEAN
        /\ superblock' \in {NULL} \cup Opens /\ fs' \in {NULL} \cup Opens /\ format' \in {NULL} \cup Opens
        /\ abort' \in BOOLEAN /\ freed' \in BOOLEAN
    BY <1>1, <1>2 DEF TypeOK
  <1>4. TypeOK'
    BY <1>1, <1>3 DEF TypeOK
  <1> QED
    BY <1>1, <1>2, <1>4 DEF TypeOK, Numbered, FreedIsClosed

LEMMA CheckStep ==
  ASSUME IInv, NEW t \in Threads, OpenCheck(t) PROVE IInv'
  <1>1. Changing(t) /\ AtStep(t) /\ pc[t] = "check"
    BY DEF IInv, OpenCheck, Changing
  <1>2. /\ IsClosed \/ IsOpen
        /\ ~mine[t] /\ call[t] \in Opens /\ arg[t] \in Handles
        /\ arg[t] \in Opens => arg[t] # file
        /\ AtRestOrNew(file, arg[t])
    BY <1>1 DEF AtStep
  <1>3. UNCHANGED <<volume, lock, live, entries, opens, call, arg, mine, crashed>>
    BY DEF OpenCheck
  <1>4. CASE file # NULL
    <2>1. AbandonHandle(t) /\ Goto(t, "idle")
      BY <1>4 DEF OpenCheck
    <2>2. /\ handle' \in [Handles -> {"none", "closed", "open"}] /\ UsersKept'
          /\ \A q \in Handles \ {arg[t]} : handle'[q] = handle[q]
          /\ handle'[arg[t]] = IF arg[t] \in Opens THEN "none" ELSE handle[arg[t]]
      BY <1>2, <2>1, Abandoned
    <2>6. handle'[file] = handle[file]
      BY <1>2, <1>4, <2>2 DEF IInv, TypeOK
    <2>7. AtRestBut(file)'
      <3>1. file' = file /\ NULL \notin Handles /\ UserOpen \notin Opens
        BY <1>3, HandleNumbers DEF volume
      <3>2. \A q \in Handles \ {file} : q # arg[t] => handle'[q] = Rest(q)
        BY <1>2, <2>2 DEF AtRestOrNew
      <3>3. arg[t] # file => handle'[arg[t]] = Rest(arg[t])
        BY <1>2, <2>2, <3>1 DEF AtRestOrNew, Rest
      <3> QED
        BY <3>1, <3>2, <3>3 DEF AtRestBut, Rest
    <2>3. IsOpen'
      BY <1>2, <1>3, <1>4, <2>6 DEF IsClosed, IsOpen, Whole, volume, Superblock, FileSystem
    <2>4. TypeOK' /\ Numbered' /\ crashed' = {} /\ FreedIsClosed'
      <3>1. pc' \in [Threads -> Steps]
        BY <1>1, <1>3, <2>1, OthersIdle DEF Steps
      <3> HIDE DEF IInv
      <3> QED
        BY <1>3, <2>2, <3>1, TypesKept
    <2>5. AtStep(t)'
      BY <1>1, <2>1, OthersIdle, <1>3 DEF AtStep, Steps
    <2> QED
      BY <1>1, <1>3, <2>1, <2>2, <2>3, <2>4, <2>5, <2>7, Sufficient DEF Steps
  <1>5. CASE file = NULL
    <2>1. handle' = handle /\ Goto(t, "bfio")
      BY <1>5 DEF OpenCheck
    <2>2. TypeOK' /\ Numbered' /\ crashed' = {} /\ UsersKept' /\ pc'[t] = "bfio"
      <3>1. pc' \in [Threads -> Steps] /\ pc'[t] = "bfio"
        BY <1>1, <1>3, <2>1, OthersIdle DEF Steps
      <3>2. handle \in [Handles -> {"none", "closed", "open"}] /\ UsersKept
        BY DEF IInv, TypeOK
      <3> HIDE DEF IInv
      <3> QED
        BY <1>3, <2>1, <3>1, <3>2, TypesKept DEF UsersKept
    <2>3. AtStep(t)'
      BY <1>2, <1>3, <1>5, <2>1, <2>2
         DEF AtStep, IsClosed, IsOpen, AtRestOrNew, Rest, volume, NULL
    <2> QED
      BY <1>1, <1>3, <2>1, <2>2, <2>3, Sufficient DEF Steps, Changing, volume
  <1> QED
    BY <1>4, <1>5

(* A call that ends in an error leaves the volume closed.                  *)
LEMMA FailureStep ==
  ASSUME IInv, NEW t \in Threads, Changing(t), AbandonHandle(t), Goto(t, "idle"),
         UNCHANGED <<file, opened, created, freed, entries, opens, call, arg, mine, crashed>>,
         file = NULL, lock' \in Threads \cup {NoThread}, abort' \in BOOLEAN,
         ~created, superblock' = NULL, fs' = NULL, format' \in {NULL} \cup Opens, live' = {},
         arg[t] \in Handles,
         \A q \in Handles \ {arg[t]} : handle[q] = Rest(q),
         \/ arg[t] \in Opens
         \/ mine[t] /\ arg[t] # UserOpen
         \/ ~mine[t] /\ handle[arg[t]] = Rest(arg[t])
  PROVE  IInv'
  <1>1. /\ handle' \in [Handles -> {"none", "closed", "open"}] /\ UsersKept'
        /\ \A q \in Handles \ {arg[t]} : handle'[q] = handle[q]
        /\ handle'[arg[t]] = IF arg[t] \in Opens THEN "none"
                             ELSE IF mine[t] THEN "closed" ELSE handle[arg[t]]
    BY Abandoned
  <1>2. AtRestBut(file)'
    BY <1>1, HandleNumbers DEF AtRestBut, Rest
  <1>3. pc' \in [Threads -> Steps] /\ pc'[t] = "idle"
    BY OthersIdle DEF Steps
  <1>4. TypeOK'
    BY <1>1, <1>3 DEF IInv, TypeOK
  <1>5. Numbered' /\ FreedIsClosed' /\ crashed' = {} /\ AtStep(t)' /\ IsClosed'
    BY <1>3 DEF IInv, Numbered, FreedIsClosed, AtStep, IsClosed
  <1> QED
    BY <1>1, <1>2, <1>3, <1>4, <1>5, Sufficient DEF Steps

LEMMA HandleStep ==
  ASSUME IInv, NEW t \in Threads, OpenHandle(t) PROVE IInv'
  <1>1. Changing(t) /\ AtStep(t) /\ pc[t] = "bfio"
    BY DEF IInv, OpenHandle, Changing
  <1>2. /\ IsClosed /\ ~mine[t] /\ call[t] \in Opens /\ arg[t] \in Handles
        /\ AtRestOrNew(NULL, arg[t])
    BY <1>1 DEF AtStep
  <1>3. UNCHANGED <<volume, lock, live, entries, opens, call, arg, crashed>>
    BY DEF OpenHandle
  <1>4. \A q \in Handles \ {arg[t]} : handle[q] = Rest(q)
    BY <1>2, HandleNumbers DEF AtRestOrNew
  <1>5. handle[arg[t]] = IF arg[t] \in Opens THEN "closed" ELSE Rest(arg[t])
    BY <1>2, HandleNumbers DEF AtRestOrNew
  <1>6. CASE handle[arg[t]] # "open" /\ AbandonHandle(t) /\ Goto(t, "idle") /\ UNCHANGED mine
    BY <1>1, <1>2, <1>3, <1>4, <1>5, <1>6, FailureStep DEF volume, IsClosed, IInv, TypeOK
  <1>7. ASSUME Goto(t, "begin"), handle' = [handle EXCEPT ![arg[t]] = "open"],
               mine' = [mine EXCEPT ![t] = arg[t] # UserOpen]
        PROVE  IInv'
    <2>1. pc' \in [Threads -> Steps] /\ pc'[t] = "begin"
      BY <1>1, <1>3, <1>7, OthersIdle DEF Steps
    <2>2. handle' \in [Handles -> {"none", "closed", "open"}] /\ mine' \in [Threads -> BOOLEAN]
      BY <1>7 DEF IInv, TypeOK
    <2>3. TypeOK'
      BY <1>3, <2>1, <2>2 DEF IInv, TypeOK, volume
    <2>4. UsersKept'
      BY <1>2, <1>7 DEF IInv, TypeOK, UsersKept, Users, Handles
    <2>5. /\ handle'[arg[t]] = "open" /\ mine'[t] = (arg[t] # UserOpen)
          /\ \A q \in Handles \ {arg[t]} : handle'[q] = Rest(q)
      BY <1>2, <1>4, <1>7 DEF IInv, TypeOK
    <2>8. AtRestBut(arg[t])'
      BY <1>3, <2>5 DEF AtRestBut, Rest
    <2>6. AtStep(t)'
      BY <1>2, <1>3, <2>1, <2>5, <2>8 DEF AtStep, Acquired, IsClosed, volume
    <2>7. Numbered' /\ crashed' = {}
      BY <1>3 DEF IInv, Numbered, volume
    <2> QED
      BY <1>1, <1>3, <1>7, <2>1, <2>3, <2>4, <2>6, <2>7, Sufficient DEF Steps, Changing, volume
  <1>8. CASE handle[arg[t]] = "open" /\ Goto(t, "begin") /\ UNCHANGED <<handle, mine>>
    <2>1. arg[t] = UserOpen
      BY <1>2, <1>5, <1>8, HandleNumbers DEF Rest
    <2>2. handle' = [handle EXCEPT ![arg[t]] = "open"]
      BY <1>8 DEF IInv, TypeOK
    <2>3. mine' = [mine EXCEPT ![t] = arg[t] # UserOpen]
      BY <1>2, <1>8, <2>1 DEF IInv, TypeOK
    <2> QED
      BY <1>7, <1>8, <2>2, <2>3
  <1>9. CASE /\ handle[arg[t]] = "closed" /\ Goto(t, "begin")
             /\ handle' = [handle EXCEPT ![arg[t]] = "open"] /\ mine' = [mine EXCEPT ![t] = TRUE]
    <2>1. arg[t] # UserOpen
      BY <1>2, <1>5, <1>9, HandleNumbers DEF Rest
    <2> QED
      BY <1>7, <1>9, <2>1
  <1> QED
    BY <1>6, <1>8, <1>9 DEF OpenHandle

LEMMA ReadBeginStep ==
  ASSUME IInv, NEW t \in Threads, OpenReadBegin(t) PROVE IInv'
  <1>1. Changing(t) /\ AtStep(t) /\ pc[t] = "begin"
    BY DEF IInv, OpenReadBegin, Changing
  <1>2. IsClosed /\ Acquired(t) /\ call[t] \in Opens
    BY <1>1 DEF AtStep
  <1>3. /\ handle' = handle /\ Goto(t, "first")
        /\ UNCHANGED <<volume, lock, live, entries, opens, call, arg, mine, crashed>>
    BY <1>2 DEF OpenReadBegin, IsClosed
  <1>4. pc' \in [Threads -> Steps] /\ pc'[t] = "first"
    BY <1>1, <1>3, OthersIdle DEF Steps
  <1>5. TypeOK' /\ Numbered' /\ UsersKept' /\ crashed' = {}
    <2>1. handle \in [Handles -> {"none", "closed", "open"}] /\ UsersKept
      BY DEF IInv, TypeOK
    <2> HIDE DEF IInv
    <2> QED
      BY <1>3, <1>4, <2>1, TypesKept DEF UsersKept
  <1>6. AtStep(t)'
    <2>1. IsClosed' /\ Acquired(t)'
      BY <1>2, <1>3 DEF Acquired, IsClosed, AtRestBut, Rest, volume
    <2>2. call'[t] \in Opens
      BY <1>2, <1>3
    <2> QED
      BY <1>4, <2>1, <2>2 DEF AtStep
  <1> QED
    BY <1>1, <1>3, <1>4, <1>5, <1>6, Sufficient DEF Steps, Changing, volume

LEMMA ReadFirstStep ==
  ASSUME IInv, NEW t \in Threads, OpenReadFirst(t) PROVE IInv'
  <1>1. Changing(t) /\ AtStep(t) /\ pc[t] = "first"
    BY DEF IInv, OpenReadFirst, Changing
  <1>2. IsClosed /\ Acquired(t) /\ call[t] \in Opens
    BY <1>1 DEF AtStep
  <1>3. /\ superblock' = call[t] /\ format' = call[t] /\ fs' = call[t]
        /\ live' = {Superblock(call[t]), FileSystem(call[t])}
        /\ Goto(t, "groups")
        /\ UNCHANGED <<file, opened, created, abort, freed, lock, handle, entries,
                       opens, call, arg, mine, crashed>>
    BY <1>2 DEF OpenReadFirst, IsClosed
  <1>4. pc' \in [Threads -> Steps] /\ pc'[t] = "groups"
    BY <1>1, <1>3, OthersIdle DEF Steps
  <1>5. live' \subseteq {"superblock", "file system"} \X Opens
    <2>1. \A n \in Opens : /\ Superblock(n) \in {"superblock", "file system"} \X Opens
                           /\ FileSystem(n) \in {"superblock", "file system"} \X Opens
      BY DEF Superblock, FileSystem
    <2> QED
      BY <1>2, <1>3, <2>1
  <1>6. TypeOK' /\ Numbered' /\ UsersKept' /\ crashed' = {}
    BY <1>2, <1>3, <1>4, <1>5 DEF IInv, TypeOK, Numbered, UsersKept
  <1>7. Whole'
    BY <1>2, <1>3, HandleNumbers DEF Whole, Superblock, FileSystem, NULL, Opens
  <1>8. Acquired(t)'
    BY <1>2, <1>3 DEF Acquired, AtRestBut, Rest
  <1>9. AtStep(t)'
    BY <1>4, <1>7, <1>8 DEF AtStep
  <1> QED
    BY <1>1, <1>3, <1>4, <1>6, <1>9, Sufficient DEF Steps, Changing

LEMMA ReadGroupsStep ==
  ASSUME IInv, NEW t \in Threads, OpenReadGroups(t) PROVE IInv'
  <1>1. Changing(t) /\ AtStep(t) /\ pc[t] = "groups"
    BY DEF IInv, OpenReadGroups, Changing
  <1>2. Whole /\ Acquired(t)
    BY <1>1 DEF AtStep
  <1>3. /\ Goto(t, "set")
        /\ UNCHANGED <<volume, lock, handle, live, entries, opens, call, arg, mine, crashed>>
    BY <1>2 DEF OpenReadGroups, Using, Whole
  <1>4. pc' \in [Threads -> Steps] /\ pc'[t] = "set"
    BY <1>1, <1>3, OthersIdle DEF Steps
  <1>5. TypeOK' /\ Numbered' /\ UsersKept' /\ crashed' = {}
    <2>1. handle \in [Handles -> {"none", "closed", "open"}] /\ UsersKept
      BY DEF IInv, TypeOK
    <2> HIDE DEF IInv
    <2> QED
      BY <1>3, <1>4, <2>1, TypesKept DEF UsersKept
  <1>6. AtStep(t)'
    <2>1. Whole' /\ Acquired(t)'
      BY <1>2, <1>3 DEF Acquired, Whole, Superblock, FileSystem, AtRestBut, Rest, volume
    <2> QED
      BY <1>4, <2>1 DEF AtStep
  <1> QED
    BY <1>1, <1>3, <1>4, <1>5, <1>6, Sufficient DEF Steps, Changing, volume

(* Whatever was read is given back with the handle.                        *)
LEMMA ReadFailsStep ==
  ASSUME IInv, NEW t \in Threads, OpenReadFails(t) PROVE IInv'
  <1>1. Changing(t) /\ AtStep(t) /\ pc[t] \in {"first", "groups"}
    BY DEF IInv, OpenReadFails, Changing
  <1>2. (IsClosed \/ Whole) /\ Acquired(t)
    BY <1>1 DEF AtStep
  <1>3. live' = {}
    BY <1>2 DEF OpenReadFails, IsClosed, Whole
  <1>4. /\ AbandonHandle(t) /\ Goto(t, "idle") /\ superblock' = NULL /\ fs' = NULL
        /\ UNCHANGED <<file, opened, created, format, abort, freed, lock, entries,
                       opens, call, arg, mine, crashed>>
    BY DEF OpenReadFails
  <1>5. /\ file = NULL /\ ~created /\ arg[t] \in Handles
        /\ \A q \in Handles \ {arg[t]} : handle[q] = Rest(q)
        /\ mine[t] = (arg[t] # UserOpen) /\ handle[arg[t]] = "open"
    BY <1>2 DEF Acquired, AtRestBut
  <1>6. arg[t] = UserOpen => handle[arg[t]] = Rest(arg[t])
    BY <1>5, HandleNumbers DEF Rest
  <1>7. format' \in {NULL} \cup Opens /\ lock' \in Threads \cup {NoThread} /\ abort' \in BOOLEAN
    BY <1>4 DEF IInv, TypeOK
  <1> QED
    BY <1>1, <1>3, <1>4, <1>5, <1>6, <1>7, FailureStep

LEMMA SetStep ==
  ASSUME IInv, NEW t \in Threads, OpenSet(t) PROVE IInv'
  <1>1. Changing(t) /\ AtStep(t) /\ pc[t] = "set"
    BY DEF IInv, OpenSet, Changing
  <1>2. Whole /\ Acquired(t)
    BY <1>1 DEF AtStep
  <1>3. /\ file' = arg[t] /\ opened' = mine[t]
        /\ UNCHANGED <<created, superblock, fs, format, abort, freed, lock, handle,
                       live, entries, opens, call, arg, mine, crashed>>
    BY DEF OpenSet
  <1>4. /\ arg[t] \in Handles /\ handle'[file'] = "open" /\ AtRestBut(file)'
        /\ opened' = (file' # UserOpen) /\ ~created' /\ file' # NULL
    BY <1>2, <1>3, HandleNumbers DEF Acquired, AtRestBut, Rest
  <1>5. Whole'
    BY <1>2, <1>3 DEF Whole, Superblock, FileSystem
  <1>6. opened' \in BOOLEAN /\ Numbered' /\ UsersKept' /\ crashed' = {}
    BY <1>3, <1>4 DEF IInv, TypeOK, Numbered, UsersKept
  <1>7. ASSUME NEW l \in Steps, Goto(t, l) PROVE pc' \in [Threads -> Steps] /\ pc'[t] = l /\ TypeOK'
    <2>1. pc' \in [Threads -> Steps] /\ pc'[t] = l
      BY <1>1, <1>3, <1>7, OthersIdle
    <2> QED
      BY <1>3, <1>4, <1>6, <2>1 DEF IInv, TypeOK
  <1>8. CASE arg[t] \in Users
    <2>1. Goto(t, "idle")
      BY <1>8 DEF OpenSet
    <2>5. created' = FALSE /\ file' \notin Opens
      BY <1>3, <1>4, <1>8, HandleNumbers DEF Users, IInv, TypeOK
    <2>2. IsOpen'
      <3>1. created' <=> file' \in Opens
        BY <2>5
      <3> QED
        BY <1>4, <1>5, <3>1, Zenon DEF IsOpen
    <2>3. ~freed
      BY <1>1 DEF IInv, EntriesKept
    <2>4. AtStep(t)' /\ FreedIsClosed'
      BY <1>3, <1>7, <2>1, <2>3 DEF AtStep, Steps, FreedIsClosed
    <2> QED
      BY <1>1, <1>3, <1>4, <1>6, <1>7, <2>1, <2>2, <2>4, Sufficient DEF Steps
  <1>9. CASE arg[t] \notin Users
    <2>1. Goto(t, "mark")
      BY <1>9 DEF OpenSet
    <2>2. file' \in Opens /\ opened'
      BY <1>3, <1>4, <1>9, HandleNumbers DEF Handles, Users
    <2>3. pc'[t] = "mark" /\ TypeOK'
      BY <1>7, <2>1 DEF Steps
    <2>4. AtStep(t)'
      BY <1>4, <1>5, <2>2, <2>3 DEF AtStep
    <2> QED
      BY <1>1, <1>3, <1>6, <2>1, <2>3, <2>4, Sufficient DEF Steps, Changing
  <1> QED
    BY <1>8, <1>9

LEMMA MarkStep ==
  ASSUME IInv, NEW t \in Threads, OpenMark(t) PROVE IInv'
  <1>1. Changing(t) /\ AtStep(t) /\ pc[t] = "mark"
    BY DEF IInv, OpenMark, Changing
  <1>2. file \in Opens /\ handle[file] = "open" /\ opened /\ Whole /\ AtRestBut(file)
    BY <1>1 DEF AtStep
  <1>3. /\ created' = TRUE /\ Goto(t, "idle")
        /\ UNCHANGED <<file, opened, superblock, fs, format, abort, freed, lock,
                       handle, live, entries, opens, call, arg, mine, crashed>>
    BY DEF OpenMark
  <1>4. pc' \in [Threads -> Steps] /\ pc'[t] = "idle"
    BY <1>1, <1>3, OthersIdle DEF Steps
  <1>5. TypeOK' /\ Numbered' /\ UsersKept' /\ crashed' = {}
    BY <1>3, <1>4 DEF IInv, TypeOK, Numbered, UsersKept
  <1>6. IsOpen' /\ AtRestBut(file)'
    BY <1>2, <1>3, HandleNumbers DEF IsOpen, Whole, Superblock, FileSystem, AtRestBut, Rest,
      Handles, Users
  <1>7. AtStep(t)' /\ FreedIsClosed'
    BY <1>1, <1>3, <1>4 DEF AtStep, FreedIsClosed, IInv, EntriesKept
  <1> QED
    BY <1>1, <1>3, <1>4, <1>5, <1>6, <1>7, Sufficient DEF Steps

(* The handle of the library is freed, that of the caller closed if the    *)
(* volume had opened it.                                                   *)
LEMMA CloseStep ==
  ASSUME IInv, NEW t \in Threads, CloseHandle(t) PROVE IInv'
  <1>1. Changing(t) /\ AtStep(t) /\ pc[t] = "close"
    BY DEF IInv, CloseHandle, Changing
  <1>2. IsOpen /\ AtRestBut(file) /\ file \in Handles
    BY <1>1 DEF AtStep, IsOpen, IInv, TypeOK
  <1>3. /\ lock' = t /\ file' = NULL /\ opened' = FALSE /\ created' = FALSE /\ Goto(t, "clear")
        /\ handle' = [handle EXCEPT ![file] = IF created THEN "none"
                                              ELSE IF opened THEN "closed" ELSE @]
        /\ UNCHANGED <<superblock, fs, format, abort, freed, live, entries, opens,
                       call, arg, mine, crashed>>
    BY <1>2 DEF CloseHandle, IsOpen
  <1>4. pc' \in [Threads -> Steps] /\ pc'[t] = "clear"
    BY <1>1, <1>3, OthersIdle DEF Steps
  <1>5. handle' \in [Handles -> {"none", "closed", "open"}]
    BY <1>3 DEF IInv, TypeOK
  <1>6. TypeOK' /\ Numbered' /\ crashed' = {}
    BY <1>3, <1>4, <1>5, HandleNumbers DEF IInv, TypeOK, Numbered, NULL, Opens
  <1>7. AtRestBut(NULL)'
    <2>1. \A q \in Handles \ {file} : handle'[q] = Rest(q)
      BY <1>2, <1>3 DEF IInv, TypeOK, AtRestBut
    <2>2. handle'[file] = IF file \in Opens THEN "none" ELSE IF opened THEN "closed" ELSE "open"
      BY <1>2, <1>3 DEF IInv, TypeOK, IsOpen
    <2>3. handle'[file] = Rest(file)
      BY <1>2, <2>2, HandleNumbers DEF Rest, IsOpen
    <2> QED
      BY <1>2, <2>1, <2>3 DEF AtRestBut, Rest
  <1>8. UsersKept'
    BY <1>7, HandleNumbers DEF UsersKept, Users, AtRestBut, Rest
  <1>9. AtStep(t)'
    BY <1>2, <1>3, <1>4, <1>7 DEF AtStep, IsOpen, Whole, Superblock, FileSystem
  <1> QED
    BY <1>1, <1>3, <1>4, <1>6, <1>8, <1>9, Sufficient DEF Steps, Changing

LEMMA ClearStep ==
  ASSUME IInv, NEW t \in Threads, CloseClear(t) PROVE IInv'
  <1>1. Changing(t) /\ AtStep(t) /\ pc[t] = "clear"
    BY DEF IInv, CloseClear, Changing
  <1>2. file = NULL /\ ~created /\ Whole /\ AtRestBut(NULL)
    BY <1>1 DEF AtStep
  <1>3. /\ lock' = NoThread /\ format' = NULL /\ abort' = FALSE /\ superblock' = NULL /\ fs' = NULL
        /\ live' = {}
        /\ UNCHANGED <<file, opened, created, freed, handle, entries, opens, call, arg, mine, crashed>>
    BY <1>2 DEF CloseClear, Whole
  <1>4. PICK l \in {"free", "idle"} : Goto(t, l)
    BY DEF CloseClear
  <1>5. pc' \in [Threads -> Steps] /\ pc'[t] = l
    BY <1>1, <1>3, <1>4, OthersIdle DEF Steps
  <1>6. TypeOK' /\ Numbered' /\ UsersKept' /\ crashed' = {}
    BY <1>3, <1>5 DEF IInv, TypeOK, Numbered, UsersKept
  <1>7. IsClosed' /\ AtRestBut(file)' /\ AtRestBut(NULL)' /\ FreedIsClosed'
    BY <1>2, <1>3 DEF IsClosed, AtRestBut, Rest, FreedIsClosed, NULL
  <1>8. AtStep(t)'
    BY <1>5, <1>7 DEF AtStep
  <1> QED
    BY <1>1, <1>3, <1>4, <1>5, <1>6, <1>7, <1>8, Sufficient DEF Steps, Changing

LEMMA FreeStep ==
  ASSUME IInv, NEW t \in Threads, Free(t) PROVE IInv'
  <1>1. Changing(t) /\ AtStep(t) /\ pc[t] = "free"
    BY DEF IInv, Free, Changing
  <1>2. IsClosed /\ AtRestBut(NULL)
    BY <1>1 DEF AtStep
  <1>3. /\ freed' = TRUE /\ Goto(t, "idle")
        /\ UNCHANGED <<file, opened, created, superblock, fs, format, abort, lock,
                       handle, live, entries, opens, call, arg, mine, crashed>>
    BY DEF Free
  <1>4. pc' \in [Threads -> Steps] /\ pc'[t] = "idle"
    BY <1>1, <1>3, OthersIdle DEF Steps
  <1>5. TypeOK' /\ Numbered' /\ UsersKept' /\ crashed' = {}
    BY <1>3, <1>4 DEF IInv, TypeOK, Numbered, UsersKept
  <1>6. IsClosed' /\ AtRestBut(file)' /\ FreedIsClosed'
    BY <1>2, <1>3 DEF IsClosed, AtRestBut, Rest, FreedIsClosed, NULL
  <1>7. AtStep(t)'
    BY <1>4 DEF AtStep
  <1> QED
    BY <1>1, <1>3, <1>4, <1>5, <1>6, <1>7, Sufficient DEF Steps

------------------------------------------------------------------------------
(* Steps of a call that changes nothing of the volume                      *)

(* What a step depends on.                                                 *)
LEMMA SameStep ==
  ASSUME NEW q, AtStep(q), pc'[q] = pc[q], call'[q] = call[q], arg'[q] = arg[q], mine'[q] = mine[q],
         UNCHANGED <<file, opened, created, superblock, fs, format, handle, live>>
  PROVE  AtStep(q)'
  BY DEF AtStep, IsClosed, IsOpen, Whole, Acquired, AtRestBut, AtRestOrNew, Rest, Superblock,
    FileSystem

(* The volume stays as it is.                                              *)
Same == UNCHANGED <<file, opened, created, superblock, fs, format, freed, handle, live>>

LEMMA SameVolume ==
  ASSUME Same
  PROVE  /\ IsClosed' <=> IsClosed
         /\ IsOpen' <=> IsOpen
         /\ AtRestBut(file)' <=> AtRestBut(file)
         /\ FreedIsClosed' <=> FreedIsClosed
         /\ UsersKept' <=> UsersKept
  BY DEF Same, IsClosed, IsOpen, Whole, AtRestBut, Rest, FreedIsClosed, UsersKept, Superblock,
    FileSystem

(* A volume that may be used is open: the lookups use what it has.         *)
LEMMA Usable ==
  ASSUME Disciplined, IInv, MayUse
  PROVE  /\ \A t \in Threads : ~Changing(t)
         /\ IsOpen /\ ~freed /\ fs # NULL
         /\ FileSystem(fs) \in live /\ Superblock(superblock) \in live
         /\ \A e \in entries : e = fs
  <1>1. file # NULL /\ \A t \in Threads : ~Changing(t)
    BY DEF MayUse
  <1>2. IsOpen
    BY <1>1 DEF IInv, Quiet, IsClosed
  <1> QED
    BY <1>1, <1>2 DEF IsOpen, Whole, IInv, FreedIsClosed, EntriesKept

(* A lookup begins, goes on or ends while nobody changes the volume.       *)
LEMMA LookupStep ==
  ASSUME IInv, NEW t \in Threads, \A q \in Threads : ~Changing(q),
         Same, crashed' = {}, entries' \subseteq entries \cup ({fs} \ {NULL}),
         opens' = opens, abort' = abort, lock' = lock, mine' = mine,
         NEW l \in {"idle", "root", "label", "inode"}, Goto(t, l),
         call' \in [Threads -> {NULL} \cup Opens], arg' \in [Threads -> {NULL} \cup Handles],
         \A q \in Threads \ {t} : call'[q] = call[q] /\ arg'[q] = arg[q],
         arg'[t] \in {arg[t], file}, AtStep(t)'
  PROVE  IInv'
  <1>1. /\ pc' \in [Threads -> Steps] /\ pc'[t] = l
        /\ \A q \in Threads \ {t} : pc'[q] = pc[q]
    BY DEF IInv, TypeOK, Goto, Steps
  <1>2. \A q \in Threads : ~Changing(q)'
    BY <1>1 DEF Changing
  <1>3. TypeOK'
    BY <1>1 DEF IInv, TypeOK, Same
  <1>4. \A q \in Threads : AtStep(q)'
    BY <1>1, SameStep DEF IInv, Same
  <1>5. Alone' /\ Quiet' /\ FreedIsClosed' /\ UsersKept'
    BY <1>2, SameVolume DEF IInv, Alone, Quiet
  <1>6. EntriesKept'
    BY <1>2 DEF IInv, EntriesKept, Same
  <1>7. Numbered'
    BY DEF IInv, Numbered, Same
  <1> QED
    BY <1>3, <1>4, <1>5, <1>6, <1>7 DEF IInv

LEMMA NotChanging ==
  ASSUME IInv, NEW t \in Threads, pc[t] # "idle", ~Changing(t)
  PROVE  \A q \in Threads : ~Changing(q)
  BY DEF IInv, Alone

LEMMA RootLabelStep ==
  ASSUME IInv, NEW t \in Threads, Root(t) \/ Label(t) PROVE IInv'
  <1>1. pc[t] \in {"root", "label"} /\ ~Changing(t) /\ AtStep(t)
    BY DEF IInv, Root, Label, Changing
  <1>2. IsOpen /\ \A q \in Threads : ~Changing(q)
    BY <1>1, NotChanging DEF AtStep
  <1>3. Superblock(superblock) \in live /\ FileSystem(fs) \in live
    BY <1>2 DEF IsOpen, Whole
  <1>4. crashed' = {}
    BY <1>3 DEF Root, Label, Using, IInv
  <1>5. /\ Goto(t, "idle") /\ entries' \subseteq entries \cup ({fs} \ {NULL})
        /\ UNCHANGED <<volume, lock, handle, live, opens, call, arg, mine>>
    BY DEF Root, Label
  <1>6. pc'[t] = "idle"
    BY <1>5 DEF IInv, TypeOK, Goto
  <1>7. AtStep(t)'
    BY <1>6 DEF AtStep
  <1> QED
    BY <1>2, <1>4, <1>5, <1>7, LookupStep DEF Same, volume, IInv, TypeOK

LEMMA ByInodeStep ==
  ASSUME IInv, NEW t \in Threads, ByInode(t) PROVE IInv'
  <1>1. pc[t] = "inode" /\ ~Changing(t) /\ AtStep(t)
    BY DEF IInv, ByInode, Changing
  <1>2. IsOpen /\ call[t] = fs /\ arg[t] = file /\ \A q \in Threads : ~Changing(q)
    BY <1>1, NotChanging DEF AtStep
  <1>3. FileSystem(call[t]) \in live /\ handle[arg[t]] # "none" /\ fs # NULL
    BY <1>2 DEF IsOpen, Whole
  <1>4. crashed' = {}
    BY <1>3 DEF ByInode, Using, IInv
  <1>5. /\ Goto(t, "idle") /\ entries' \subseteq entries \cup ({fs} \ {NULL})
        /\ UNCHANGED <<volume, lock, handle, live, opens, call, arg, mine>>
    BY <1>2, <1>3 DEF ByInode
  <1>6. pc'[t] = "idle"
    BY <1>5 DEF IInv, TypeOK, Goto
  <1>7. AtStep(t)'
    BY <1>6 DEF AtStep
  <1> QED
    BY <1>2, <1>4, <1>5, <1>7, LookupStep DEF Same, volume, IInv, TypeOK

LEMMA BeginLookupStep ==
  ASSUME Disciplined, IInv, NEW t \in Threads,
         (\E op \in {"root", "label"} : BeginWithSuperblock(t, op)) \/ BeginByInode(t)
  PROVE  IInv'
  <1>1. MayUse /\ pc[t] = "idle"
    BY DEF BeginWithSuperblock, BeginByInode
  <1>2. IsOpen /\ (\A q \in Threads : ~Changing(q)) /\ file \in Handles /\ fs \in Opens
    BY <1>1, Usable DEF IsOpen, IInv, TypeOK
  <1>3. UNCHANGED <<volume, lock, handle, live, entries, opens, mine, crashed>>
    BY DEF BeginWithSuperblock, BeginByInode
  <1>4. IsOpen'
    BY <1>2, <1>3 DEF IsOpen, Whole, volume, Superblock, FileSystem
  <1>5. CASE \E op \in {"root", "label"} : BeginWithSuperblock(t, op)
    <2>1. PICK op \in {"root", "label"} : BeginWithSuperblock(t, op)
      BY <1>5
    <2>2. Goto(t, op) /\ call' = call /\ arg' = arg
      BY <2>1 DEF BeginWithSuperblock
    <2>3. pc'[t] = op
      BY <2>2 DEF IInv, TypeOK, Goto
    <2>4. AtStep(t)'
      BY <1>4, <2>3 DEF AtStep
    <2> QED
      BY <1>2, <1>3, <2>2, <2>4, LookupStep DEF Same, volume, IInv, TypeOK
  <1>6. CASE BeginByInode(t)
    <2>1. /\ Goto(t, "inode") /\ call' = [call EXCEPT ![t] = fs] /\ arg' = [arg EXCEPT ![t] = file]
      BY <1>6 DEF BeginByInode
    <2>2. /\ pc'[t] = "inode" /\ call'[t] = fs /\ arg'[t] = file
          /\ call' \in [Threads -> {NULL} \cup Opens] /\ arg' \in [Threads -> {NULL} \cup Handles]
          /\ \A q \in Threads \ {t} : call'[q] = call[q] /\ arg'[q] = arg[q]
      BY <1>2, <2>1 DEF IInv, TypeOK, Goto
    <2>3. AtStep(t)'
      BY <1>3, <1>4, <2>2 DEF AtStep, volume
    <2> QED
      BY <1>2, <1>3, <2>1, <2>2, <2>3, LookupStep DEF Same, volume, IInv, TypeOK
  <1> QED
    BY <1>5, <1>6

(* A call of one step, or the caller uses or frees a file entry.           *)
LEMMA EntryStep ==
  ASSUME Disciplined, IInv, NEW t \in Threads, ByPath(t) \/ UseEntry(t) \/ FreeEntry(t)
  PROVE  IInv'
  <1>1. UNCHANGED <<volume, lock, handle, live, opens, thread>>
    BY DEF ByPath, UseEntry, FreeEntry
  <1>2. crashed' = {}
    <2>1. CASE ByPath(t)
      BY <2>1, Usable DEF ByPath, Using, IInv
    <2>2. CASE UseEntry(t)
      BY <2>2, Usable DEF UseEntry, Using, IInv
    <2>3. CASE FreeEntry(t)
      BY <2>3 DEF FreeEntry, IInv
    <2> QED
      BY <2>1, <2>2, <2>3
  <1>3. /\ entries' \subseteq entries \cup ({fs} \ {NULL})
        /\ (\E q \in Threads : Changing(q)) => entries' \subseteq entries
    <2>1. CASE ByPath(t)
      BY <2>1, Usable DEF ByPath
    <2>2. CASE UseEntry(t) \/ FreeEntry(t)
      BY <2>2 DEF UseEntry, FreeEntry
    <2> QED
      BY <2>1, <2>2
  <1>4. TypeOK' /\ Numbered'
    <2>1. entries' \subseteq entries \cup ({fs} \ {NULL}) /\ TypeOK
      BY <1>3 DEF IInv
    <2>2. TypeOK'
      BY <1>1, <1>2, <2>1 DEF TypeOK, volume, thread
    <2> QED
      BY <1>1, <2>2 DEF IInv, Numbered, volume, thread
  <1>5. \A q \in Threads : AtStep(q)' /\ (Changing(q)' <=> Changing(q))
    BY <1>1, SameStep DEF IInv, volume, thread, Changing
  <1>6. EntriesKept'
    BY <1>1, <1>3, <1>5 DEF IInv, EntriesKept, volume
  <1>7. Alone' /\ Quiet' /\ FreedIsClosed' /\ UsersKept'
    BY <1>1, <1>5, SameVolume DEF IInv, Alone, Quiet, Same, volume, thread
  <1> QED
    BY <1>2, <1>4, <1>5, <1>6, <1>7 DEF IInv

LEMMA SignalStep ==
  ASSUME IInv, SignalAbort \/ Ended \/ UNCHANGED vars PROVE IInv'
  <1>1. /\ UNCHANGED <<file, opened, created, superblock, fs, format, freed, lock,
                       handle, live, entries, opens, thread, crashed>>
        /\ abort' \in BOOLEAN
    BY DEF SignalAbort, Ended, vars, volume, IInv, TypeOK
  <1>2. TypeOK' /\ Numbered'
    BY <1>1 DEF IInv, TypeOK, Numbered, thread
  <1>3. \A q \in Threads : AtStep(q)' /\ (Changing(q)' <=> Changing(q))
    BY <1>1, SameStep DEF IInv, thread, Changing
  <1>4. Alone' /\ Quiet' /\ FreedIsClosed' /\ UsersKept' /\ EntriesKept'
    BY <1>1, <1>3, SameVolume DEF IInv, Alone, Quiet, EntriesKept, Same, thread
  <1> QED
    BY <1>1, <1>2, <1>3, <1>4 DEF IInv

------------------------------------------------------------------------------
(* A call that changes the volume begins                                   *)

LEMMA BeginStep ==
  ASSUME Disciplined, IInv, NEW t \in Threads, MayChange, ~freed, NEW l \in Steps, Goto(t, l),
         l \in {"check", "close", "free"},
         UNCHANGED <<volume, entries>>, TypeOK', Numbered', UsersKept', crashed' = {}, AtStep(t)'
  PROVE  IInv'
  <1>1. (\A q \in Threads : pc[q] = "idle") /\ entries' = {}
    BY DEF MayChange, AllIdle
  <1>2. pc'[t] = l /\ \A q \in Threads \ {t} : pc'[q] = "idle"
    BY <1>1 DEF IInv, TypeOK, Goto
  <1>3. \A q \in Threads : AtStep(q)' /\ (Changing(q)' <=> q = t)
    BY <1>2 DEF AtStep, Changing
  <1>4. Alone' /\ Quiet' /\ EntriesKept' /\ FreedIsClosed'
    BY <1>1, <1>2, <1>3 DEF IInv, Alone, Quiet, EntriesKept, FreedIsClosed, volume
  <1> QED
    BY <1>3, <1>4 DEF IInv

LEMMA BeginOpenStep ==
  ASSUME Disciplined, IInv, NEW t \in Threads, NEW h \in {opens + 1} \cup Users, BeginOpen(t, h)
  PROVE  IInv'
  <1>1. /\ MayChange /\ ~freed /\ opens < MaxOpens /\ Goto(t, "check") /\ opens' = opens + 1
        /\ call' = [call EXCEPT ![t] = opens + 1] /\ arg' = [arg EXCEPT ![t] = h]
        /\ mine' = [mine EXCEPT ![t] = FALSE]
        /\ handle' = IF h \in Opens THEN [handle EXCEPT ![h] = "closed"] ELSE handle
        /\ UNCHANGED <<volume, lock, live, entries, crashed>>
    BY DEF BeginOpen
  <1>2. opens \in Nat /\ opens + 1 \in Opens
    <2>1. opens \in 0 .. MaxOpens /\ MaxOpens \in Nat
      BY HandleNumbers DEF IInv, TypeOK
    <2> QED
      BY <1>1, <2>1 DEF Opens
  <1>3. h \in Handles /\ (h \in Opens => h = opens + 1 /\ h # file)
    <2>1. h \in {opens + 1, UserClosed, UserOpen}
      BY DEF Users
    <2>2. h \in Opens => h = opens + 1
      BY <2>1, HandleNumbers
    <2>3. opens + 1 # file
      BY <1>2 DEF IInv, Numbered
    <2> QED
      BY <1>2, <2>1, <2>2, <2>3, HandleNumbers
  <1>4. pc' \in [Threads -> Steps] /\ pc'[t] = "check"
    BY <1>1 DEF IInv, TypeOK, Goto, Steps
  <1>5. /\ call' \in [Threads -> {NULL} \cup Opens] /\ call'[t] \in Opens
        /\ arg' \in [Threads -> {NULL} \cup Handles] /\ arg'[t] = h
        /\ \A q \in Threads \ {t} : arg'[q] = arg[q]
        /\ mine' \in [Threads -> BOOLEAN] /\ ~mine'[t]
        /\ handle' \in [Handles -> {"none", "closed", "open"}]
    BY <1>1, <1>2, <1>3 DEF IInv, TypeOK
  <1>6. opens' \in 0 .. MaxOpens
    BY <1>1, <1>2, HandleNumbers
  <1>7. TypeOK'
    BY <1>1, <1>4, <1>5, <1>6 DEF IInv, TypeOK, volume
  <1>8. Numbered'
    <2>1. file' = file /\ (file \in Opens => file <= opens)
      BY <1>1 DEF IInv, Numbered, volume
    <2>2. file \in Opens => file <= opens + 1
      BY <1>2, <2>1, HandleNumbers
    <2>3. \A q \in Threads : arg'[q] \in Opens => arg'[q] <= opens + 1
      <3>1. \A n \in Opens : n <= opens => n <= opens + 1
        BY <1>2, HandleNumbers
      <3>2. \A q \in Threads \ {t} : arg[q] \in Opens => arg[q] <= opens + 1
        <4> SUFFICES ASSUME NEW q \in Threads \ {t}, arg[q] \in Opens PROVE arg[q] <= opens + 1
          OBVIOUS
        <4>1. arg[q] <= opens
          BY DEF IInv, Numbered
        <4> QED
          BY <3>1, <4>1
      <3> QED
        BY <1>2, <1>3, <1>5, <3>2
    <2> QED
      BY <1>1, <2>1, <2>2, <2>3 DEF Numbered
  <1>9. \A q \in Handles : handle'[q] = IF q = h /\ q \in Opens THEN "closed" ELSE handle[q]
    BY <1>1, <1>3 DEF IInv, TypeOK
  <1>10. UsersKept'
    BY <1>9, HandleNumbers DEF IInv, UsersKept, Users
  <1>11. (IsClosed \/ IsOpen) /\ AtRestBut(file)
    BY <1>1 DEF MayChange, AllIdle, Changing, IInv, Quiet
  <1>12. (IsClosed \/ IsOpen)'
    <2>1. file \in Handles => handle'[file] = handle[file]
      BY <1>3, <1>9
    <2> QED
      BY <1>1, <1>11, <2>1 DEF IsClosed, IsOpen, Whole, volume, Superblock, FileSystem, IInv,
        TypeOK
  <1>13. AtRestOrNew(file, arg[t])'
    BY <1>1, <1>5, <1>9, <1>11 DEF AtRestOrNew, AtRestBut, Rest, volume
  <1>14. AtStep(t)'
    BY <1>1, <1>3, <1>4, <1>5, <1>12, <1>13 DEF AtStep, volume
  <1> QED
    BY <1>1, <1>7, <1>8, <1>10, <1>14, BeginStep DEF IInv, Steps

LEMMA BeginCloseStep ==
  ASSUME Disciplined, IInv, NEW t \in Threads, BeginClose(t) \/ BeginFree(t)
  PROVE  IInv'
  <1>1. /\ MayChange /\ ~freed
        /\ UNCHANGED <<volume, lock, handle, live, entries, opens, call, arg, crashed>>
        /\ mine' \in [Threads -> BOOLEAN]
    BY DEF BeginClose, BeginFree, IInv, TypeOK
  <1>2. PICK l \in {"close", "free"} : Goto(t, l) /\ (l = "close" <=> file # NULL)
    BY DEF BeginClose, BeginFree
  <1>3. pc' \in [Threads -> Steps] /\ pc'[t] = l
    BY <1>2 DEF IInv, TypeOK, Goto, Steps
  <1>4. TypeOK' /\ Numbered' /\ UsersKept' /\ crashed' = {}
    BY <1>1, <1>3 DEF IInv, TypeOK, Numbered, UsersKept, volume
  <1>5. (IsClosed \/ IsOpen) /\ AtRestBut(file)
    BY <1>1 DEF MayChange, AllIdle, Changing, IInv, Quiet
  <1>6. AtStep(t)'
    <2>1. CASE l = "close"
      BY <1>1, <1>2, <1>3, <1>5, <2>1
         DEF AtStep, IsClosed, IsOpen, Whole, AtRestBut, Rest, volume, Superblock, FileSystem
    <2>2. CASE l = "free"
      BY <1>1, <1>2, <1>3, <1>5, <2>2 DEF AtStep, IsClosed, IsOpen, AtRestBut, Rest, volume,
        NULL
    <2> QED
      BY <2>1, <2>2
  <1> QED
    BY <1>1, <1>2, <1>4, <1>6, BeginStep DEF Steps

------------------------------------------------------------------------------

(* The inductive invariant, for disciplined callers: what a call that is   *)
(* under way holds at each of its steps, and what the volume is in between.*)
THEOREM Safety ==
  ASSUME Disciplined
  PROVE  Spec => []IInv
  <1>1. IInv /\ [Next]_vars => IInv'
    <2> SUFFICES ASSUME IInv, [Next]_vars PROVE IInv'
      OBVIOUS
    <2>1. CASE SignalAbort \/ Ended \/ UNCHANGED vars
      BY <2>1, SignalStep
    <2>2. ASSUME NEW t \in Threads, Call(t) PROVE IInv'
      BY <2>2, BeginOpenStep, BeginCloseStep, BeginLookupStep, EntryStep DEF Call
    <2>3. ASSUME NEW t \in Threads, Continue(t) \/ OpenReadFails(t) PROVE IInv'
      BY <2>3, CheckStep, HandleStep, ReadBeginStep, ReadFirstStep, ReadGroupsStep,
        ReadFailsStep, SetStep, MarkStep, CloseStep, ClearStep, FreeStep, RootLabelStep,
        ByInodeStep DEF Continue
    <2> QED
      BY <2>1, <2>2, <2>3 DEF Next
  <1> QED
    BY <1>1, InitInductive, PTL DEF Spec

(* Every value stays in its type.                                          *)
THEOREM TypeCorrect ==
  ASSUME Disciplined
  PROVE  Spec => []TypeOK
  BY Safety, PTL DEF IInv

(* For any number of threads and calls, whatever fails: a handle of the    *)
(* caller is as the caller left it, and only a handle the library made is  *)
(* ever freed by it.                                                       *)
THEOREM HandlesAreKept ==
  ASSUME Disciplined
  PROVE  Spec => []CallerHandleKept
  <1>1. IInv => CallerHandleKept
    <2> SUFFICES ASSUME IInv PROVE CallerHandleKept
      OBVIOUS
    <2>1. AllIdle => (IsClosed \/ IsOpen) /\ AtRestBut(file)
      BY DEF IInv, AllIdle, Quiet, Changing
    <2>2. AllIdle /\ created => file \in Opens
      BY <2>1 DEF IsClosed, IsOpen
    <2>3. \A h \in Users : h \in Handles /\ h \notin Opens
      BY HandleNumbers DEF Users
    <2>4. AllIdle => \A h \in Users \ {file} : handle[h] = IF h = UserOpen THEN "open" ELSE "closed"
      BY <2>1, <2>3 DEF AtRestBut, Rest
    <2> QED
      BY <2>2, <2>4 DEF CallerHandleKept, IInv, UsersKept
  <1> QED
    BY <1>1, Safety, PTL

(* However many opens failed half way, nothing of them is left, and        *)
(* nothing that is in use is freed.                                        *)
THEOREM NothingLeaks ==
  ASSUME Disciplined
  PROVE  Spec => []NoLeak
  <1>1. IInv => NoLeak
    <2> SUFFICES ASSUME IInv, AllIdle, file = NULL \/ freed
                 PROVE  /\ \A h \in Opens : handle[h] = "none"
                        /\ live = {} /\ superblock = NULL /\ fs = NULL
      BY DEF NoLeak, IInv
    <2>1. file = NULL /\ IsClosed /\ AtRestBut(NULL)
      BY DEF IInv, AllIdle, Quiet, Changing, FreedIsClosed, IsOpen
    <2> QED
      BY <2>1, HandleNumbers DEF IsClosed, AtRestBut, Rest
  <1> QED
    BY <1>1, Safety, PTL

(* A volume that is open is whole, also after opens that failed.           *)
THEOREM VolumeIsWhole ==
  ASSUME Disciplined
  PROVE  Spec => []OpenIsWhole
  <1>1. IInv => OpenIsWhole
    BY DEF IInv, AllIdle, Quiet, Changing, OpenIsWhole, IsClosed, IsOpen, Whole
  <1> QED
    BY <1>1, Safety, PTL

------------------------------------------------------------------------------

(* Arithmetic of inode numbers and of chunks.                              *)
LEMMA Arithmetic ==
  ASSUME NEW n \in Nat, NEW d \in Nat \ {0}
  PROVE  /\ n \div d \in Nat
         /\ n % d \in 0 .. d - 1
         /\ n % d <= n
  BY SMT

(* What a lookup has under its hands: a tree of the image.                 *)
LEMMA TreeIsTyped ==
  ASSUME NEW i \in Images, NEW g \in 1 .. Groups
  PROVE  i[g] \in AllocationGroup
  BY FileSystemAssumption

LEMMA PositionInBounds ==
  ASSUME NEW keys \in Seq(Nat), NEW n \in Nat
  PROVE  Position(keys, n) \in 0 .. Len(keys)
<1> DEFINE I == 1 .. Len(keys)
           P == {i \in I : \A k \in 1 .. i : keys[k] <= n}
<1>1. Len(keys) \in Nat
  OBVIOUS
<1>10. 1 \in Int /\ Len(keys) \in Int
  BY <1>1
<1>11. /\ IsFiniteSet(I)
      /\ Cardinality(I) = IF 1 > Len(keys) THEN 0 ELSE Len(keys) - 1 + 1
  BY <1>10, FS_Interval
<1>2. IsFiniteSet(I) /\ Cardinality(I) = Len(keys)
  BY <1>1, <1>11
<1>3. P \in SUBSET I
  OBVIOUS
<1>4. IsFiniteSet(P) /\ Cardinality(P) <= Cardinality(I)
  BY <1>2, <1>3, FS_Subset
<1>5. Cardinality(P) \in Nat
  BY <1>4, FS_CardinalityType
<1>6. Position(keys, n) = Cardinality(P)
  BY DEF Position
<1>. HIDE DEF P, I
<1>. QED
  BY <1>1, <1>2, <1>4, <1>5, <1>6

(* A block is reachable from itself, and what is below a reachable block   *)
(* is reachable.                                                           *)
LEMMA ReachableFromItself ==
  ASSUME NEW tree, NEW from \in Blocks
  PROVE  from \in Reachable(tree, from)
  BY DEF Reachable

LEMMA ReachableBelow ==
  ASSUME NEW tree \in AllocationGroup, NEW from \in Blocks,
         NEW b \in Reachable(tree, from), NEW i \in 1 .. Len(tree.node[b].subs)
  PROVE  tree.node[b].subs[i] \in Reachable(tree, from)
<1> DEFINE s == tree.node[b].subs[i]
<1>1. b \in Blocks
  BY DEF Reachable
<1>2. tree.node[b] \in Node
  BY <1>1 DEF AllocationGroup
<1>3. s \in Blocks
  BY <1>2 DEF Node
<1>4. ASSUME NEW S \in SUBSET Blocks, from \in S, Closed(tree, S)
      PROVE  s \in S
  <2>1. b \in S
    BY <1>4 DEF Reachable
  <2>2. Subs(tree, b) \subseteq S
    BY <1>4, <2>1 DEF Closed
  <2>3. s \in Subs(tree, b)
    BY DEF Subs
  <2>. QED
    BY <2>2, <2>3
<1>. QED
  BY <1>3, <1>4 DEF Reachable

(* Elements of sequences, apart from the arithmetic of what they hold.     *)
LEMMA SequenceElements ==
  ASSUME NEW S, NEW s \in Seq(S)
  PROVE  /\ Len(s) \in Nat
         /\ \A i \in 1 .. Len(s) : s[i] \in S
         /\ \A x \in S : Append(s, x) \in Seq(S)
         /\ \A x \in S : Len(Append(s, x)) = Len(s) + 1
         /\ \A x \in S : \A i \in 1 .. Len(s) : Append(s, x)[i] = s[i]
         /\ <<>> \in Seq(S)
  OBVIOUS

------------------------------------------------------------------------------
(* What a tree stores                                                      *)

LEMMA NodeIsTyped ==
  ASSUME NEW tree \in AllocationGroup, NEW b \in Blocks
  PROVE  LET node == tree.node[b]
         IN  /\ node \in Node
             /\ node.chunks \in Seq(Nat) /\ node.keys \in Seq(Nat) /\ node.subs \in Seq(Blocks)
             /\ Len(node.keys) = Len(node.subs)
             /\ node.kind \in {"leaf", "branch", "bad"}
             /\ node.kind # "leaf" => node.chunks = <<>>
             /\ node.kind # "branch" => node.subs = <<>>
<1>1. tree.node[b] \in Node
  BY DEF AllocationGroup
<1>. QED
  BY <1>1 DEF Node

LEMMA SubsAreBlocks ==
  ASSUME NEW tree \in AllocationGroup, NEW b \in Blocks
  PROVE  Subs(tree, b) \subseteq Blocks
<1>1. tree.node[b].subs \in Seq(Blocks)
  BY NodeIsTyped
<1>. QED
  BY <1>1, SequenceElements DEF Subs

(* The reachable blocks are one of the closed sets.                        *)
LEMMA ReachableIsClosed ==
  ASSUME NEW tree \in AllocationGroup, NEW from \in Blocks
  PROVE  Closed(tree, Reachable(tree, from))
<1> SUFFICES ASSUME NEW b \in Reachable(tree, from), NEW c \in Subs(tree, b)
             PROVE  c \in Reachable(tree, from)
  BY DEF Closed
<1>. QED
  BY ReachableBelow DEF Subs

LEMMA ReachableFurther ==
  ASSUME NEW tree \in AllocationGroup, NEW from \in Blocks,
         NEW b \in Reachable(tree, from), NEW c \in Reachable(tree, b)
  PROVE  c \in Reachable(tree, from)
<1>1. Closed(tree, Reachable(tree, from))
  BY ReachableIsClosed
<1>2. Reachable(tree, from) \in SUBSET Blocks
  BY DEF Reachable
<1>. QED
  BY <1>1, <1>2 DEF Reachable

(* What is reachable from a block is itself or below one of its sub blocks.*)
LEMMA ReachableThrough ==
  ASSUME NEW tree \in AllocationGroup, NEW from \in Blocks,
         NEW b \in Reachable(tree, from), b # from
  PROVE  \E c \in Subs(tree, from) : b \in Reachable(tree, c)
<1> DEFINE Below == {d \in Blocks : \E c \in Subs(tree, from) : d \in Reachable(tree, c)}
           S == {from} \cup Below
<1>1. S \in SUBSET Blocks /\ from \in S
  OBVIOUS
<1>2. ASSUME NEW d \in S, NEW e \in Subs(tree, d) PROVE e \in S
  <2>1. e \in Blocks
    BY <1>1, <1>2, SubsAreBlocks
  <2>2. CASE d = from
    <3>1. e \in Subs(tree, from) /\ e \in Reachable(tree, e)
      BY <1>2, <2>1, <2>2, ReachableFromItself
    <3>. QED
      BY <2>1, <3>1
  <2>3. CASE d # from
    <3>1. PICK c \in Subs(tree, from) : d \in Reachable(tree, c)
      BY <2>3
    <3>2. c \in Blocks
      BY <3>1, SubsAreBlocks
    <3>3. Closed(tree, Reachable(tree, c))
      BY <3>2, ReachableIsClosed
    <3>4. e \in Reachable(tree, c)
      BY <1>2, <3>1, <3>3 DEF Closed
    <3>. QED
      BY <2>1, <3>1, <3>4
  <2>. QED
    BY <2>2, <2>3
<1>3. Closed(tree, S)
  BY <1>2 DEF Closed
<1>4. b \in S
  BY <1>1, <1>3 DEF Reachable
<1>. QED
  BY <1>4

(* A block that is no leaf stores what its sub blocks store.               *)
LEMMA StoredBelow ==
  ASSUME NEW tree \in AllocationGroup, NEW from \in Blocks, NEW n,
         tree.node[from].kind # "leaf", Stored(tree, from, n)
  PROVE  \E i \in 1 .. Len(tree.node[from].subs) : Stored(tree, tree.node[from].subs[i], n)
<1>1. PICK b \in Reachable(tree, from) :
        \E i \in 1 .. Len(tree.node[b].chunks) :
          tree.node[b].chunks[i] <= n /\ n < tree.node[b].chunks[i] + ChunkSize
  BY DEF Stored
<1>2. b # from
  <2>1. tree.node[from].chunks = <<>>
    BY NodeIsTyped
  <2>2. 1 .. Len(<<>>) = {}
    OBVIOUS
  <2>. QED
    BY <1>1, <2>1, <2>2
<1>3. PICK c \in Subs(tree, from) : b \in Reachable(tree, c)
  BY <1>2, ReachableThrough
<1>4. Stored(tree, c, n)
  BY <1>1, <1>3 DEF Stored
<1>. QED
  BY <1>3, <1>4 DEF Subs

(* Nothing is below a leaf.                                                *)
LEMMA StoredInLeaf ==
  ASSUME NEW tree \in AllocationGroup, NEW from \in Blocks, NEW n,
         tree.node[from].kind = "leaf"
  PROVE  Stored(tree, from, n) <=>
           \E i \in 1 .. Len(tree.node[from].chunks) :
             tree.node[from].chunks[i] <= n /\ n < tree.node[from].chunks[i] + ChunkSize
<1>1. Subs(tree, from) = {}
  <2>1. tree.node[from].subs = <<>>
    BY NodeIsTyped
  <2>2. 1 .. Len(<<>>) = {}
    OBVIOUS
  <2>. QED
    BY <2>1, <2>2 DEF Subs
<1>2. Reachable(tree, from) = {from}
  BY <1>1, ReachableThrough, ReachableFromItself
<1>. QED
  BY <1>2 DEF Stored

(* A block stores what is stored from a block that is reachable from it.   *)
LEMMA StoredAbove ==
  ASSUME NEW tree \in AllocationGroup, NEW from \in Blocks,
         NEW b \in Reachable(tree, from), NEW n, Stored(tree, b, n)
  PROVE  Stored(tree, from, n)
  BY ReachableFurther DEF Stored

(* The position is that of the last key that is not larger.                *)
LEMMA PositionIs ==
  ASSUME NEW keys \in Seq(Nat), NEW n \in Nat, NEW j \in 1 .. Len(keys),
         \A k \in 1 .. j : keys[k] <= n,
         \A k \in 1 .. Len(keys) : j < k => n < keys[k]
  PROVE  Position(keys, n) = j
<1> DEFINE P == {i \in 1 .. Len(keys) : \A k \in 1 .. i : keys[k] <= n}
<1>1. Len(keys) \in Nat /\ j \in Nat /\ j >= 1
  OBVIOUS
<1>2. ASSUME NEW i \in 1 .. Len(keys), j < i PROVE i \notin P
  <2>1. n < keys[i] /\ i \in 1 .. i /\ keys[i] \in Nat
    BY <1>2
  <2>. QED
    BY <2>1
<1>3. ASSUME NEW i \in 1 .. j PROVE i \in P
  <2>1. i \in 1 .. Len(keys) /\ 1 .. i \subseteq 1 .. j
    BY <1>1
  <2>. QED
    BY <2>1
<1>4. P = 1 .. j
  <2>1. P \subseteq 1 .. j
    BY <1>1, <1>2
  <2>. QED
    BY <1>3, <2>1
<1>5. Cardinality(1 .. j) = j
  <2>1. 1 \in Int /\ j \in Int
    BY <1>1
  <2>2. Cardinality(1 .. j) = IF 1 > j THEN 0 ELSE j - 1 + 1
    BY <2>1, FS_Interval
  <2>. QED
    BY <1>1, <2>2
<1>6. Position(keys, n) = Cardinality(P)
  BY DEF Position
<1>. HIDE DEF P
<1>. QED
  BY <1>4, <1>5, <1>6

(* In an undamaged tree the position leads to the one sub block that may   *)
(* store the inode.                                                        *)
LEMMA PositionLeads ==
  ASSUME NEW tree \in AllocationGroup, SearchTree(tree), tree.root \in Blocks,
         NEW b \in Reachable(tree, tree.root), tree.node[b].kind = "branch",
         NEW n \in 0 .. Relative - 1, Stored(tree, b, n)
  PROVE  LET i == Position(tree.node[b].keys, n)
         IN  i # 0 /\ Stored(tree, tree.node[b].subs[i], n)
<1> DEFINE keys == tree.node[b].keys
           subs == tree.node[b].subs
<1>1. b \in Blocks
  BY DEF Reachable
<1>2. keys \in Seq(Nat) /\ Len(keys) = Len(subs)
  BY <1>1, NodeIsTyped
<1>3. PICK j \in 1 .. Len(subs) : Stored(tree, subs[j], n)
  BY <1>1, StoredBelow
<1>4. n \in StoredInodes(tree, subs[j]) /\ n \in Nat
  BY <1>3, FileSystemAssumption DEF StoredInodes
<1>5. /\ \A i, k \in 1 .. Len(keys) : i < k => keys[i] < keys[k]
      /\ \A k \in 1 .. Len(keys) : j < k => n < keys[k]
      /\ keys[j] <= n
  BY <1>2, <1>3, <1>4 DEF SearchTree
<1>6. j \in 1 .. Len(keys) /\ Len(keys) \in Nat
  BY <1>2, <1>3, SequenceElements
<1>. HIDE DEF keys, subs
<1>7. ASSUME NEW k \in 1 .. j PROVE keys[k] <= n
  <2>1. k \in 1 .. Len(keys) /\ (k = j \/ k < j)
    BY <1>6
  <2>2. keys[k] \in Nat /\ keys[j] \in Nat
    BY <1>2, <1>6, <2>1, SequenceElements
  <2>3. keys[k] <= keys[j]
    BY <1>5, <1>6, <2>1, <2>2
  <2>. QED
    BY <1>4, <1>5, <2>2, <2>3
<1>8. Position(keys, n) = j
  <2>1. \A k \in 1 .. j : keys[k] <= n
    BY <1>7
  <2>2. \A k \in 1 .. Len(keys) : j < k => n < keys[k]
    BY <1>5
  <2>3. keys \in Seq(Nat) /\ n \in Nat /\ j \in 1 .. Len(keys)
    BY <1>2, <1>4, <1>6
  <2>. QED
    BY <2>1, <2>2, <2>3, PositionIs
<1>9. j # 0
  BY <1>6
<1>. QED
  BY <1>3, <1>8, <1>9 DEF keys, subs

------------------------------------------------------------------------------

(* Nothing is answered before the volume is open.                          *)
Unanswered == phase \in {"opening", "failed"} => answer = "none"

(* A search stays in what is reachable from where it began.                *)
InTree ==
  phase = "node" =>
    /\ GroupIndex(number) \in 1 .. Len(infos)
    /\ block \in Reachable(Tree, SearchRoot)

(* An information is appended at most once for every group visited.        *)
InfosFit == Len(infos) < next

(* The inductive invariant.                                                *)
FileSystemInv == FileSystemTypeOK /\ InfosFit /\ Unanswered /\ InTree /\ DepthBounded /\ FoundIsStored

(* The index of an information is the number of a group.                   *)
LEMMA IndexIsGroup ==
  ASSUME FileSystemTypeOK, InfosFit, NEW g \in 1 .. Len(infos)
  PROVE  g \in 1 .. Groups
<1>1. Len(infos) \in Nat /\ next \in 1 .. Groups + 1 /\ Groups \in Nat
  BY SequenceElements, FileSystemAssumption DEF FileSystemTypeOK
<1>. QED
  BY <1>1 DEF InfosFit

(* Where the search is: a readable tree and a block of it.                 *)
LEMMA SearchIsTyped ==
  ASSUME FileSystemTypeOK, InfosFit, InTree, phase = "node"
  PROVE  /\ GroupIndex(number) \in 1 .. Len(infos)
         /\ Tree \in AllocationGroup
         /\ SearchRoot \in Blocks
         /\ block \in Reachable(Tree, SearchRoot)
         /\ Tree.node[block] \in Node
         /\ RelativeNumber(number) \in 0 .. Relative - 1
<1>1. GroupIndex(number) \in 1 .. Len(infos) /\ block \in Reachable(Tree, SearchRoot)
  BY DEF InTree
<1>2. infos[GroupIndex(number)] \in 1 .. Groups
  BY <1>1, SequenceElements DEF FileSystemTypeOK
<1>7. GroupIndex(number) \in 1 .. Groups
  BY <1>1, IndexIsGroup
<1>3. Tree \in AllocationGroup
  BY <1>7, TreeIsTyped DEF FileSystemTypeOK, Tree
<1>4. Tree.node[block] \in Node /\ SearchRoot \in Blocks
  BY <1>2, <1>3, TreeIsTyped DEF FileSystemTypeOK, AllocationGroup, SearchRoot
<1>5. number \in Nat
  BY FileSystemAssumption DEF FileSystemTypeOK
<1>6. RelativeNumber(number) \in 0 .. Relative - 1
  BY <1>5, FileSystemAssumption, Arithmetic DEF RelativeNumber
<1>. QED
  BY <1>1, <1>3, <1>4, <1>6

LEMMA InitHolds == FileSystemInit => FileSystemInv
<1> SUFFICES ASSUME FileSystemInit PROVE FileSystemInv
  OBVIOUS
<1>1. image[1] \in AllocationGroup /\ 1 \in 1 .. Groups
  BY FileSystemAssumption, TreeIsTyped DEF FileSystemInit
<1>2. block \in Blocks
  BY <1>1 DEF FileSystemInit, AllocationGroup
<1>3. Groups * Relative \in Nat
  BY FileSystemAssumption
<1>4. FileSystemTypeOK
  BY <1>2, <1>3, FileSystemAssumption, SequenceElements DEF FileSystemInit, FileSystemTypeOK
<1>5. DepthBounded
  BY FileSystemAssumption DEF FileSystemInit, DepthBounded
<1>6. InfosFit
  BY DEF FileSystemInit, InfosFit
<1>. QED
  BY <1>4, <1>5, <1>6 DEF FileSystemInit, FileSystemInv, Unanswered, InTree, FoundIsStored

LEMMA OpeningSteps ==
  ASSUME FileSystemInv, ReadGroup \/ Opened
  PROVE  FileSystemInv'
<1> USE DEF FileSystemInv
<1>1. answer' = "none" /\ phase' # "node" /\ depth' = depth
  BY DEF ReadGroup, Opened, Unanswered
<1>2. FileSystemTypeOK'
  <2>1. CASE ReadGroup
    <3>1. next \in 1 .. Groups
      BY <2>1, FileSystemAssumption DEF FileSystemTypeOK, ReadGroup
    <3>2. infos' \in Seq(1 .. Groups)
      <4>1. infos' \in {infos, Append(infos, next), <<>>}
        BY <2>1 DEF ReadGroup
      <4>2. infos \in Seq(1 .. Groups)
        BY DEF FileSystemTypeOK
      <4>3. /\ Append(infos, next) \in Seq(1 .. Groups)
            /\ <<>> \in Seq(1 .. Groups)
        <5> DEFINE S == 1 .. Groups
        <5> HIDE DEF S
        <5>1. infos \in Seq(S) /\ next \in S
          BY <3>1, <4>2 DEF S
        <5>2. Append(infos, next) \in Seq(S) /\ <<>> \in Seq(S)
          BY <5>1, SequenceElements
        <5>. QED
          BY <5>2 DEF S
      <4>. QED
        BY <4>1, <4>2, <4>3
    <3>3. next' = next \/ next' = next + 1
      BY <2>1 DEF ReadGroup
    <3>6. phase' = phase \/ phase' = "failed"
      BY <2>1 DEF ReadGroup
    <3>4. next' \in 1 .. Groups + 1
      BY <3>1, <3>3, FileSystemAssumption
    <3>5. UNCHANGED <<image, number, block, depth, answer>>
      BY <2>1 DEF ReadGroup
    <3>. QED
      BY <3>2, <3>4, <3>5, <3>6 DEF FileSystemTypeOK
  <2>2. CASE Opened
    BY <2>2 DEF FileSystemTypeOK, Opened
  <2>. QED
    BY <2>1, <2>2
<1>3. InfosFit'
  <2>1. /\ next \in Nat /\ Len(infos) \in Nat /\ Len(infos) < next
        /\ infos \in Seq(1 .. Groups)
    BY FileSystemAssumption, SequenceElements DEF FileSystemTypeOK, InfosFit
  <2>2. CASE ReadGroup
    <3>1. next \in 1 .. Groups
      BY <2>2, FileSystemAssumption DEF FileSystemTypeOK, ReadGroup
    <3>2. CASE infos' = <<>> /\ next' \in {next, next + 1}
      BY <2>1, <3>2 DEF InfosFit
    <3>3. CASE infos' = infos /\ next' = next + 1
      BY <2>1, <3>3 DEF InfosFit
    <3>4. CASE infos' = Append(infos, next) /\ next' = next + 1
      <4>1. Len(infos') = Len(infos) + 1
        BY <2>1, <3>1, <3>4, SequenceElements
      <4>. QED
        BY <2>1, <3>4, <4>1 DEF InfosFit
    <3>. QED
      BY <2>2, <3>2, <3>3, <3>4 DEF ReadGroup
  <2>3. CASE Opened
    BY <2>1, <2>3 DEF InfosFit, Opened
  <2>. QED
    BY <2>2, <2>3
<1>. QED
  BY <1>1, <1>2, <1>3 DEF Unanswered, InTree, DepthBounded, FoundIsStored

LEMMA LookupBegins ==
  ASSUME FileSystemInv, NEW n \in 0 .. Groups * Relative, Begin(n)
  PROVE  FileSystemInv'
<1> USE DEF FileSystemInv
<1>10. Relative \in Nat \ {0} /\ Groups * Relative \in Nat
  BY FileSystemAssumption
<1>11. n \in Nat
  BY <1>10
<1>1. n \in Nat /\ n \div Relative \in Nat
  BY <1>10, <1>11, Arithmetic
<1>2. GroupIndex(n) \in 1 .. Len(infos)
  BY <1>1 DEF Begin, GroupIndex, FileSystemTypeOK
<1>3. infos[GroupIndex(n)] \in 1 .. Groups
  BY <1>2, SequenceElements DEF FileSystemTypeOK
<1>4. image[infos[GroupIndex(n)]].root \in Blocks
  BY <1>3, TreeIsTyped DEF FileSystemTypeOK, AllocationGroup
<1>5. FileSystemTypeOK'
  BY <1>4 DEF FileSystemTypeOK, Begin
<1>6. block' = SearchRoot' /\ SearchRoot' = image[infos[GroupIndex(n)]].root
  BY DEF Begin, SearchRoot
<1>7. block' \in Reachable(Tree', SearchRoot')
  BY <1>4, <1>6, ReachableFromItself
<1>8. InTree'
  BY <1>2, <1>7 DEF InTree, Begin
<1>9. DepthBounded'
  BY FileSystemAssumption DEF DepthBounded, Begin
<1>. QED
  BY <1>5, <1>8, <1>9 DEF Begin, InfosFit, Unanswered, FoundIsStored

LEMMA RefuseStep ==
  ASSUME FileSystemInv, NEW n \in 0 .. Groups * Relative, Refuse(n)
  PROVE  FileSystemInv'
<1>1. FileSystemTypeOK'
  BY DEF FileSystemInv, FileSystemTypeOK, Refuse
<1>. QED
  BY <1>1 DEF FileSystemInv, Refuse, InfosFit, Unanswered, InTree, DepthBounded, FoundIsStored

LEMMA VisitLeafStep ==
  ASSUME FileSystemInv, VisitLeaf
  PROVE  FileSystemInv'
<1> DEFINE chunks == Tree.node[block].chunks
           rel == RelativeNumber(number)
<1>1. phase = "node" /\ FileSystemTypeOK /\ InfosFit /\ InTree
  BY DEF FileSystemInv, VisitLeaf
<1>2. /\ GroupIndex(number) \in 1 .. Len(infos)
      /\ block \in Reachable(Tree, SearchRoot)
      /\ Tree.node[block] \in Node
      /\ rel \in 0 .. Relative - 1
  BY <1>1, SearchIsTyped
<1>3. UNCHANGED <<image, infos, next, number, block, depth>> /\ phase' = "ready"
  BY DEF VisitLeaf, Answer
<1>4. answer' \in {"found", "missing"}
  BY DEF VisitLeaf, Answer
<1>5. ASSUME answer' = "found" PROVE Stored(Tree, SearchRoot, rel)
  <2>1. PICK i \in 1 .. Len(chunks) : InChunk(rel, chunks[i])
    BY <1>5 DEF VisitLeaf, Answer
  <2>2. chunks \in Seq(Nat)
    BY <1>2 DEF Node
  <2>3. chunks[i] \in Nat
    BY <2>2, SequenceElements
  <2>4. chunks[i] + ChunkSize \in Nat
    BY <2>3, FileSystemAssumption
  <2>5. /\ (chunks[i] + ChunkSize) % Width <= chunks[i] + ChunkSize
        /\ (chunks[i] + ChunkSize) % Width \in 0 .. Width - 1
    BY <2>4, FileSystemAssumption, Arithmetic
  <2>6. chunks[i] <= rel /\ rel < chunks[i] + ChunkSize
    <3>. HIDE DEF chunks, rel
    <3>1. rel \in Int /\ Width \in Nat
      BY <1>2, FileSystemAssumption
    <3>. QED
      BY <2>1, <2>3, <2>4, <2>5, <3>1 DEF InChunk
  <2>. QED
    BY <1>2, <2>1, <2>6 DEF Stored
<1>6. FileSystemTypeOK'
  BY <1>1, <1>3, <1>4 DEF FileSystemTypeOK
<1>7. FoundIsStored'
  <2>1. Tree' = Tree /\ SearchRoot' = SearchRoot /\ RelativeNumber(number') = rel /\ GroupIndex(number') = GroupIndex(number)
    BY <1>3 DEF Tree, SearchRoot, GroupIndex
  <2>. QED
    BY <1>2, <1>3, <1>5, <2>1 DEF FoundIsStored, StoredInodes
<1>. QED
  BY <1>3, <1>6, <1>7 DEF FileSystemInv, InfosFit, Unanswered, InTree, DepthBounded

LEMMA VisitBadStep ==
  ASSUME FileSystemInv, VisitBad
  PROVE  FileSystemInv'
<1>1. FileSystemTypeOK'
  BY DEF FileSystemInv, FileSystemTypeOK, VisitBad, Answer
<1>. QED
  BY <1>1 DEF FileSystemInv, VisitBad, Answer, InfosFit, Unanswered, InTree, DepthBounded,
    FoundIsStored

LEMMA VisitBranchStep ==
  ASSUME FileSystemInv, VisitBranch
  PROVE  FileSystemInv'
<1> DEFINE node == Tree.node[block]
           i == Position(node.keys, RelativeNumber(number))
<1>1. phase = "node" /\ FileSystemTypeOK /\ InfosFit /\ InTree
  BY DEF FileSystemInv, VisitBranch
<1>2. /\ GroupIndex(number) \in 1 .. Len(infos)
      /\ Tree \in AllocationGroup
      /\ SearchRoot \in Blocks
      /\ block \in Reachable(Tree, SearchRoot)
      /\ node \in Node
      /\ RelativeNumber(number) \in 0 .. Relative - 1
  BY <1>1, SearchIsTyped
<1>3. CASE Answer("error") \/ Answer("missing")
  <2>1. FileSystemTypeOK'
    BY <1>1, <1>3 DEF FileSystemTypeOK, Answer
  <2>. QED
    BY <1>3, <2>1 DEF FileSystemInv, Answer, InfosFit, Unanswered, InTree, DepthBounded,
      FoundIsStored
<1>4. ASSUME depth <= MaxDepth, i # 0,
             block' = node.subs[i], depth' = depth + 1,
             UNCHANGED <<image, infos, next, phase, number, answer>>
      PROVE  FileSystemInv'
  <2>1. /\ node.keys \in Seq(Nat) /\ node.subs \in Seq(Blocks)
        /\ Len(node.keys) = Len(node.subs)
    BY <1>2 DEF Node
  <2>2. i \in 0 .. Len(node.keys)
    <3>1. RelativeNumber(number) \in Nat
      BY <1>2, FileSystemAssumption
    <3>. QED
      BY <2>1, <3>1, PositionInBounds
  <2>3. i \in 1 .. Len(node.subs)
    <3>. HIDE DEF i
    <3>1. Len(node.subs) \in Nat
      BY <2>1, SequenceElements
    <3>. QED
      BY <1>4, <2>1, <2>2, <3>1
  <2>4. block' \in Blocks
    BY <1>4, <2>1, <2>3, SequenceElements
  <2>5. block' \in Reachable(Tree, SearchRoot)
    BY <1>2, <1>4, <2>3, ReachableBelow
  <2>6. FileSystemTypeOK'
    BY <1>1, <1>4, <2>4 DEF FileSystemTypeOK
  <2>7. Tree' = Tree /\ SearchRoot' = SearchRoot /\ GroupIndex(number') = GroupIndex(number)
    BY <1>4 DEF Tree, SearchRoot, GroupIndex
  <2>8. InTree'
    BY <1>2, <1>4, <2>5, <2>7 DEF InTree
  <2>9. DepthBounded'
    BY <1>1, <1>4, FileSystemAssumption DEF DepthBounded, FileSystemTypeOK
  <2>10. InfosFit' /\ Unanswered' /\ FoundIsStored'
    BY <1>1, <1>4, <2>7 DEF FileSystemInv, InfosFit, Unanswered, FoundIsStored
  <2>. QED
    BY <2>6, <2>8, <2>9, <2>10 DEF FileSystemInv
<1>5. \/ Answer("error") \/ Answer("missing")
      \/ /\ ~(depth > MaxDepth) /\ i # 0
         /\ block' = node.subs[i] /\ depth' = depth + 1
         /\ UNCHANGED <<image, infos, next, phase, number, answer>>
  BY DEF VisitBranch
<1>6. depth > MaxDepth \/ depth <= MaxDepth
  BY <1>1, FileSystemAssumption DEF FileSystemTypeOK
<1>. QED
  BY <1>3, <1>4, <1>5, <1>6

LEMMA NextPreserves == FileSystemInv /\ [FileSystemNext]_fileSystemVars => FileSystemInv'
<1> SUFFICES ASSUME FileSystemInv, [FileSystemNext]_fileSystemVars PROVE FileSystemInv'
  OBVIOUS
<1>1. ASSUME UNCHANGED fileSystemVars PROVE FileSystemInv'
  BY <1>1 DEF fileSystemVars, FileSystemInv, FileSystemTypeOK, InfosFit, Unanswered, InTree,
    DepthBounded, FoundIsStored, Tree, SearchRoot, GroupIndex, RelativeNumber
<1>2. CASE Failed
  BY <1>1, <1>2 DEF Failed
<1>. QED
  BY <1>1, <1>2, OpeningSteps, LookupBegins, RefuseStep, VisitBadStep, VisitLeafStep,
     VisitBranchStep
  DEF FileSystemNext, Visit

------------------------------------------------------------------------------

THEOREM FileSystemSafety == FileSystemSpec => []FileSystemInv
  BY InitHolds, NextPreserves, PTL DEF FileSystemSpec

(* Type correctness of the lookup.                                         *)
THEOREM FileSystemTypeCorrect == FileSystemSpec => []FileSystemTypeOK
<1>1. FileSystemInv => FileSystemTypeOK
  BY DEF FileSystemInv
<1>. QED
  BY <1>1, FileSystemSafety, PTL

(* No image makes the recursion deeper than the limit: the stack is        *)
(* bounded also in a tree whose blocks lead back to themselves.            *)
THEOREM StackIsBounded == FileSystemSpec => []DepthBounded
<1>1. FileSystemInv => DepthBounded
  BY DEF FileSystemInv
<1>. QED
  BY <1>1, FileSystemSafety, PTL

(* Whatever the image holds, the inode a lookup finds is in a chunk of a   *)
(* leaf of its own group that can be reached from where the search began.  *)
THEOREM NothingIsMadeUp == FileSystemSpec => []FoundIsStored
<1>1. FileSystemInv => FoundIsStored
  BY DEF FileSystemInv
<1>. QED
  BY <1>1, FileSystemSafety, PTL

------------------------------------------------------------------------------
(* Undamaged images                                                        *)

(* The search of an undamaged tree goes where the inode is, if anywhere,   *)
(* and the levels left fit in what is left of the recursion.               *)
Narrowed ==
  /\ Stored(Tree, Tree.root, RelativeNumber(number)) =>
       Stored(Tree, block, RelativeNumber(number))
  /\ \E level \in Levels : Descends(Tree, level) /\ depth + level[block] <= MaxDepth

(* On an undamaged image the open does not fail, every information is at   *)
(* the index of its group and a search narrows down.                       *)
Exact ==
  image \in UndamagedImages =>
    /\ phase # "failed"
    /\ Len(infos) = next - 1
    /\ \A g \in 1 .. Len(infos) : infos[g] = g
    /\ phase \in {"ready", "node"} => next = Groups + 1
    /\ phase = "node" => answer = "none" /\ Narrowed

LEMMA UndamagedIs ==
  ASSUME NEW img \in UndamagedImages, NEW g \in 1 .. Groups
  PROVE  /\ img[g] \in AllocationGroup /\ img[g].root \in Blocks
         /\ img[g].superblock /\ img[g].information
         /\ SearchTree(img[g])
<1>1. img \in Images
  BY DEF UndamagedImages
<1>2. img[g] \in AllocationGroup
  BY <1>1, TreeIsTyped
<1>. QED
  BY <1>2 DEF UndamagedImages, AllocationGroup

(* A number that is accepted is of a group.                                *)
LEMMA NumberHasGroup ==
  ASSUME NEW n \in 1 .. Groups * Relative - 1
  PROVE  GroupIndex(n) \in 1 .. Groups
<1>1. Groups \in Nat /\ Relative \in Nat \ {0} /\ Groups * Relative \in Nat
  BY FileSystemAssumption
<1> DEFINE q == n \div Relative
           r == n % Relative
<1>2. q \in Nat /\ r \in Nat /\ n = q * Relative + r /\ q * Relative \in Nat
  <2>1. n \in Nat
    BY <1>1
  <2>2. q \in Nat /\ r \in Nat
    BY <1>1, <2>1, Arithmetic
  <2>3. n = q * Relative + r
    BY <1>1, <2>1
  <2>. QED
    BY <1>1, <2>2, <2>3
<1>. HIDE DEF q, r
<1>3. ASSUME q >= Groups PROVE FALSE
  <2> DEFINE d == q - Groups
  <2>1. d \in Nat /\ q = Groups + d
    BY <1>1, <1>2, <1>3
  <2>. HIDE DEF d
  <2>2. d * Relative \in Nat /\ q * Relative = Groups * Relative + d * Relative
    BY <1>1, <2>1
  <2>. QED
    BY <1>1, <1>2, <2>2
<1>4. q + 1 \in 1 .. Groups
  BY <1>1, <1>2, <1>3
<1>. QED
  BY <1>4 DEF GroupIndex, q

(* Where a search of an undamaged tree is.                                 *)
LEMMA SearchIsExact ==
  ASSUME FileSystemInv, Exact, image \in UndamagedImages, phase = "node"
  PROVE  /\ Tree \in AllocationGroup /\ Tree.root \in Blocks /\ SearchTree(Tree)
         /\ block \in Blocks /\ block \in Reachable(Tree, Tree.root)
         /\ Tree.node[block].kind # "bad"
         /\ RelativeNumber(number) \in 0 .. Relative - 1
         /\ RelativeNumber(number) \in Nat
         /\ Narrowed
<1>1. FileSystemTypeOK /\ InfosFit /\ InTree
  BY DEF FileSystemInv
<1>2. /\ GroupIndex(number) \in 1 .. Len(infos)
      /\ block \in Reachable(Tree, SearchRoot)
      /\ RelativeNumber(number) \in 0 .. Relative - 1
  BY <1>1, SearchIsTyped
<1>3. GroupIndex(number) \in 1 .. Groups
  BY <1>1, <1>2, IndexIsGroup
<1>4. Tree \in AllocationGroup /\ Tree.root \in Blocks /\ SearchTree(Tree)
  BY <1>3, UndamagedIs DEF Tree
<1>5. SearchRoot = Tree.root
  BY <1>2 DEF Exact, SearchRoot, Tree
<1>6. block \in Blocks
  BY <1>1 DEF FileSystemTypeOK
<1>7. Tree.node[block].kind # "bad"
  BY <1>2, <1>4, <1>5 DEF SearchTree
<1>8. RelativeNumber(number) \in Nat
  BY <1>2, FileSystemAssumption
<1>. QED
  BY <1>2, <1>4, <1>5, <1>6, <1>7, <1>8 DEF Exact

ExactInv == Exact /\ AllocatedIsFound

LEMMA OpeningIsExact ==
  ASSUME FileSystemInv, ExactInv, ReadGroup \/ Opened
  PROVE  ExactInv'
<1>1. AllocatedIsFound'
  BY DEF FileSystemInv, Unanswered, AllocatedIsFound, ReadGroup, Opened
<1>2. Exact'
  <2> SUFFICES ASSUME image \in UndamagedImages
               PROVE  /\ phase' # "failed"
                      /\ Len(infos') = next' - 1
                      /\ \A g \in 1 .. Len(infos') : infos'[g] = g
                      /\ phase' \in {"ready", "node"} => next' = Groups + 1
                      /\ phase' # "node"
    BY DEF Exact, ReadGroup, Opened
  <2>1. /\ Len(infos) = next - 1 /\ infos \in Seq(1 .. Groups) /\ next \in 1 .. Groups + 1
        /\ \A g \in 1 .. Len(infos) : infos[g] = g
    BY DEF FileSystemInv, FileSystemTypeOK, ExactInv, Exact
  <2>2. CASE ReadGroup
    <3>1. next \in 1 .. Groups
      BY <2>1, <2>2, FileSystemAssumption DEF ReadGroup
    <3>2. infos' = Append(infos, next) /\ next' = next + 1 /\ phase' = "opening"
      BY <2>2, <3>1, UndamagedIs DEF ReadGroup
    <3> DEFINE S == 1 .. Groups
    <3>3. infos \in Seq(S) /\ next \in S
      BY <2>1, <3>1
    <3>. HIDE DEF S
    <3>4. /\ Len(infos) \in Nat
          /\ Len(Append(infos, next)) = Len(infos) + 1
          /\ \A i \in 1 .. Len(infos) : Append(infos, next)[i] = infos[i]
      BY <3>3, SequenceElements
    <3>5. Append(infos, next)[Len(infos) + 1] = next
      BY <3>3
    <3>6. next \in Nat
      BY <2>1, FileSystemAssumption
    <3>7. ASSUME NEW g \in 1 .. Len(infos) + 1 PROVE Append(infos, next)[g] = g
      <4>1. CASE g \in 1 .. Len(infos)
        BY <2>1, <3>4, <4>1
      <4>2. CASE g = Len(infos) + 1
        BY <2>1, <3>4, <3>5, <3>6, <4>2
      <4>. QED
        BY <3>4, <4>1, <4>2
    <3>. QED
      BY <2>1, <3>2, <3>4, <3>6, <3>7
  <2>3. CASE Opened
    <3>1. next = Groups + 1
      BY <2>1, <2>3, FileSystemAssumption DEF Opened
    <3>. QED
      BY <2>1, <2>3, <3>1 DEF Opened
  <2>. QED
    BY <2>2, <2>3
<1>. QED
  BY <1>1, <1>2 DEF ExactInv

(* A lookup begins at the root of its own group.                           *)
LEMMA BeginIsExact ==
  ASSUME FileSystemInv, ExactInv, NEW n \in 0 .. Groups * Relative, Begin(n)
  PROVE  ExactInv'
<1>1. AllocatedIsFound'
  BY DEF AllocatedIsFound, Begin
<1>2. Exact'
  <2> SUFFICES ASSUME image \in UndamagedImages PROVE Narrowed'
    BY DEF ExactInv, Exact, Begin
  <2>1. GroupIndex(n) \in 1 .. Len(infos)
    <3>1. n \in Nat /\ Relative \in Nat \ {0}
      BY FileSystemAssumption
    <3>2. n \div Relative \in Nat /\ Len(infos) \in Nat
      BY <3>1, Arithmetic, SequenceElements DEF FileSystemInv, FileSystemTypeOK
    <3>. QED
      BY <3>2 DEF Begin, GroupIndex
  <2>2. GroupIndex(n) \in 1 .. Groups
    BY <2>1, IndexIsGroup DEF FileSystemInv
  <2>3. /\ Tree' = image[GroupIndex(n)] /\ block' = image[GroupIndex(n)].root
        /\ depth' = 0
    BY <2>1 DEF ExactInv, Exact, Begin, Tree
  <2>4. PICK level \in Levels : Descends(image[GroupIndex(n)], level)
    BY <2>2, UndamagedIs DEF SearchTree
  <2>5. 0 + level[image[GroupIndex(n)].root] <= MaxDepth
    <3>1. image[GroupIndex(n)].root \in Blocks
      BY <2>2, UndamagedIs
    <3>2. level[image[GroupIndex(n)].root] \in 0 .. MaxDepth
      BY <3>1 DEF Levels
    <3>. QED
      BY <3>2, FileSystemAssumption
  <2>. QED
    BY <2>3, <2>4, <2>5 DEF Narrowed
<1>. QED
  BY <1>1, <1>2 DEF ExactInv

(* The numbers that are refused are not accepted ones.                     *)
LEMMA RefuseIsExact ==
  ASSUME FileSystemInv, ExactInv, NEW n \in 0 .. Groups * Relative, Refuse(n)
  PROVE  ExactInv'
<1>1. Exact'
  BY DEF ExactInv, Exact, Refuse
<1>2. AllocatedIsFound'
  <2> SUFFICES ASSUME image \in UndamagedImages, n \in 1 .. Groups * Relative - 1, n <= MaxInode
               PROVE  FALSE
    BY DEF AllocatedIsFound, Refuse
  <2>1. Len(infos) = Groups
    BY FileSystemAssumption DEF ExactInv, Exact, Refuse
  <2>2. GroupIndex(n) \in 1 .. Groups
    BY NumberHasGroup
  <2>3. n # 0 /\ n \in Nat
    BY FileSystemAssumption
  <2>4. n > MaxInode \/ GroupIndex(n) > Len(infos)
    BY <2>3 DEF Refuse
  <2>. QED
    BY <2>1, <2>2, <2>3, <2>4, FileSystemAssumption
<1>. QED
  BY <1>1, <1>2 DEF ExactInv

(* An answer of a visit leaves the rest alone.                             *)
LEMMA AnswerIsExact ==
  ASSUME FileSystemInv, ExactInv, phase = "node", NEW a, Answer(a),
         image \in UndamagedImages =>
           a = IF RelativeNumber(number) \in StoredInodes(Tree, Tree.root)
               THEN "found" ELSE "missing"
  PROVE  ExactInv'
<1>1. Exact'
  BY DEF ExactInv, Exact, Answer
<1>2. AllocatedIsFound'
  BY DEF AllocatedIsFound, Answer, Tree
<1>. QED
  BY <1>1, <1>2 DEF ExactInv

LEMMA LeafIsExact ==
  ASSUME FileSystemInv, ExactInv, VisitLeaf
  PROVE  ExactInv'
<1> DEFINE chunks == Tree.node[block].chunks
           rel == RelativeNumber(number)
           a == IF \E i \in 1 .. Len(chunks) : InChunk(rel, chunks[i]) THEN "found" ELSE "missing"
<1>1. phase = "node" /\ Answer(a)
  BY DEF VisitLeaf
<1>2. ASSUME image \in UndamagedImages
      PROVE  (\E i \in 1 .. Len(chunks) : InChunk(rel, chunks[i])) <=>
               rel \in StoredInodes(Tree, Tree.root)
  <2>1. /\ Tree \in AllocationGroup /\ Tree.root \in Blocks /\ SearchTree(Tree)
        /\ block \in Blocks /\ block \in Reachable(Tree, Tree.root)
        /\ rel \in 0 .. Relative - 1 /\ rel \in Nat /\ Narrowed
    BY <1>1, <1>2, SearchIsExact DEF ExactInv
  <2>2. Stored(Tree, block, rel) <=>
          \E i \in 1 .. Len(chunks) : chunks[i] <= rel /\ rel < chunks[i] + ChunkSize
    BY <2>1, StoredInLeaf DEF VisitLeaf
  <2>3. Stored(Tree, Tree.root, rel) <=> Stored(Tree, block, rel)
    BY <2>1, StoredAbove DEF Narrowed
  <2>4. ASSUME NEW i \in 1 .. Len(chunks)
        PROVE  InChunk(rel, chunks[i]) <=> chunks[i] <= rel /\ rel < chunks[i] + ChunkSize
    <3>1. chunks \in Seq(Nat)
      BY <2>1, NodeIsTyped
    <3>2. chunks[i] \in Nat
      BY <3>1
    <3>3. chunks[i] + ChunkSize < Width
      BY <2>1 DEF SearchTree
    <3>. HIDE DEF chunks, rel
    <3>4. (chunks[i] + ChunkSize) % Width = chunks[i] + ChunkSize
      <4> DEFINE m == chunks[i] + ChunkSize
      <4>1. m \in 0 .. Width - 1 /\ Width \in Nat \ {0}
        BY <3>2, <3>3, FileSystemAssumption
      <4>. HIDE DEF m
      <4>2. m % Width = m
        BY <4>1
      <4>. QED
        BY <4>2 DEF m
    <3>. QED
      BY <2>1, <3>2, <3>4, FileSystemAssumption DEF InChunk
  <2>5. rel \in StoredInodes(Tree, Tree.root) <=> Stored(Tree, Tree.root, rel)
    BY <2>1 DEF StoredInodes
  <2>. HIDE DEF chunks, rel
  <2>. QED
    BY <2>2, <2>3, <2>4, <2>5
<1>3. image \in UndamagedImages => a = IF rel \in StoredInodes(Tree, Tree.root) THEN "found" ELSE "missing"
  BY <1>2
<1>. HIDE DEF a
<1>. QED
  BY <1>1, <1>3, AnswerIsExact

LEMMA BadIsExact ==
  ASSUME FileSystemInv, ExactInv, VisitBad
  PROVE  ExactInv'
<1>1. phase = "node" /\ Answer("error") /\ Tree.node[block].kind = "bad"
  BY DEF VisitBad
<1>2. image \notin UndamagedImages
  BY <1>1, SearchIsExact DEF ExactInv
<1>. QED
  BY <1>1, <1>2, AnswerIsExact

LEMMA BranchIsExact ==
  ASSUME FileSystemInv, ExactInv, VisitBranch
  PROVE  ExactInv'
<1> DEFINE node == Tree.node[block]
           rel == RelativeNumber(number)
           i == Position(node.keys, rel)
<1>1. phase = "node" /\ node.kind = "branch"
  BY DEF VisitBranch
<1>2. ASSUME image \in UndamagedImages
      PROVE  /\ depth <= MaxDepth
             /\ i = 0 => rel \notin StoredInodes(Tree, Tree.root)
             /\ i # 0 => /\ Stored(Tree, Tree.root, rel) => Stored(Tree, node.subs[i], rel)
                         /\ \E level \in Levels : /\ Descends(Tree, level)
                                                  /\ depth + 1 + level[node.subs[i]] <= MaxDepth
  <2>1. /\ Tree \in AllocationGroup /\ Tree.root \in Blocks /\ SearchTree(Tree)
        /\ block \in Blocks /\ block \in Reachable(Tree, Tree.root)
        /\ rel \in 0 .. Relative - 1 /\ rel \in Nat /\ Narrowed
    BY <1>1, <1>2, SearchIsExact DEF ExactInv
  <2>2. PICK level \in Levels : Descends(Tree, level) /\ depth + level[block] <= MaxDepth
    BY <2>1 DEF Narrowed
  <2>3. level[block] \in Nat /\ depth \in Nat /\ MaxDepth \in Nat
    BY <2>1, <2>2, FileSystemAssumption DEF Levels, FileSystemInv, FileSystemTypeOK
  <2>4. depth <= MaxDepth
    BY <2>2, <2>3
  <2>5. Stored(Tree, Tree.root, rel) => i # 0 /\ Stored(Tree, node.subs[i], rel)
    BY <1>1, <2>1, PositionLeads DEF Narrowed
  <2>6. i = 0 => rel \notin StoredInodes(Tree, Tree.root)
    BY <2>5 DEF StoredInodes
  <2>7. ASSUME i # 0 PROVE depth + 1 + level[node.subs[i]] <= MaxDepth
    <3>1. /\ node.keys \in Seq(Nat) /\ node.subs \in Seq(Blocks)
          /\ Len(node.keys) = Len(node.subs) /\ Len(node.keys) \in Nat
      BY <2>1, NodeIsTyped, SequenceElements
    <3>2. i \in 0 .. Len(node.keys)
      BY <2>1, <3>1, PositionInBounds
    <3>3. i \in 1 .. Len(node.subs)
      <4>. HIDE DEF i
      <4>. QED
        BY <2>7, <3>1, <3>2
    <3>4. node.subs[i] \in Subs(Tree, block) /\ node.subs[i] \in Blocks
      BY <3>1, <3>3, SequenceElements DEF Subs
    <3>5. level[node.subs[i]] < level[block] /\ level[node.subs[i]] \in Nat
      BY <2>1, <2>2, <3>4, FileSystemAssumption DEF Descends, Levels
    <3>. HIDE DEF node, i
    <3>. QED
      BY <2>2, <2>3, <3>5
  <2>. QED
    BY <2>2, <2>4, <2>5, <2>6, <2>7
<1>3. CASE depth > MaxDepth /\ Answer("error")
  <2>1. image \notin UndamagedImages
    BY <1>2, <1>3, FileSystemAssumption DEF FileSystemInv, FileSystemTypeOK
  <2>. QED
    BY <1>1, <1>3, <2>1, AnswerIsExact
<1>4. CASE i = 0 /\ Answer("missing")
  BY <1>1, <1>2, <1>4, AnswerIsExact
<1>5. ASSUME i # 0, block' = node.subs[i], depth' = depth + 1,
             UNCHANGED <<image, infos, next, phase, number, answer>>
      PROVE  ExactInv'
  <2>1. Tree' = Tree /\ RelativeNumber(number') = rel
    BY <1>5 DEF Tree, GroupIndex
  <2>2. image \in UndamagedImages => Narrowed'
    BY <1>2, <1>5, <2>1 DEF Narrowed
  <2>3. Exact'
    BY <1>5, <2>2 DEF ExactInv, Exact
  <2>4. AllocatedIsFound'
    BY <1>5 DEF ExactInv, AllocatedIsFound
  <2>. QED
    BY <2>3, <2>4 DEF ExactInv
<1>6. \/ depth > MaxDepth /\ Answer("error")
      \/ i = 0 /\ Answer("missing")
      \/ /\ i # 0 /\ block' = node.subs[i] /\ depth' = depth + 1
         /\ UNCHANGED <<image, infos, next, phase, number, answer>>
  BY DEF VisitBranch
<1>. QED
  BY <1>3, <1>4, <1>5, <1>6

(* On an undamaged image a lookup of any number that is accepted finds the *)
(* inode if and only if it is in a chunk of the tree of its own group.     *)
THEOREM AllocatedAreFound == FileSystemSpec => []AllocatedIsFound
<1>1. FileSystemInit => ExactInv
  <2> SUFFICES ASSUME FileSystemInit PROVE ExactInv
    OBVIOUS
  <2>1. Len(<<>>) = 1 - 1 /\ 1 .. Len(<<>>) = {}
    OBVIOUS
  <2>2. Exact
    BY <2>1 DEF FileSystemInit, Exact
  <2>3. AllocatedIsFound
    BY DEF FileSystemInit, AllocatedIsFound
  <2>. QED
    BY <2>2, <2>3 DEF ExactInv
<1>2. FileSystemInv /\ ExactInv /\ [FileSystemNext]_fileSystemVars => ExactInv'
  <2> SUFFICES ASSUME FileSystemInv, ExactInv, [FileSystemNext]_fileSystemVars PROVE ExactInv'
    OBVIOUS
  <2>1. ASSUME UNCHANGED fileSystemVars PROVE ExactInv'
    BY <2>1 DEF fileSystemVars, ExactInv, Exact, Narrowed, Tree, GroupIndex, RelativeNumber,
      AllocatedIsFound
  <2>2. CASE Failed
    BY <2>1, <2>2 DEF Failed
  <2>. QED
    BY <2>1, <2>2, OpeningIsExact, BeginIsExact, RefuseIsExact, BadIsExact, LeafIsExact,
       BranchIsExact
    DEF FileSystemNext, Visit
<1>3. ExactInv => AllocatedIsFound
  BY DEF ExactInv
<1>. QED
  BY <1>1, <1>2, <1>3, FileSystemSafety, PTL DEF FileSystemSpec
===============================================================================
