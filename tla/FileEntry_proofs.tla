---------------------------- MODULE FileEntry_proofs ----------------------------
(***************************************************************************)
(* What is proved of module FileEntry: with one caller at a time that asks *)
(* for the number of sub file entries, and attributes freed before their   *)
(* entry, what the entry keeps is whole between calls, every answer is of  *)
(* the whole, and nothing freed is used - for any number of threads, of    *)
(* parts and of reads that fail.                                           *)
(* Behind it what is proved of module Attributes, for any fork: what is    *)
(* listed is stored in it, all that a well-formed one stores is listed,    *)
(* and a value of one extent is read whole.                                *)
(***************************************************************************)
EXTENDS FileEntry, Attributes, Flattening, FiniteSetTheorems

(* A thread is in a call when it holds the lock, and nobody else is then.  *)
OneCall ==
  /\ \A t \in Threads : pc[t] = "idle" <=> t \notin readers /\ writer # t
  /\ \A t, q \in Threads : pc[t] # "idle" /\ pc[q] # "idle" => t = q
  /\ readers = {} \/ \E t \in Threads : readers = {t}

StoreType ==
  /\ kept \in [Caches -> {NULL} \cup Objects]
  /\ size \in [Objects -> {Freed} \cup 0 .. Parts]
  /\ reads \in 0 .. MaxReads
  /\ reading \in [Threads -> {NULL} \cup Objects]

(* What is allocated is what the entry keeps, each thing in one place.     *)
Owned ==
  /\ \A d \in Objects : size[d] # Freed => \E c \in Caches : kept[c] = d
  /\ \A c \in Caches : kept[c] # NULL => kept[c] <= reads /\ size[kept[c]] # Freed
  /\ \A c, e \in Caches : kept[c] # NULL /\ kept[c] = kept[e] => c = e

Reads(t, c) == pc[t] = "read" /\ Cache(op[t]) = c

(* What is kept is whole unless a call is still reading it.                *)
Filled ==
  \A c \in Caches :
    kept[c] # NULL => size[kept[c]] = Parts \/ \E t \in Threads : Reads(t, c)

(* An extended attribute points into the array of the entry, which was     *)
(* read before.                                                            *)
Pointed ==
  \A t \in Threads :
    attribute[t] # NULL =>
      /\ attribute[t] = kept["attributes"]
      /\ \A q \in Threads : ~Reads(q, "attributes")

(* What a call knows at each of its steps.                                 *)
AtStep(t) ==
  LET c == Cache(op[t])
  IN  /\ pc[t] # "idle" => answer[t] = None
      /\ pc[t] \in {"check", "test", "make", "read"} => result[t]
      /\ pc[t] \in {"test", "make"} => kept[c] = NULL
      /\ pc[t] = "make" => HasCache(c)
      /\ pc[t] = "read" => kept[c] # NULL /\ reading[t] = kept[c]
      /\ pc[t] = "get" /\ result[t] /\ kept[c] = NULL => ~HasCache(c)

AnswerIsWhole(t) ==
  /\ op[t] \in {"count", "number", "target"} => answer[t] < 0 \/ answer[t] = Parts
  /\ op[t] = "has" /\ answer[t] >= 0 => (answer[t] = 1) = (index[t] < Parts)
  /\ op[t] = "named" /\ answer[t] = Unset => index[t] = Parts
  /\ answer[t] = Error /\ result[t] =>
       \/ op[t] \in {"sub", "attribute"} /\ index[t] = Parts
       \/ op[t] = "sub" /\ kind # "directory"

IInv ==
  /\ TypeOK
  /\ OneCall
  /\ Owned
  /\ Filled
  /\ Pointed
  /\ ~crashed
  /\ \A t \in Threads : AtStep(t) /\ AnswerIsWhole(t)

Steps == {"idle", "check", "test", "make", "read", "get"}

LEMMA Numbers ==
  /\ Parts \in Nat \ {0} /\ MaxReads \in Nat /\ NoThread \notin Threads
  /\ Objects = 1 .. MaxReads /\ NULL = 0 /\ NULL \notin Objects
  /\ Freed = -1 /\ Error = -1 /\ Unset = -2 /\ None = -3
  BY FileEntryAssumption DEF NULL, Objects, Freed, Error, Unset, None

LEMMA CacheOfCall == \A o \in Operations : Cache(o) \in Caches
  BY DEF Operations, Cache, Caches

LEMMA InitInductive == Init => IInv
  <1> SUFFICES ASSUME Init PROVE IInv
    OBVIOUS
  <1>1. TypeOK
    <2>1. kind \in {"directory", "link", "file"} /\ live \in BOOLEAN /\ crashed \in BOOLEAN
      BY FileEntryAssumption DEF Init
    <2>2. /\ kept \in [Caches -> {NULL} \cup Objects]
          /\ size \in [Objects -> {Freed} \cup 0 .. Parts]
      BY DEF Init
    <2>3. reads \in 0 .. MaxReads /\ index \in [Threads -> 0 .. Parts]
      BY Numbers DEF Init
    <2>4. /\ pc \in [Threads -> {"idle", "check", "test", "make", "read", "get"}]
          /\ op \in [Threads -> Operations]
      BY DEF Init, Operations
    <2> QED
      BY <2>1, <2>2, <2>3, <2>4 DEF Init, TypeOK
  <1>2. OneCall
    BY Numbers DEF Init, OneCall
  <1>3. Owned /\ Filled /\ Pointed /\ ~crashed
    BY DEF Init, Owned, Filled, Pointed
  <1>4. \A t \in Threads : AtStep(t) /\ AnswerIsWhole(t)
    BY Numbers DEF Init, AtStep, AnswerIsWhole
  <1> QED
    BY <1>1, <1>2, <1>3, <1>4 DEF IInv

------------------------------------------------------------------------------
(* The two shapes of a step of a call                                      *)

LEMMA OthersIdle ==
  ASSUME IInv, NEW t \in Threads, pc[t] # "idle"
  PROVE  \A q \in Threads \ {t} : pc[q] = "idle"
  BY DEF IInv, OneCall

(* What is kept and is not being read by this call is whole.               *)
LEMMA WholeInCall ==
  ASSUME IInv, NEW t \in Threads, pc[t] # "idle", NEW c \in Caches, ~Reads(t, c), kept[c] # NULL
  PROVE  size[kept[c]] = Parts
  BY OthersIdle DEF IInv, Filled, Reads

(* A step within a call.                                                   *)
LEMMA Advance ==
  ASSUME IInv, NEW t \in Threads, pc[t] # "idle",
         NEW l \in {"check", "test", "make", "read", "get"}, Goto(t, l),
         UNCHANGED <<kind, held, lock, call, answer, crashed>>,
         result' \in [Threads -> BOOLEAN], \A q \in Threads \ {t} : result'[q] = result[q],
         StoreType', Owned', Filled', Pointed', AtStep(t)'
  PROVE  IInv'
  <1>1. /\ pc' \in [Threads -> Steps] /\ pc'[t] = l
        /\ \A q \in Threads \ {t} : pc'[q] = pc[q] /\ pc[q] = "idle"
    BY OthersIdle DEF IInv, TypeOK, Goto, Steps
  <1>2. TypeOK'
    BY <1>1 DEF IInv, TypeOK, StoreType, Steps, held, lock, call
  <1>3. OneCall'
    BY <1>1 DEF IInv, OneCall, lock
  <1>4. \A q \in Threads \ {t} : AtStep(q)' /\ AnswerIsWhole(q)'
    BY <1>1 DEF IInv, AtStep, AnswerIsWhole, call
  <1>5. AnswerIsWhole(t)'
    <2>1. answer'[t] = None
      BY DEF IInv, AtStep
    <2> QED
      BY <2>1, Numbers DEF AnswerIsWhole
  <1> QED
    BY <1>2, <1>3, <1>4, <1>5 DEF IInv

(* A call returns.                                                         *)
LEMMA Returns ==
  ASSUME IInv, NEW t \in Threads, NEW o \in Operations, Return(t, o),
         NEW a \in {None, Unset, Error} \cup 0 .. Parts, Answer(t, a),
         NEW p \in {NULL} \cup Objects, attribute' = [attribute EXCEPT ![t] = p],
         p # NULL => p = kept["attributes"],
         result' \in [Threads -> BOOLEAN], \A q \in Threads \ {t} : result'[q] = result[q],
         AnswerIsWhole(t)'
  PROVE  IInv'
  <1>1. /\ pc[t] = "get" /\ op[t] = o
        /\ UNCHANGED <<kind, live, kept, size, reads, op, index, reading>>
        /\ pc' = [pc EXCEPT ![t] = "idle"]
        /\ readers' = readers \ {t} /\ writer' = IF writer = t THEN NoThread ELSE writer
    BY DEF Return, Release, Goto, call
  <1>2. /\ pc' \in [Threads -> Steps] /\ pc'[t] = "idle"
        /\ \A q \in Threads : pc'[q] = "idle"
        /\ \A q \in Threads \ {t} : pc[q] = "idle"
    BY <1>1, OthersIdle DEF IInv, TypeOK, Steps
  <1>3. answer' \in [Threads -> {None, Unset, Error} \cup 0 .. Parts]
        /\ \A q \in Threads \ {t} : answer'[q] = answer[q]
    BY DEF IInv, TypeOK, Answer
  <1>4. attribute' \in [Threads -> {NULL} \cup Objects]
        /\ attribute'[t] = p /\ \A q \in Threads \ {t} : attribute'[q] = attribute[q]
    BY DEF IInv, TypeOK
  <1>5. crashed' = FALSE
    <2>1. Cache(o) \in Caches
      BY CacheOfCall
    <2>2. Object(t) # NULL => size[Object(t)] # Freed
      BY <1>1, <2>1 DEF Object, IInv, Owned
    <2> QED
      BY <2>2 DEF Return, Uses, IInv, TypeOK
  <1>6. TypeOK'
    <2>1. readers' \subseteq Threads /\ writer' \in Threads \cup {NoThread}
      BY <1>1 DEF IInv, TypeOK
    <2>2. /\ kind' \in {"directory", "link", "file"} /\ live' \in BOOLEAN
          /\ kept' \in [Caches -> {NULL} \cup Objects]
          /\ size' \in [Objects -> {Freed} \cup 0 .. Parts]
          /\ reads' \in 0 .. MaxReads
          /\ op' \in [Threads -> Operations]
          /\ index' \in [Threads -> 0 .. Parts]
          /\ reading' \in [Threads -> {NULL} \cup Objects]
      BY <1>1 DEF IInv, TypeOK
    <2> QED
      BY <1>2, <1>3, <1>4, <1>5, <2>1, <2>2 DEF TypeOK, Steps
  <1>7. OneCall'
    <2>1. readers' = {} /\ \A q \in Threads : writer' # q
      BY <1>1, <1>2, Numbers DEF IInv, OneCall
    <2> QED
      BY <1>2, <2>1 DEF OneCall
  <1>8. Owned'
    BY <1>1 DEF IInv, Owned
  <1>9. Filled'
    BY <1>1, <1>2 DEF IInv, Filled, Reads
  <1>10. Pointed'
    BY <1>1, <1>2, <1>4 DEF IInv, Pointed, Reads
  <1>11. \A q \in Threads : AtStep(q)'
    BY <1>2 DEF AtStep
  <1>12. \A q \in Threads \ {t} : AnswerIsWhole(q)'
    BY <1>1, <1>3 DEF IInv, AnswerIsWhole
  <1> QED
    BY <1>5, <1>6, <1>7, <1>8, <1>9, <1>10, <1>11, <1>12 DEF IInv


------------------------------------------------------------------------------
(* The steps of a call that fill what the entry keeps                      *)

LEMMA BeginStep ==
  ASSUME IInv, NEW t \in Threads, NEW o \in Operations, NEW i \in 0 .. Parts, Begin(t, o, i),
         readers = {}, writer = NoThread,
         \/ readers' = {t} /\ writer' = writer
         \/ readers' = {} /\ writer' = t
  PROVE  IInv'
  <1>1. /\ pc' = [pc EXCEPT ![t] = "check"] /\ op' = [op EXCEPT ![t] = o]
        /\ index' = [index EXCEPT ![t] = i] /\ result' = [result EXCEPT ![t] = TRUE]
        /\ answer' = [answer EXCEPT ![t] = None]
        /\ UNCHANGED <<kind, attribute, live, kept, size, reads, reading, crashed>>
    BY DEF Begin, Goto, Answer, held
  <1>2. \A q \in Threads : pc[q] = "idle"
    BY Numbers DEF IInv, OneCall
  <1>3. pc' \in [Threads -> Steps] /\ pc'[t] = "check" /\ \A q \in Threads \ {t} : pc'[q] = "idle"
    BY <1>1, <1>2 DEF IInv, TypeOK, Steps
  <1>4. TypeOK'
    <2>1. readers' \subseteq Threads /\ writer' \in Threads \cup {NoThread}
      OBVIOUS
    <2>2. /\ kind' \in {"directory", "link", "file"} /\ live' \in BOOLEAN /\ crashed' \in BOOLEAN
          /\ StoreType'
      BY <1>1 DEF IInv, TypeOK, StoreType
    <2>3. /\ op' \in [Threads -> Operations] /\ index' \in [Threads -> 0 .. Parts]
          /\ result' \in [Threads -> BOOLEAN]
          /\ answer' \in [Threads -> {None, Unset, Error} \cup 0 .. Parts]
          /\ attribute' \in [Threads -> {NULL} \cup Objects]
      BY <1>1 DEF IInv, TypeOK
    <2> QED
      BY <1>3, <2>1, <2>2, <2>3 DEF TypeOK, StoreType, Steps
  <1>5. OneCall'
    BY <1>3, Numbers DEF OneCall
  <1>6. Owned' /\ ~crashed'
    BY <1>1 DEF IInv, Owned
  <1>7. Filled' /\ Pointed'
    BY <1>1, <1>2, <1>3 DEF IInv, Filled, Pointed, Reads
  <1>8. AtStep(t)' /\ AnswerIsWhole(t)'
    <2>1. answer'[t] = None /\ result'[t] = TRUE
      BY <1>1 DEF IInv, TypeOK
    <2> QED
      BY <1>3, <2>1, Numbers DEF AtStep, AnswerIsWhole
  <1>9. \A q \in Threads \ {t} : AtStep(q)' /\ AnswerIsWhole(q)'
    BY <1>1, <1>3 DEF IInv, TypeOK, AtStep, AnswerIsWhole
  <1> QED
    BY <1>4, <1>5, <1>6, <1>7, <1>8, <1>9 DEF IInv

(* With one counter at a time, whoever grabs the lock is alone.            *)
LEMMA GrabStep ==
  ASSUME IInv, MaxCounters <= 1, NEW t \in Threads, AnyBegin(t) PROVE IInv'
  <1>1. CASE BeginCount(t)
    <2>1. readers = {}
      <3> SUFFICES ASSUME NEW q \in Threads, readers = {q} PROVE FALSE
        BY DEF IInv, OneCall
      <3>1. Cardinality(readers) = 1
        BY FS_Singleton
      <3> QED
        BY <1>1, <3>1, FileEntryAssumption DEF BeginCount
    <2>2. /\ writer = NoThread /\ readers' = {t} /\ writer' = writer /\ Begin(t, "count", 0)
      BY <1>1, <2>1 DEF BeginCount, GrabForRead
    <2> QED
      BY <2>1, <2>2, BeginStep, Numbers DEF Operations
  <1>2. ASSUME NEW o \in Operations, NEW i \in 0 .. Parts, BeginOther(t, o, i) PROVE IInv'
    BY <1>2, BeginStep DEF BeginOther, GrabForWrite
  <1> QED
    BY <1>1, <1>2 DEF AnyBegin

LEMMA CheckStep ==
  ASSUME IInv, NEW t \in Threads, Check(t) PROVE IInv'
  <1> DEFINE c == Cache(op[t])
  <1>1. /\ pc[t] = "check" /\ c \in Caches
        /\ Goto(t, IF kept[c] = NULL THEN "test" ELSE "get")
        /\ UNCHANGED <<kind, held, kept, size, reads, lock, call, reading, result, answer, crashed>>
    BY CacheOfCall DEF Check, IInv, TypeOK
  <1>2. /\ pc' \in [Threads -> Steps] /\ pc'[t] \in {"test", "get"}
        /\ (pc'[t] = "test" <=> kept[c] = NULL)
        /\ \A q \in Threads \ {t} : pc'[q] = pc[q] /\ pc[q] = "idle"
    BY <1>1, OthersIdle DEF IInv, TypeOK, Goto, Steps
  <1>3. StoreType' /\ Owned'
    BY <1>1 DEF IInv, TypeOK, StoreType, Owned
  <1>4. \A q \in Threads : pc[q] # "read" /\ pc'[q] # "read"
    BY <1>1, <1>2
  <1>5. Filled' /\ Pointed'
    BY <1>1, <1>4 DEF IInv, Filled, Pointed, Reads, held
  <1>6. AtStep(t)'
    BY <1>1, <1>2 DEF IInv, AtStep, call
  <1> QED
    BY <1>1, <1>3, <1>5, <1>6, Advance DEF IInv, TypeOK

LEMMA TestStep ==
  ASSUME IInv, NEW t \in Threads, Test(t) PROVE IInv'
  <1> DEFINE c == Cache(op[t])
  <1>1. /\ pc[t] = "test" /\ c \in Caches /\ kept[c] = NULL
        /\ Goto(t, IF ~HasCache(c) THEN "get" ELSE "make")
        /\ UNCHANGED <<kind, held, kept, size, reads, lock, call, reading, result, answer, crashed>>
    BY CacheOfCall DEF Test, IInv, TypeOK, AtStep
  <1>2. /\ pc' \in [Threads -> Steps] /\ pc'[t] \in {"get", "make"}
        /\ (pc'[t] = "make" <=> HasCache(c))
        /\ \A q \in Threads \ {t} : pc'[q] = pc[q] /\ pc[q] = "idle"
    BY <1>1, OthersIdle DEF IInv, TypeOK, Goto, Steps
  <1>3. StoreType' /\ Owned'
    BY <1>1 DEF IInv, TypeOK, StoreType, Owned
  <1>4. \A q \in Threads : pc[q] # "read" /\ pc'[q] # "read"
    BY <1>1, <1>2
  <1>5. Filled' /\ Pointed'
    BY <1>1, <1>4 DEF IInv, Filled, Pointed, Reads, held
  <1>6. AtStep(t)'
    BY <1>1, <1>2 DEF IInv, AtStep, call, HasCache
  <1> QED
    BY <1>1, <1>3, <1>5, <1>6, Advance DEF IInv, TypeOK


(* Freeing what a call was reading leaves the rest whole.                  *)
LEMMA FreeStep ==
  ASSUME IInv, NEW t \in Threads, pc[t] = "read", FreeKept(Cache(op[t])), Fail(t), Goto(t, "get"),
         UNCHANGED <<kind, held, reads, lock, call, reading, answer, crashed>>
  PROVE  IInv'
  <1> DEFINE c == Cache(op[t])
  <1>1. /\ c \in Caches /\ kept[c] \in Objects
        /\ size' = [size EXCEPT ![kept[c]] = Freed] /\ kept' = [kept EXCEPT ![c] = NULL]
    BY CacheOfCall, Numbers DEF IInv, TypeOK, AtStep, FreeKept
  <1>2. /\ pc' \in [Threads -> Steps] /\ pc'[t] = "get" /\ result'[t] = FALSE
        /\ result' \in [Threads -> BOOLEAN] /\ \A q \in Threads \ {t} : result'[q] = result[q]
        /\ \A q \in Threads \ {t} : pc'[q] = pc[q] /\ pc[q] = "idle"
    BY OthersIdle DEF IInv, TypeOK, Goto, Fail, Steps
  <1>3. kept'[c] = NULL /\ \A e \in Caches \ {c} : kept'[e] = kept[e] /\ kept[e] # kept[c]
    BY <1>1, Numbers DEF IInv, TypeOK, Owned
  <1>4. size'[kept[c]] = Freed /\ \A d \in Objects \ {kept[c]} : size'[d] = size[d]
    BY <1>1 DEF IInv, TypeOK
  <1>5. StoreType'
    BY <1>1, Numbers DEF IInv, TypeOK, StoreType
  <1>6. Owned'
    <2>1. \A d \in Objects : size'[d] # Freed => \E e \in Caches : kept'[e] = d
      BY <1>1, <1>3, <1>4 DEF IInv, Owned
    <2>2. \A e \in Caches : kept'[e] # NULL => kept'[e] <= reads /\ size'[kept'[e]] # Freed
      BY <1>3, <1>4 DEF IInv, TypeOK, Owned
    <2>3. \A e, f \in Caches : kept'[e] # NULL /\ kept'[e] = kept'[f] => e = f
      BY <1>3 DEF IInv, Owned
    <2> QED
      BY <2>1, <2>2, <2>3 DEF Owned
  <1>7. Filled'
    <2> SUFFICES ASSUME NEW e \in Caches, kept'[e] # NULL PROVE size'[kept'[e]] = Parts
      BY DEF Filled
    <2>1. e # c /\ kept'[e] = kept[e] /\ kept[e] \in Objects \ {kept[c]}
      BY <1>3 DEF IInv, TypeOK
    <2>2. size[kept[e]] = Parts
      BY <2>1, WholeInCall DEF Reads
    <2> QED
      BY <1>4, <2>1, <2>2
  <1>8. Pointed'
    <2>1. \A q \in Threads : attribute[q] # NULL => c # "attributes" /\ attribute[q] = kept["attributes"]
      BY DEF IInv, Pointed, Reads
    <2>2. "attributes" \in Caches
      BY DEF Caches
    <2>3. \A q \in Threads : pc'[q] # "read"
      BY <1>2
    <2> QED
      BY <1>3, <2>1, <2>2, <2>3 DEF Pointed, Reads, held
  <1>9. AtStep(t)'
    BY <1>2 DEF IInv, AtStep
  <1> QED
    BY <1>2, <1>5, <1>6, <1>7, <1>8, <1>9, Advance


(* A new object is none of those that are kept.                            *)
LEMMA MakeStep ==
  ASSUME IInv, NEW t \in Threads, Make(t) PROVE IInv'
  <1> DEFINE c == Cache(op[t])
  <1>1. /\ pc[t] = "make" /\ c \in Caches /\ kept[c] = NULL /\ HasCache(c) /\ result[t]
        /\ UNCHANGED <<kind, held, lock, call, answer, crashed>>
    BY CacheOfCall DEF Make, IInv, TypeOK, AtStep
  <1>2. CASE /\ reads < MaxReads /\ reads' = reads + 1
             /\ kept' = [kept EXCEPT ![c] = reads'] /\ size' = [size EXCEPT ![reads'] = 0]
             /\ reading' = [reading EXCEPT ![t] = reads']
             /\ Goto(t, "read") /\ UNCHANGED result
    <2>1. /\ reads' \in Objects /\ reads' \in 0 .. MaxReads
          /\ \A e \in Caches : kept[e] \in Objects => kept[e] # reads'
      BY <1>2, Numbers DEF IInv, TypeOK, Owned
    <2>2. /\ pc' \in [Threads -> Steps] /\ pc'[t] = "read"
          /\ \A q \in Threads \ {t} : pc'[q] = pc[q] /\ pc[q] = "idle"
      BY <1>1, <1>2, OthersIdle DEF IInv, TypeOK, Goto, Steps
    <2>3. kept'[c] = reads' /\ \A e \in Caches \ {c} : kept'[e] = kept[e]
      BY <1>1, <1>2 DEF IInv, TypeOK
    <2>4. size'[reads'] = 0 /\ \A d \in Objects \ {reads'} : size'[d] = size[d]
      BY <1>2, <2>1 DEF IInv, TypeOK
    <2>5. StoreType'
      <3>1. kept' \in [Caches -> {NULL} \cup Objects]
        BY <1>2, <2>1 DEF IInv, TypeOK
      <3>2. 0 \in 0 .. Parts
        BY Numbers
      <3>3. size' \in [Objects -> {Freed} \cup 0 .. Parts]
        BY <1>2, <3>2 DEF IInv, TypeOK
      <3>4. reading' \in [Threads -> {NULL} \cup Objects]
        BY <1>2, <2>1 DEF IInv, TypeOK
      <3> QED
        BY <2>1, <3>1, <3>3, <3>4 DEF StoreType
    <2>6. Owned'
      <3>1. \A d \in Objects : size'[d] # Freed => \E e \in Caches : kept'[e] = d
        <4> SUFFICES ASSUME NEW d \in Objects, size'[d] # Freed, d # reads'
                     PROVE  \E e \in Caches : kept'[e] = d
          BY <1>1, <2>3
        <4>1. PICK e \in Caches : kept[e] = d
          BY <2>4 DEF IInv, Owned
        <4>2. e # c
          BY <1>1, <4>1, Numbers
        <4> QED
          BY <2>3, <4>1, <4>2
      <3>2. \A e \in Caches \ {c} : kept'[e] # NULL => kept'[e] <= reads' /\ size'[kept'[e]] # Freed
        <4> SUFFICES ASSUME NEW e \in Caches \ {c}, kept'[e] # NULL
                     PROVE  kept'[e] <= reads' /\ size'[kept'[e]] # Freed
          OBVIOUS
        <4>1. kept'[e] = kept[e] /\ kept[e] \in Objects \ {reads'}
          BY <2>1, <2>3 DEF IInv, TypeOK
        <4>2. kept[e] <= reads /\ size[kept[e]] # Freed
          BY <4>1, Numbers DEF IInv, Owned
        <4> QED
          BY <1>2, <2>4, <4>1, <4>2, Numbers DEF IInv, TypeOK
      <3>3. kept'[c] <= reads' /\ size'[kept'[c]] # Freed
        BY <2>1, <2>3, <2>4, Numbers
      <3>4. \A e, f \in Caches : kept'[e] # NULL /\ kept'[e] = kept'[f] => e = f
        BY <2>1, <2>3 DEF IInv, TypeOK, Owned
      <3> QED
        BY <3>1, <3>2, <3>3, <3>4 DEF Owned
    <2>7. Filled'
      <3> SUFFICES ASSUME NEW e \in Caches, kept'[e] # NULL, e # c PROVE size'[kept'[e]] = Parts
        BY <1>1, <2>2 DEF Filled, Reads, call
      <3>1. kept'[e] = kept[e] /\ kept[e] \in Objects \ {reads'}
        BY <2>1, <2>3 DEF IInv, TypeOK
      <3>2. size[kept[e]] = Parts
        BY <1>1, <3>1, WholeInCall DEF Reads
      <3> QED
        BY <2>4, <3>1, <3>2
    <2>8. Pointed'
      <3>1. \A q \in Threads : attribute[q] # NULL => c # "attributes" /\ attribute[q] = kept["attributes"]
        BY <1>1 DEF IInv, Pointed
      <3>2. "attributes" \in Caches
        BY DEF Caches
      <3>3. \A q \in Threads : Reads(q, "attributes")' => c = "attributes"
        BY <1>1, <2>2 DEF Reads, call
      <3> QED
        BY <1>1, <2>3, <3>1, <3>2, <3>3 DEF Pointed, held
    <2>9. AtStep(t)'
      BY <1>1, <1>2, <2>1, <2>2, <2>3, Numbers DEF IInv, TypeOK, AtStep, call
    <2> QED
      BY <1>1, <1>2, <2>5, <2>6, <2>7, <2>8, <2>9, Advance DEF IInv, TypeOK
  <1>3. CASE Fail(t) /\ Goto(t, "get") /\ UNCHANGED <<kept, size, reads, reading>>
    <2>1. /\ pc' \in [Threads -> Steps] /\ pc'[t] = "get" /\ result'[t] = FALSE
          /\ result' \in [Threads -> BOOLEAN] /\ \A q \in Threads \ {t} : result'[q] = result[q]
          /\ \A q \in Threads \ {t} : pc'[q] = pc[q] /\ pc[q] = "idle"
      BY <1>1, <1>3, OthersIdle DEF IInv, TypeOK, Goto, Fail, Steps
    <2>2. StoreType' /\ Owned'
      BY <1>3 DEF IInv, TypeOK, StoreType, Owned
    <2>3. \A q \in Threads : pc[q] # "read" /\ pc'[q] # "read"
      BY <1>1, <2>1
    <2>4. Filled' /\ Pointed'
      BY <1>1, <1>3, <2>3 DEF IInv, Filled, Pointed, Reads, held
    <2>5. AtStep(t)'
      BY <1>1, <2>1 DEF IInv, AtStep
    <2> QED
      BY <1>1, <1>3, <2>1, <2>2, <2>4, <2>5, Advance
  <1> QED
    BY <1>1, <1>2, <1>3 DEF Make

LEMMA ReadPartStep ==
  ASSUME IInv, NEW t \in Threads, ReadPart(t) PROVE IInv'
  <1> DEFINE c == Cache(op[t])
             d == kept[c]
             l == IF size[d] \in 0 .. Parts - 1 THEN "read" ELSE "get"
  <1>1. /\ pc[t] = "read" /\ c \in Caches /\ reading[t] = d /\ d \in Objects
        /\ size[d] \in 0 .. Parts /\ result[t]
    BY CacheOfCall, Numbers DEF ReadPart, IInv, TypeOK, AtStep, Owned
  <1>2. /\ size' = IF size[d] \in 0 .. Parts - 1 THEN [size EXCEPT ![d] = @ + 1] ELSE size
        /\ Goto(t, l) /\ crashed' = crashed
        /\ UNCHANGED <<kind, held, kept, reads, lock, call, reading, result, answer>>
    BY <1>1, Numbers DEF ReadPart, IInv, TypeOK
  <1>3. /\ pc' \in [Threads -> Steps] /\ pc'[t] = l
        /\ \A q \in Threads \ {t} : pc'[q] = pc[q] /\ pc[q] = "idle"
    BY <1>1, <1>2, OthersIdle DEF IInv, TypeOK, Goto, Steps
  <1>4. /\ size'[d] \in 0 .. Parts /\ (pc'[t] = "get" => size'[d] = Parts)
        /\ \A e \in Objects \ {d} : size'[e] = size[e]
    BY <1>1, <1>2, <1>3, Numbers DEF IInv, TypeOK
  <1>5. StoreType'
    BY <1>1, <1>2, Numbers DEF IInv, TypeOK, StoreType
  <1>6. Owned'
    <2>1. \A e \in Objects : size'[e] # Freed => size[e] # Freed
      BY <1>1, <1>4, Numbers
    <2>2. \A e \in Caches : kept[e] # NULL => kept[e] \in Objects
      BY DEF IInv, TypeOK
    <2>3. \A e \in Objects : size[e] # Freed => size'[e] # Freed
      BY <1>4, Numbers
    <2> QED
      BY <1>2, <2>1, <2>2, <2>3 DEF IInv, Owned
  <1>7. Filled'
    <2> SUFFICES ASSUME NEW e \in Caches, kept[e] # NULL
                 PROVE  size'[kept[e]] = Parts \/ Reads(t, e)'
      BY <1>2 DEF Filled
    <2>1. CASE e = c
      BY <1>2, <1>3, <1>4, <2>1 DEF Reads, call
    <2>2. CASE e # c
      <3>1. kept[e] \in Objects \ {d}
        BY <1>1, <2>2 DEF IInv, TypeOK, Owned
      <3>2. size[kept[e]] = Parts
        BY <1>1, <2>2, WholeInCall DEF Reads
      <3> QED
        BY <1>4, <3>1, <3>2
    <2> QED
      BY <2>1, <2>2
  <1>8. Pointed'
    <2>1. \A q \in Threads : Reads(q, "attributes")' => Reads(q, "attributes")
      BY <1>1, <1>2, <1>3 DEF Reads, call
    <2> QED
      BY <1>2, <2>1 DEF IInv, Pointed, held
  <1>9. AtStep(t)'
    BY <1>1, <1>2, <1>3 DEF IInv, AtStep, call
  <1> QED
    BY <1>1, <1>2, <1>5, <1>6, <1>7, <1>8, <1>9, Advance DEF IInv, TypeOK


------------------------------------------------------------------------------
(* The answers                                                             *)

(* What a call finds at its end: the whole, or nothing because a read      *)
(* failed or there is nothing to read.                                     *)
LEMMA FoundAtEnd ==
  ASSUME IInv, NEW t \in Threads, pc[t] = "get"
  PROVE  /\ Object(t) # NULL => size[Object(t)] = Parts
         /\ Object(t) = NULL /\ result[t] => ~HasCache(Cache(op[t]))
         /\ Object(t) \in {NULL} \cup Objects
         /\ Cache(op[t]) = "attributes" => Object(t) = kept["attributes"]
  <1>1. Cache(op[t]) \in Caches
    BY CacheOfCall DEF IInv, TypeOK
  <1>2. Object(t) # NULL => size[Object(t)] = Parts
    BY <1>1, WholeInCall DEF Object, Reads
  <1> QED
    BY <1>1, <1>2 DEF Object, IInv, TypeOK, AtStep

(* The calls that give a number or the target.                             *)
LEMMA GetNumberStep ==
  ASSUME IInv, NEW t \in Threads, GetCount(t) \/ GetNumber(t) \/ GetTarget(t) PROVE IInv'
  <1>1. PICK o \in {"count", "number", "target"} :
          /\ Return(t, o) /\ UNCHANGED <<attribute, result>>
          /\ \/ o \in {"count", "target"} /\
                Answer(t, IF ~result[t] THEN Error ELSE IF Object(t) = NULL THEN Unset ELSE size[Object(t)])
             \/ o = "number" /\ Answer(t, IF Object(t) = NULL THEN Error ELSE size[Object(t)])
    BY DEF GetCount, GetNumber, GetTarget, Get
  <1> DEFINE a == answer'[t]
  <1>2. pc[t] = "get" /\ op[t] = o /\ op' = op /\ o \in Operations
    BY <1>1 DEF Return, call, Operations
  <1>3. /\ Answer(t, a) /\ a \in {Unset, Error, Parts}
        /\ (a = Error /\ result[t] => o = "number" /\ Object(t) = NULL)
    BY <1>1, <1>2, FoundAtEnd, Numbers DEF IInv, TypeOK, Answer
  <1>4. ~(a = Error /\ result[t])
    BY <1>2, <1>3, FoundAtEnd DEF Cache, HasCache
  <1>5. AnswerIsWhole(t)'
    BY <1>1, <1>2, <1>3, <1>4, Numbers DEF AnswerIsWhole
  <1>6. attribute' = [attribute EXCEPT ![t] = attribute[t]] /\ attribute[t] \in {NULL} \cup Objects
        /\ (attribute[t] # NULL => attribute[t] = kept["attributes"])
    BY <1>1 DEF IInv, TypeOK, Pointed
  <1>7. result' \in [Threads -> BOOLEAN] /\ \A q \in Threads \ {t} : result'[q] = result[q]
    BY <1>1 DEF IInv, TypeOK
  <1>8. a \in {None, Unset, Error} \cup 0 .. Parts
    BY <1>3, Numbers
  <1> QED
    BY <1>1, <1>2, <1>3, <1>5, <1>6, <1>7, <1>8, Returns


LEMMA Kept ==
  ASSUME IInv, NEW t \in Threads, UNCHANGED attribute
  PROVE  /\ attribute' = [attribute EXCEPT ![t] = attribute[t]] /\ attribute[t] \in {NULL} \cup Objects
         /\ attribute[t] # NULL => attribute[t] = kept["attributes"]
  BY DEF IInv, TypeOK, Pointed

(* An index is refused when there is nothing to index or it is behind it.  *)
LEMMA IndexIsWhole ==
  ASSUME IInv, NEW t \in Threads, pc[t] = "get", NEW o \in {"sub", "attribute"},
         op[t] = o, op' = op, index' = index, kind' = kind, UNCHANGED result,
         Answer(t, AtIndex(t))
  PROVE  /\ AtIndex(t) \in {None, Unset, Error} \cup 0 .. Parts
         /\ AtIndex(t) # Error => Object(t) # NULL
         /\ AnswerIsWhole(t)'
  <1>1. index[t] \in 0 .. Parts
    BY DEF IInv, TypeOK
  <1>2. AtIndex(t) \in {Error, index[t]} /\ (AtIndex(t) # Error => Object(t) # NULL)
    BY DEF AtIndex
  <1>3. AtIndex(t) = Error /\ result[t] =>
          index[t] = Parts \/ (o = "sub" /\ kind # "directory")
    <2> SUFFICES ASSUME AtIndex(t) = Error, result[t], ~(o = "sub" /\ kind # "directory")
                 PROVE  index[t] = Parts
      OBVIOUS
    <2>1. HasCache(Cache(op[t]))
      BY DEF HasCache, Cache
    <2>2. size[Object(t)] = Parts /\ Object(t) # NULL
      BY <2>1, FoundAtEnd
    <2> QED
      BY <1>1, <2>2, Numbers DEF AtIndex
  <1>4. answer'[t] = AtIndex(t)
    BY DEF Answer, IInv, TypeOK
  <1>5. AnswerIsWhole(t)'
    BY <1>3, <1>4, Numbers DEF AnswerIsWhole
  <1> QED
    BY <1>1, <1>2, <1>5, Numbers

LEMMA GetSubStep ==
  ASSUME IInv, NEW t \in Threads, GetSub(t) \/ GetSubFails(t) PROVE IInv'
  <1>1. Return(t, "sub") /\ UNCHANGED attribute /\ "sub" \in Operations
    BY DEF GetSub, GetSubFails, Get, Operations
  <1>2. pc[t] = "get" /\ op[t] = "sub" /\ UNCHANGED <<op, index, kind>>
    BY <1>1 DEF Return, call
  <1>3. CASE GetSub(t)
    <2>1. Answer(t, AtIndex(t)) /\ UNCHANGED result
      BY <1>3 DEF GetSub, Get
    <2>2. AtIndex(t) \in {None, Unset, Error} \cup 0 .. Parts /\ AnswerIsWhole(t)'
      BY <1>2, <2>1, IndexIsWhole
    <2>3. result' \in [Threads -> BOOLEAN] /\ \A q \in Threads \ {t} : result'[q] = result[q]
      BY <2>1 DEF IInv, TypeOK
    <2> QED
      BY <1>1, <2>1, <2>2, <2>3, Kept, Returns
  <1>4. CASE GetSubFails(t)
    <2>1. Answer(t, Error) /\ Fail(t)
      BY <1>4 DEF GetSubFails
    <2>2. /\ result' \in [Threads -> BOOLEAN] /\ \A q \in Threads \ {t} : result'[q] = result[q]
          /\ result'[t] = FALSE /\ answer'[t] = Error
      BY <2>1 DEF IInv, TypeOK, Fail, Answer
    <2>3. AnswerIsWhole(t)'
      BY <1>2, <2>2 DEF AnswerIsWhole
    <2> QED
      BY <1>1, <2>1, <2>2, <2>3, Kept, Returns
  <1> QED
    BY <1>3, <1>4 DEF GetSub, GetSubFails

(* An attribute that is obtained points into the whole array.              *)
LEMMA GetAttributeStep ==
  ASSUME IInv, NEW t \in Threads, GetAttribute(t) PROVE IInv'
  <1> DEFINE p == IF AtIndex(t) = Error THEN NULL ELSE Object(t)
  <1>1. /\ Return(t, "attribute") /\ "attribute" \in Operations
        /\ Answer(t, AtIndex(t)) /\ attribute' = [attribute EXCEPT ![t] = p] /\ UNCHANGED result
    BY DEF GetAttribute, Operations
  <1>2. pc[t] = "get" /\ op[t] = "attribute" /\ UNCHANGED <<op, index, kind>>
    BY <1>1 DEF Return, call
  <1>3. AtIndex(t) \in {None, Unset, Error} \cup 0 .. Parts /\ AnswerIsWhole(t)'
    BY <1>1, <1>2, IndexIsWhole
  <1>4. p \in {NULL} \cup Objects /\ (p # NULL => p = kept["attributes"])
    BY <1>2, FoundAtEnd DEF Cache
  <1>5. result' \in [Threads -> BOOLEAN] /\ \A q \in Threads \ {t} : result'[q] = result[q]
    BY <1>1 DEF IInv, TypeOK
  <1> QED
    BY <1>1, <1>3, <1>4, <1>5, Returns

LEMMA GetNamedStep ==
  ASSUME IInv, NEW t \in Threads, GetNamed(t) PROVE IInv'
  <1> DEFINE a == IF Object(t) = NULL THEN Error ELSE IF Found(t) THEN index[t] ELSE Unset
             p == IF Object(t) # NULL /\ Found(t) THEN Object(t) ELSE NULL
  <1>1. /\ Return(t, "named") /\ "named" \in Operations
        /\ Answer(t, a) /\ attribute' = [attribute EXCEPT ![t] = p] /\ UNCHANGED result
    BY DEF GetNamed, Operations
  <1>2. pc[t] = "get" /\ op[t] = "named" /\ UNCHANGED <<op, index, kind>>
    BY <1>1 DEF Return, call
  <1>3. p \in {NULL} \cup Objects /\ (p # NULL => p = kept["attributes"])
    BY <1>2, FoundAtEnd DEF Cache
  <1>4. a \in {Error, Unset, index[t]} /\ index[t] \in 0 .. Parts
    BY DEF IInv, TypeOK
  <1>5. Object(t) # NULL /\ ~Found(t) => index[t] = Parts
    BY <1>2, <1>4, FoundAtEnd, Numbers DEF Found
  <1>6. result[t] => Object(t) # NULL
    BY <1>2, FoundAtEnd DEF Cache, HasCache
  <1>7. answer'[t] = a
    BY <1>1 DEF IInv, TypeOK, Answer
  <1>8. AnswerIsWhole(t)'
    BY <1>1, <1>2, <1>4, <1>5, <1>6, <1>7, Numbers DEF AnswerIsWhole
  <1>9. result' \in [Threads -> BOOLEAN] /\ \A q \in Threads \ {t} : result'[q] = result[q]
    BY <1>1 DEF IInv, TypeOK
  <1>10. a \in {None, Unset, Error} \cup 0 .. Parts
    BY <1>4
  <1> QED
    BY <1>1, <1>3, <1>8, <1>9, <1>10, Returns

LEMMA GetHasStep ==
  ASSUME IInv, NEW t \in Threads, GetHas(t) PROVE IInv'
  <1> DEFINE a == IF Object(t) = NULL THEN Error ELSE IF Found(t) THEN 1 ELSE 0
  <1>1. /\ Return(t, "has") /\ "has" \in Operations
        /\ Answer(t, a) /\ UNCHANGED <<attribute, result>>
    BY DEF GetHas, Get, Operations
  <1>2. pc[t] = "get" /\ op[t] = "has" /\ UNCHANGED <<op, index, kind>>
    BY <1>1 DEF Return, call
  <1>3. a \in {Error, 0, 1} /\ index[t] \in 0 .. Parts /\ a \in {None, Unset, Error} \cup 0 .. Parts
    BY Numbers DEF IInv, TypeOK
  <1>4. Object(t) # NULL => (a = 1 <=> index[t] < Parts)
    BY <1>2, <1>3, FoundAtEnd, Numbers DEF Found
  <1>5. result[t] => Object(t) # NULL
    BY <1>2, FoundAtEnd DEF Cache, HasCache
  <1>6. answer'[t] = a
    BY <1>1 DEF IInv, TypeOK, Answer
  <1>7. AnswerIsWhole(t)'
    BY <1>1, <1>2, <1>3, <1>4, <1>5, <1>6, Numbers DEF AnswerIsWhole
  <1>8. result' \in [Threads -> BOOLEAN] /\ \A q \in Threads \ {t} : result'[q] = result[q]
    BY <1>1 DEF IInv, TypeOK
  <1> QED
    BY <1>1, <1>3, <1>7, <1>8, Kept, Returns

------------------------------------------------------------------------------
(* Steps between calls                                                     *)

LEMMA Stutter == ASSUME IInv, UNCHANGED vars PROVE IInv'
  <1>1. UNCHANGED <<kind, live, kept, size, reads, readers, writer, pc, op, index, reading,
                    result, answer, attribute, crashed>>
    BY DEF vars, lock, held, call
  <1>2. TypeOK' /\ OneCall'
    BY <1>1 DEF IInv, TypeOK, OneCall
  <1>3. Owned' /\ Filled' /\ Pointed'
    BY <1>1 DEF IInv, Owned, Filled, Pointed, Reads
  <1>4. \A t \in Threads : AtStep(t)' /\ AnswerIsWhole(t)'
    BY <1>1 DEF IInv, AtStep, AnswerIsWhole, HasCache
  <1> QED
    BY <1>1, <1>2, <1>3, <1>4 DEF IInv

LEMMA UseStep ==
  ASSUME IInv, NEW t \in Threads, UseAttribute(t) PROVE IInv'
  <1>1. "attributes" \in Caches
    BY DEF Caches
  <1>2. attribute[t] # NULL /\ size[attribute[t]] # Freed
    BY <1>1 DEF UseAttribute, IInv, Pointed, Owned
  <1>3. crashed' = crashed
    BY <1>2 DEF UseAttribute, IInv, TypeOK
  <1>4. UNCHANGED vars
    BY <1>3 DEF UseAttribute, vars, lock, call, held
  <1> QED
    BY <1>4, Stutter

LEMMA FreeAttributeStep ==
  ASSUME IInv, NEW t \in Threads, FreeAttribute(t) PROVE IInv'
  <1>1. attribute' = [attribute EXCEPT ![t] = NULL]
        /\ UNCHANGED <<kind, live, kept, size, reads, readers, writer, pc, op, index, reading,
                       result, answer, crashed>>
    BY DEF FreeAttribute, lock, call
  <1>2. Pointed'
    BY <1>1 DEF IInv, TypeOK, Pointed, Reads
  <1>3. TypeOK' /\ OneCall'
    BY <1>1 DEF IInv, TypeOK, OneCall
  <1>4. Owned' /\ Filled'
    BY <1>1 DEF IInv, Owned, Filled, Reads
  <1>5. \A q \in Threads : AtStep(q)' /\ AnswerIsWhole(q)'
    BY <1>1 DEF IInv, AtStep, AnswerIsWhole, HasCache
  <1> QED
    BY <1>1, <1>2, <1>3, <1>4, <1>5 DEF IInv

LEMMA FreeEntryStep ==
  ASSUME IInv, FreesInOrder, FreeEntry PROVE IInv'
  <1>1. /\ \A t \in Threads : pc[t] = "idle" /\ attribute[t] = NULL
        /\ live' = FALSE
        /\ size' = [d \in Objects |-> IF d \in Range(kept) THEN Freed ELSE size[d]]
        /\ kept' = [c \in Caches |-> NULL]
        /\ UNCHANGED <<kind, reads, readers, writer, pc, op, index, reading, result, answer,
                       attribute, crashed>>
    BY DEF FreeEntry, lock, call
  <1>2. TypeOK'
    BY <1>1 DEF IInv, TypeOK
  <1>3. \A d \in Objects : size'[d] = Freed
    BY <1>1 DEF IInv, TypeOK, Owned, Range
  <1>4. Owned' /\ Filled' /\ Pointed'
    BY <1>1, <1>3 DEF Owned, Filled, Pointed
  <1>5. OneCall'
    BY <1>1 DEF IInv, OneCall
  <1>6. \A t \in Threads : AtStep(t)' /\ AnswerIsWhole(t)'
    BY <1>1 DEF IInv, AtStep, AnswerIsWhole
  <1> QED
    BY <1>1, <1>2, <1>4, <1>5, <1>6 DEF IInv

------------------------------------------------------------------------------

(* The inductive invariant, with one thread at a time that asks for the    *)
(* number and attributes that are freed before their entry.                *)
THEOREM Safety ==
  ASSUME MaxCounters <= 1, FreesInOrder
  PROVE  Spec => []IInv
  <1>1. IInv /\ [Next]_vars => IInv'
    <2> SUFFICES ASSUME IInv, [Next]_vars PROVE IInv'
      OBVIOUS
    <2>1. CASE UNCHANGED vars
      BY <2>1, Stutter
    <2>2. ASSUME NEW t \in Threads, Continue(t) PROVE IInv'
      BY <2>2, CheckStep, TestStep, MakeStep, ReadPartStep, GetNumberStep, GetSubStep,
         GetAttributeStep, GetNamedStep, GetHasStep DEF Continue
    <2>3. ASSUME NEW t \in Threads, ReadFails(t) PROVE IInv'
      BY <2>3, FreeStep DEF ReadFails
    <2>4. ASSUME NEW t \in Threads,
                 AnyBegin(t) \/ GetSubFails(t) \/ UseAttribute(t) \/ FreeAttribute(t)
          PROVE  IInv'
      BY <2>4, GrabStep, GetSubStep, UseStep, FreeAttributeStep
    <2>5. CASE FreeEntry
      BY <2>5, FreeEntryStep
    <2> QED
      BY <2>1, <2>2, <2>3, <2>4, <2>5 DEF Next, Ended
  <1> QED
    BY <1>1, InitInductive, PTL DEF Spec

(* Between calls the entry keeps its directory, its attributes and its     *)
(* target whole or not at all, and nothing else is allocated.              *)
THEOREM CachesAreWhole ==
  ASSUME MaxCounters <= 1, FreesInOrder
  PROVE  Spec => []WholeWhenUnlocked
  <1>1. IInv => WholeWhenUnlocked
    <2> SUFFICES ASSUME IInv, Unlocked, NEW d \in Objects
                 PROVE  size[d] = IF d \in Range(kept) THEN Parts ELSE Freed
      BY DEF WholeWhenUnlocked
    <2>1. \A t \in Threads : pc[t] = "idle"
      BY Numbers DEF IInv, OneCall, Unlocked
    <2>2. \A c \in Caches : kept[c] # NULL => size[kept[c]] = Parts
      BY <2>1 DEF IInv, Filled, Reads
    <2>3. d \in Range(kept) <=> \E c \in Caches : kept[c] = d
      BY DEF IInv, TypeOK, Range
    <2> QED
      BY <2>2, <2>3, Numbers DEF IInv, Owned
  <1> QED
    BY <1>1, Safety, PTL

(* Every number is that of the whole, and an index or a name is refused    *)
(* only when a read failed or there is nothing of it.                      *)
THEOREM AnswersAreOfTheWhole ==
  ASSUME MaxCounters <= 1, FreesInOrder
  PROVE  Spec => []AnswersAreWhole
  <1>1. IInv => AnswersAreWhole
    BY DEF IInv, AnswersAreWhole, AnswerIsWhole
  <1> QED
    BY <1>1, Safety, PTL

(* Nothing that was freed is read into, indexed or pointed to.             *)
THEOREM NothingFreedIsUsed ==
  ASSUME MaxCounters <= 1, FreesInOrder
  PROVE  Spec => []NoUseAfterFree
  <1>1. IInv => NoUseAfterFree
    BY DEF IInv, NoUseAfterFree
  <1> QED
    BY <1>1, Safety, PTL

------------------------------------------------------------------------------

(* The extent with a logical block number is one that holds it, and there  *)
(* is one if any extent holds it.                                          *)
LEMMA ExtentIsFound ==
  ASSUME NEW f, f.extents \in Seq(Extent), NEW number
  PROVE  /\ ExtentWith(f, number) \in 0 .. Len(f.extents)
         /\ ExtentWith(f, number) # 0 => Holds(f.extents[ExtentWith(f, number)], number)
  <1> DEFINE k == SelectInSeq(f.extents, LAMBDA x : Holds(x, number))
             I == {j \in 1 .. Len(f.extents) : Holds(f.extents[j], number)}
  <1>1. I \in SUBSET Nat /\ I \in SUBSET (1 .. Len(f.extents))
    OBVIOUS
  <1>2. k = IF I # {} THEN Min(I) ELSE 0
    BY DEF SelectInSeq
  <1>3. ExtentWith(f, number) = k
    BY DEF ExtentWith
  <1> HIDE DEF k
  <1>4. CASE I = {}
    BY <1>2, <1>3, <1>4
  <1>5. CASE I # {}
    <2>1. k \in I
      BY <1>1, <1>2, <1>5, LeastExists
    <2>2. k \in 1 .. Len(f.extents) /\ Holds(f.extents[k], number)
      BY <2>1
    <2> QED
      BY <1>3, <2>2
  <1> QED
    BY <1>4, <1>5

LEMMA ExtentFields ==
  ASSUME NEW s \in Seq(Extent), NEW k \in 1 .. Len(s)
  PROVE  /\ s[k].logical \in Nat /\ s[k].physical \in Nat /\ s[k].blocks \in Nat
         /\ s[k] \in Range(s)
  <1>1. s[k] \in Extent
    OBVIOUS
  <1>2. s[k] \in Range(s)
    BY DEF Range
  <1> QED
    BY <1>1, <1>2 DEF Extent

LEMMA AddressIs == ASSUME NEW n \in Nat PROVE Address(n) \in Nat
  <1>1. Relative \in Nat /\ Relative > 0 /\ GroupBlocks \in Nat
    BY AttributesAssumption
  <1>2. n \div Relative \in Nat /\ n % Relative \in Nat
    BY <1>1
  <1>3. \A a \in Nat : a * GroupBlocks \in Nat
    BY <1>1
  <1>4. (n \div Relative) * GroupBlocks \in Nat
    BY <1>2, <1>3
  <1> QED
    BY <1>2, <1>4 DEF Address

(* An attribute as the array keeps it.                                     *)
KeptAttribute ==
  [name : Names \cup {NoName}, size : Nat, data : BOOLEAN, block : Nat,
   from : Nat, prefix : {"user", "trusted", "secure", "other"}]

(* A place is kept below the limit of a 16-bit offset.                     *)
LEMMA OffsetIs ==
  ASSUME NEW n \in Nat
  PROVE  /\ n % OffsetLimit \in Nat
         /\ n < OffsetLimit => n % OffsetLimit = n
         /\ n = OffsetLimit => n % OffsetLimit = 0
  <1>1. OffsetLimit \in Nat /\ OffsetLimit > 0
    BY AttributesAssumption
  <1> QED
    BY <1>1

LEMMA SizesAre ==
  ASSUME NEW e, e.at \in Nat, e.nameSize \in Nat, e.valueSize \in Nat
  PROVE  NameEnd(e) \in Nat /\ DataSize(e) \in Nat /\ ValuesOffset(e) \in Nat
  <1>1. NameEnd(e) \in Nat /\ DataSize(e) \in Nat
    BY DEF NameEnd, FixedSize, DataSize
  <1> QED
    BY <1>1, OffsetIs DEF ValuesOffset

LEMMA PlacedIsKept ==
  ASSUME NEW e, Values(e) \in KeptAttribute, NEW place \in Nat
  PROVE  ValuesAt(e, place) \in KeptAttribute
  BY DEF ValuesAt, KeptAttribute

LEMMA ValuesAreKept ==
  ASSUME NEW e \in Entry
  PROVE  /\ Values(e) \in KeptAttribute
         /\ ValuesRead(e) \in KeptAttribute /\ ValuesStored(e) \in KeptAttribute
  <1>1. Values(e) \in KeptAttribute
    BY DEF Entry, Values, KeptAttribute
  <1>2. NameEnd(e) \in Nat /\ ValuesOffset(e) \in Nat
    BY SizesAre DEF Entry
  <1> QED
    BY <1>1, <1>2, PlacedIsKept DEF ValuesRead, ValuesStored

(* What an entry the image does not have is read as.                       *)
LEMMA EntryIs ==
  ASSUME NEW s \in Seq(Entry), NEW k \in Nat \ {0}
  PROVE  /\ k <= Len(s) => EntryOf(s, k) \in Entry /\ EntryOf(s, k) = s[k]
         /\ EntryOf(s, k).nameSize \in Nat /\ EntryOf(s, k).valueSize \in Nat
         /\ EntryOf(s, k).at \in Nat /\ EntryOf(s, k).local \in BOOLEAN
         /\ k > Len(s) => EntryOf(s, k).at = 0
         /\ ValuesRead(EntryOf(s, k)) \in KeptAttribute
         /\ Values([EntryOf(s, k) EXCEPT !.local = TRUE]) \in KeptAttribute
  <1>1. CASE k <= Len(s)
    <2>1. s[k] \in Entry
      BY <1>1
    <2>2. EntryOf(s, k) = s[k]
      BY <1>1 DEF EntryOf
    <2>3. [s[k] EXCEPT !.local = TRUE] \in Entry
      BY <2>1 DEF Entry
    <2>4. /\ s[k].nameSize \in Nat /\ s[k].valueSize \in Nat /\ s[k].at \in Nat
          /\ s[k].local \in BOOLEAN
      BY <2>1 DEF Entry
    <2>5. ValuesRead(s[k]) \in KeptAttribute /\ Values([s[k] EXCEPT !.local = TRUE]) \in KeptAttribute
      BY <2>1, <2>3, ValuesAreKept
    <2>6. ~(k > Len(s))
      BY <1>1
    <2> QED
      BY <2>1, <2>2, <2>4, <2>5, <2>6, Zenon
  <1>2. CASE k > Len(s)
    <2> DEFINE n == CHOOSE n \in Names : TRUE
               e == [name |-> n, prefix |-> "user", nameSize |-> 0, at |-> 0, local |-> FALSE,
                     valueSize |-> 0, block |-> 0]
    <2>1. EntryOf(s, k) = e
      BY <1>2 DEF EntryOf
    <2> HIDE DEF n
    <2>2. Values(e) \in KeptAttribute /\ Values([e EXCEPT !.local = TRUE]) \in KeptAttribute
      BY DEF Values, KeptAttribute
    <2>3. e.nameSize = 0 /\ e.valueSize = 0 /\ e.at = 0 /\ e.local = FALSE
      OBVIOUS
    <2> HIDE DEF e
    <2>4. ~(k <= Len(s)) /\ 0 \in Nat /\ FALSE \in BOOLEAN
      BY <1>2
    <2>5. ValuesOffset(e) \in Nat
      BY <2>3, <2>4, SizesAre
    <2>6. ValuesRead(e) \in KeptAttribute
      BY <2>2, <2>5, PlacedIsKept DEF ValuesRead
    <2> QED
      BY <2>1, <2>2, <2>3, <2>4, <2>6, Zenon
  <1> QED
    BY <1>1, <1>2

(* Where the calls of the recursion are: in blocks of the fork.            *)
InFork(p) == \E x \in Range(fork.extents) : \E n \in 0 .. x.blocks - 1 : p = Address(x.physical) + n

Called ==
  /\ stage = "table" => fork.type = "inline"
  /\ stage = "loop" => stack # <<>>
  /\ \A i \in 1 .. Len(stack) : InFork(stack[i].block)

(* The stream of a value: while it grows it is empty or all blocks of a    *)
(* value that is in one extent.                                            *)
Streamed ==
  /\ value \in KeptAttribute
  /\ stage = "segment" => value.block # 0
  /\ stage \in {"segment", "stream"} /\ value.block # 0 =>
       /\ ExtentWith(fork, value.block) # 0
       /\ value.size <= ExtentOfValue(value).blocks =>
            stream \in {<<>>, [k \in 1 .. value.size |-> Address(ExtentOfValue(value).physical) + k - 1]}
  /\ stage = "stream" /\ value.block # 0 => Len(stream) >= value.size

AttributesInv ==
  /\ AttributesTypeOK
  /\ Called
  /\ Streamed
  /\ NothingIsMadeUp

LEMMA ForkIs ==
  ASSUME fork \in Forks
  PROVE  /\ fork.extents \in Seq(Extent) /\ fork.entries \in Seq(Entry)
         /\ fork.count \in Nat /\ fork.size \in Nat \ {0} /\ fork.stated \in Nat
         /\ fork.type \in {"none", "inline", "mapped"}
         /\ \A p \in DOMAIN fork.disk : fork.disk[p] \in Leaf \cup Branch \cup Other
  BY AttributesAssumption

LEMMA BlockIs ==
  ASSUME NEW b \in Leaf \cup Branch \cup Other
  PROVE  /\ b.count \in Nat /\ b.kind \in {"leaf", "branch", "other"}
         /\ b.kind = "leaf" => b.entries \in Seq(Entry)
         /\ b.kind = "branch" => b.entries \in Seq(Nat)
  BY DEF Leaf, Branch, Other

Frame == [block : DOMAIN fork.disk, next : Nat]

LEMMA AttributesBegin ==
  AttributesInit => AttributesInv
  <1> SUFFICES ASSUME AttributesInit PROVE AttributesInv
    OBVIOUS
  <1>1. NoValue \in KeptAttribute
    BY DEF NoValue, KeptAttribute
  <1> QED
    BY <1>1, AttributesAssumption DEF AttributesInit, AttributesInv, AttributesTypeOK, Called,
      Streamed, NothingIsMadeUp, Depth

(* The end of a call takes the last frame away.                            *)
LEMMA FrontIs ==
  ASSUME NEW S, NEW s \in Seq(S), s # <<>>
  PROVE  /\ Front(s) \in Seq(S) /\ Len(Front(s)) = Len(s) - 1
         /\ \A i \in 1 .. Len(Front(s)) : i \in 1 .. Len(s) /\ Front(s)[i] = s[i]
  <1>1. Len(s) \in Nat /\ Len(s) > 0 /\ \A i \in 1 .. Len(s) : s[i] \in S
    OBVIOUS
  <1>2. /\ SubSeq(s, 1, Len(s) - 1) \in Seq(S)
        /\ Len(SubSeq(s, 1, Len(s) - 1)) = Len(s) - 1
        /\ \A i \in 1 .. Len(s) - 1 : SubSeq(s, 1, Len(s) - 1)[i] = s[i]
    <2> DEFINE n == Len(s) - 1
    <2>1. n \in Nat /\ n <= Len(s)
      BY <1>1
    <2> HIDE DEF n
    <2>2. SubSeq(s, 1, n) \in Seq(S)
      BY <2>1
    <2>3. Len(SubSeq(s, 1, n)) = n
      BY <2>1
    <2>4. ASSUME NEW i \in 1 .. n PROVE SubSeq(s, 1, n)[i] = s[i]
      BY <2>1
    <2> QED
      BY <2>2, <2>3, <2>4 DEF n
  <1>3. \A i \in 1 .. Len(s) - 1 : i \in 1 .. Len(s)
    BY <1>1
  <1> QED
    BY <1>2, <1>3 DEF Front

LEMMA ShorterFits ==
  ASSUME NEW S, NEW s \in Seq(S), s # <<>>, Len(s) <= MaxDepth + 1
  PROVE  Front(s) \in Seq(S) /\ Len(Front(s)) <= MaxDepth + 1
  <1>1. Front(s) \in Seq(S) /\ Len(Front(s)) = Len(s) - 1
    BY FrontIs
  <1>2. Len(s) \in Nat /\ MaxDepth \in Nat
    BY AttributesAssumption
  <1> QED
    BY <1>1, <1>2

(* The call of a block that can be visited.                                *)
LEMMA PushIs ==
  ASSUME AttributesTypeOK, CanVisit(MaxDepth)
  PROVE  /\ Push \in Seq(Frame) /\ Len(Push) = Len(stack) + 1
         /\ Len(Push) <= MaxDepth + 1 /\ Push # <<>>
         /\ \A i \in 1 .. Len(stack) : Push[i] = stack[i]
         /\ InFork(Push[Len(Push)].block)
  <1> DEFINE k == ExtentWith(fork, visit)
             x == fork.extents[k]
             p == Physical(x, visit)
  <1>1. fork.extents \in Seq(Extent) /\ visit \in Nat /\ stack \in Seq(Frame)
    BY ForkIs DEF AttributesTypeOK, Frame
  <1>2. k # 0 /\ p \in DOMAIN fork.disk /\ Len(stack) <= MaxDepth
    BY DEF CanVisit, Depth
  <1>3. k \in 1 .. Len(fork.extents) /\ Holds(x, visit)
    BY <1>1, <1>2, ExtentIsFound
  <1>4. /\ x.logical \in Nat /\ x.physical \in Nat /\ x.blocks \in Nat
        /\ x \in Range(fork.extents)
    BY <1>1, <1>3, ExtentFields
  <1> HIDE DEF k, x
  <1>5. visit - x.logical \in 0 .. x.blocks - 1
    BY <1>1, <1>3, <1>4 DEF Holds
  <1>6. p = Address(x.physical) + (visit - x.logical)
    BY DEF Physical
  <1>7. InFork(p)
    BY <1>4, <1>5, <1>6 DEF InFork
  <1> HIDE DEF p
  <1>8. Push = Append(stack, [block |-> p, next |-> 0])
    BY DEF Push, p, x, k
  <1>9. [block |-> p, next |-> 0] \in Frame
    BY <1>2 DEF Frame
  <1>10. MaxDepth \in Nat
    BY AttributesAssumption
  <1> QED
    BY <1>1, <1>2, <1>7, <1>8, <1>9, <1>10

(* The loop of a call goes on to its next entry.                           *)
LEMMA NextEntryIs ==
  ASSUME AttributesTypeOK, stack # <<>>, NextEntry
  PROVE  /\ stack' \in Seq(Frame) /\ Len(stack') = Len(stack)
         /\ \A i \in 1 .. Len(stack) : stack'[i].block = stack[i].block
  <1>1. stack \in Seq(Frame) /\ Len(stack) \in 1 .. Len(stack)
    BY DEF AttributesTypeOK, Frame
  <1>2. stack' = [stack EXCEPT ![Len(stack)].next = @ + 1]
    BY DEF NextEntry
  <1>3. \A i \in 1 .. Len(stack) : stack[i] \in Frame
    BY <1>1
  <1> DEFINE top == stack[Len(stack)]
             t == [top EXCEPT !.next = @ + 1]
  <1>4. top \in Frame
    BY <1>1, <1>3
  <1> HIDE DEF top
  <1>5. t \in Frame /\ t.block = top.block
    BY <1>4 DEF Frame
  <1>6. stack' = [stack EXCEPT ![Len(stack)] = t]
    BY <1>2 DEF top
  <1> HIDE DEF t
  <1> QED
    BY <1>1, <1>5, <1>6 DEF top

LEMMA TopIs ==
  ASSUME AttributesTypeOK, stack # <<>>
  PROVE  /\ Top \in Frame /\ Top.next \in Nat /\ Top.block \in DOMAIN fork.disk
         /\ Block \in Leaf \cup Branch \cup Other
  <1>1. stack \in Seq(Frame) /\ Len(stack) \in 1 .. Len(stack)
    BY DEF AttributesTypeOK, Frame
  <1>2. Top \in Frame
    BY <1>1 DEF Top
  <1>3. Top.next \in Nat /\ Top.block \in DOMAIN fork.disk
    BY <1>2 DEF Frame
  <1> QED
    BY <1>2, <1>3, ForkIs DEF AttributesTypeOK, Block

LEMMA FrameTyped ==
  AttributesTypeOK <=>
    /\ fork \in Forks
    /\ array \in Seq(KeptAttribute) /\ stack \in Seq(Frame) /\ Len(stack) <= MaxDepth + 1
    /\ visit \in Nat /\ attributeIndex \in Nat /\ offset \in Nat /\ faults \in 0 .. MaxFaults
    /\ stream \in Seq(Nat)
    /\ stage \in {"idle", "table", "visit", "loop", "unwind", "failed", "done",
                  "segment", "stream", "refused"}
  BY DEF AttributesTypeOK, KeptAttribute, Frame, Depth

(* An entry that is accepted is in the leaf, and its data behind its name  *)
(* where the place does not wrap.                                          *)
LEMMA FitsIsEntry ==
  ASSUME NEW b, b.count \in Nat, NEW e, e.at \in Nat, e.nameSize \in Nat, e.valueSize \in Nat,
         Fits(b, e)
  PROVE  IsEntry(b, e, ValuesRead(e))
  <1> DEFINE v == ValuesRead(e)
  <1>1. /\ BlockUnits \in Nat /\ FixedSize(e) \in Nat
        /\ NameEnd(e) \in Nat /\ DataSize(e) \in Nat /\ ValuesOffset(e) \in Nat
    BY SizesAre, AttributesAssumption DEF FixedSize
  <1>2. v.from = IF DataSize(e) = 0 THEN 0 ELSE ValuesOffset(e)
    BY DEF ValuesRead, ValuesAt, Values
  <1>3. v = ValuesAt(e, v.from)
    BY <1>2 DEF ValuesRead, ValuesAt
  <1>4. EntriesEnd(b) <= e.at /\ NameEnd(e) <= BlockUnits
    BY <1>1 DEF Fits, NameEnd
  <1>5. v.from + DataSize(e) <= BlockUnits
    <2>1. CASE DataSize(e) = 0
      BY <1>1, <1>2, <2>1
    <2>2. CASE DataSize(e) # 0
      <3>1. e.local /\ DataSize(e) = e.valueSize
        BY <2>2 DEF DataSize
      <3> QED
        BY <1>1, <1>2, <2>2, <3>1 DEF Fits
    <2> QED
      BY <2>1, <2>2
  <1>6. NameEnd(e) < OffsetLimit => v = ValuesStored(e)
    BY <1>1, OffsetIs DEF ValuesRead, ValuesStored, ValuesOffset
  <1> HIDE DEF v
  <1>7. IsEntry(b, e, v)
    BY <1>3, <1>4, <1>5, <1>6 DEF IsEntry
  <1> QED
    BY <1>7 DEF v

(* What an iteration of the loop over a leaf appends is in the leaf.       *)
LEMMA LeafEntryIs ==
  ASSUME AttributesTypeOK, stack # <<>>, Block.kind = "leaf", Top.next < Block.count,
         Fits(Block, EntryOf(Block.entries, Top.next + 1))
  PROVE  \E k \in 1 .. Len(Block.entries) :
           /\ EntryOf(Block.entries, Top.next + 1) = Block.entries[k]
           /\ IsEntry(Block, Block.entries[k], ValuesRead(Block.entries[k]))
  <1> DEFINE b == Block
             k == Top.next + 1
             e == EntryOf(b.entries, k)
  <1>1. b.entries \in Seq(Entry) /\ k \in Nat \ {0} /\ b.count \in Nat /\ b.count > 0
    BY TopIs, BlockIs
  <1>2. /\ e.nameSize \in Nat /\ e.valueSize \in Nat /\ e.at \in Nat /\ e.local \in BOOLEAN
        /\ k > Len(b.entries) => e.at = 0
        /\ k <= Len(b.entries) => e = b.entries[k]
    BY <1>1, EntryIs
  <1>3. BlockUnits \in Nat /\ HeaderUnits \in Nat
    BY AttributesAssumption
  <1>4. Fits(b, e)
    OBVIOUS
  <1> HIDE DEF b, k, e
  <1>5. EntriesEnd(b) = HeaderUnits + b.count
    BY DEF EntriesEnd
  <1>6. e.at > 0
    BY <1>1, <1>2, <1>3, <1>4, <1>5 DEF Fits
  <1>7. k \in 1 .. Len(b.entries) /\ e = b.entries[k]
    BY <1>1, <1>2, <1>6
  <1>8. IsEntry(b, e, ValuesRead(e))
    BY <1>1, <1>2, <1>4, FitsIsEntry
  <1> QED
    BY <1>7, <1>8 DEF b, k, e

LEMMA AttributesTypeStep ==
  ASSUME AttributesInv, [AttributesNext]_attributesVars
  PROVE  AttributesTypeOK'
  <1> USE DEF AttributesInv
  <1>0. /\ fork \in Forks
        /\ array \in Seq(KeptAttribute) /\ stack \in Seq(Frame) /\ Len(stack) <= MaxDepth + 1
        /\ visit \in Nat /\ attributeIndex \in Nat /\ offset \in Nat /\ faults \in 0 .. MaxFaults
        /\ stream \in Seq(Nat) /\ value \in KeptAttribute
        /\ stage \in {"idle", "table", "visit", "loop", "unwind", "failed", "done",
                      "segment", "stream", "refused"}
    BY FrameTyped DEF Streamed
  <1>1. SUFFICES
          /\ fork' = fork
          /\ array' \in Seq(KeptAttribute) /\ stack' \in Seq(Frame) /\ Len(stack') <= MaxDepth + 1
          /\ visit' \in Nat /\ attributeIndex' \in Nat /\ offset' \in Nat
          /\ faults' \in 0 .. MaxFaults
          /\ stream' \in Seq(Nat)
          /\ stage' \in {"idle", "table", "visit", "loop", "unwind", "failed", "done",
                         "segment", "stream", "refused"}
    BY <1>0 DEF AttributesTypeOK, KeptAttribute, Frame, Depth
  <1>2. <<>> \in Seq(KeptAttribute) /\ <<>> \in Seq(Nat)
    OBVIOUS
  <1>3. CASE GetFromInode
    BY <1>0, <1>2, <1>3, ForkIs DEF GetFromInode, data
  <1>4. CASE ReadTableEntry
    <2> DEFINE e == EntryOf(fork.entries, attributeIndex + 1)
    <2>1. fork.entries \in Seq(Entry) /\ attributeIndex + 1 \in Nat \ {0}
      BY <1>0, ForkIs
    <2>2. /\ e.nameSize \in Nat /\ e.valueSize \in Nat
          /\ Values([e EXCEPT !.local = TRUE]) \in KeptAttribute
      BY <2>1, EntryIs
    <2>3. /\ array' \in {array, <<>>, Append(array, Values([e EXCEPT !.local = TRUE]))}
          /\ attributeIndex' \in {attributeIndex, attributeIndex + 1}
          /\ offset' \in {offset, offset + 1 + e.nameSize + e.valueSize}
          /\ stage' \in {"failed", "table"}
          /\ UNCHANGED <<fork, stack, visit, faults, stream>>
      BY <1>4 DEF ReadTableEntry, Emptied, table, data
    <2> DEFINE v == Values([e EXCEPT !.local = TRUE])
    <2> HIDE DEF v
    <2>4. array' \in Seq(KeptAttribute)
      <3>1. v \in KeptAttribute /\ array' \in {array, <<>>, Append(array, v)}
        BY <2>2, <2>3 DEF v
      <3>2. Append(array, v) \in Seq(KeptAttribute)
        BY <1>0, <3>1
      <3> QED
        BY <1>0, <1>2, <3>1, <3>2, Zenon
    <2> HIDE DEF e
    <2>5. attributeIndex' \in Nat /\ offset' \in Nat
      BY <1>0, <2>2, <2>3
    <2>6. /\ stage' \in {"failed", "table"}
          /\ UNCHANGED <<fork, stack, visit, faults, stream>>
      BY <2>3
    <2> HIDE DEF v, AttributesInv
    <2> QED
      BY <1>0, <2>4, <2>5, <2>6
  <1>5. CASE EndTable
    BY <1>0, <1>5 DEF EndTable, table, data
  <1>6. CASE Visit
    <2>1. CASE CanVisit(MaxDepth)
      <3>1. Push \in Seq(Frame) /\ Len(Push) <= MaxDepth + 1
        BY <2>1, PushIs
      <3>2. stack' = Push /\ stage' = "loop"
            /\ UNCHANGED <<fork, array, visit, attributeIndex, offset, faults, stream>>
        BY <1>6, <2>1 DEF Visit, table, data
      <3> QED
        BY <1>0, <3>1, <3>2
    <2>2. CASE ~CanVisit(MaxDepth)
      BY <1>0, <1>6, <2>2 DEF Visit, table, data
    <2> QED
      BY <2>1, <2>2
  <1>7. CASE ReadLeafEntry
    <2> DEFINE e == EntryOf(Block.entries, Top.next + 1)
    <2>1. stack # <<>>
      BY <1>7 DEF ReadLeafEntry, Called
    <2>2. ValuesRead(e) \in KeptAttribute
      <3>1. Block \in Leaf \cup Branch \cup Other /\ Top.next \in Nat
        BY <2>1, TopIs
      <3>2. Block.entries \in Seq(Entry)
        BY <1>7, <3>1, BlockIs DEF ReadLeafEntry
      <3>3. Top.next + 1 \in Nat \ {0}
        BY <3>1
      <3> QED
        BY <3>2, <3>3, EntryIs
    <2>3. /\ \/ array' = Append(array, ValuesRead(e)) /\ NextEntry /\ stage' = "loop"
             \/ array' = <<>> /\ stack' = stack /\ stage' = "unwind"
          /\ UNCHANGED <<fork, visit, attributeIndex, offset, faults, stream>>
      BY <1>7 DEF ReadLeafEntry, table, data
    <2>4. NextEntry => stack' \in Seq(Frame) /\ Len(stack') = Len(stack)
      BY <2>1, NextEntryIs
    <2> DEFINE v == ValuesRead(e)
    <2>5. v \in KeptAttribute
      BY <2>2
    <2> HIDE DEF e, v
    <2>6. Append(array, v) \in Seq(KeptAttribute)
      BY <1>0, <2>5
    <2> QED
      BY <1>0, <1>2, <2>3, <2>4, <2>6 DEF v
  <1>8. CASE ReadBranchEntry
    <2>1. stack # <<>>
      BY <1>8 DEF ReadBranchEntry, Called
    <2>2. Block.entries \in Seq(Nat) /\ Top.next \in Nat
      BY <1>8, <2>1, TopIs, BlockIs DEF ReadBranchEntry
    <2>3. visit' \in Nat
      BY <1>8, <2>2 DEF ReadBranchEntry
    <2>4. stack' \in Seq(Frame) /\ Len(stack') = Len(stack)
      BY <1>8, <2>1, NextEntryIs DEF ReadBranchEntry
    <2> QED
      BY <1>0, <1>8, <2>3, <2>4 DEF ReadBranchEntry, table, data
  <1>9. CASE EndBlock
    <2>1. Front(stack) \in Seq(Frame) /\ Len(Front(stack)) <= MaxDepth + 1
      BY <1>0, <1>9, ShorterFits DEF EndBlock, Called
    <2> QED
      BY <1>0, <1>9, <2>1 DEF EndBlock, table, data
  <1>10. CASE Unwind
    <2>1. stack # <<>> => Front(stack) \in Seq(Frame) /\ Len(Front(stack)) <= MaxDepth + 1
      BY <1>0, ShorterFits
    <2> QED
      BY <1>0, <1>2, <1>10, <2>1 DEF Unwind, table, data
  <1>11. CASE FreeArray
    BY <1>0, <1>2, <1>11 DEF FreeArray, table, data
  <1>12. CASE AppendSegment
    <2> DEFINE x == ExtentOfValue(value)
               count == Smaller(x.blocks, value.size - Len(stream))
               s == [k \in 1 .. count |-> Address(x.physical) + k - 1]
    <2>1. /\ stream' = stream \o s
          /\ UNCHANGED <<fork, array, stack, visit, attributeIndex, offset, faults, stage>>
          /\ value.size > Len(stream)
      BY <1>12 DEF AppendSegment, table
    <2>2. x.physical \in Nat /\ x.blocks \in Nat
      <3>1. ExtentWith(fork, value.block) \in 1 .. Len(fork.extents)
        BY <1>0, <1>12, ForkIs, ExtentIsFound DEF AppendSegment, Streamed
      <3> QED
        BY <1>0, <3>1, ForkIs, ExtentFields DEF ExtentOfValue
    <2>3. count \in Nat
      BY <1>0, <2>1, <2>2 DEF Smaller, KeptAttribute
    <2>4. Address(x.physical) \in Nat
      BY <2>2, AddressIs
    <2> HIDE DEF x, count
    <2>5. s \in Seq(Nat)
      BY <2>3, <2>4
    <2> QED
      BY <1>0, <2>1, <2>5
  <1>13. CASE EndStream
    BY <1>0, <1>13 DEF EndStream, table, data
  <1>14. CASE ReadFault
    BY <1>0, <1>14, AttributesAssumption DEF ReadFault, table, data
  <1>15. CASE \E k \in 1 .. Len(array) : GetValue(array[k])
    BY <1>0, <1>2, <1>15 DEF GetValue, table
  <1>16. CASE CloseValue
    BY <1>0, <1>2, <1>16 DEF CloseValue, table
  <1>17. CASE UNCHANGED attributesVars
    BY <1>0, <1>17 DEF attributesVars
  <1> QED
    BY <1>3, <1>4, <1>5, <1>6, <1>7, <1>8, <1>9, <1>10, <1>11, <1>12, <1>13, <1>14, <1>15,
       <1>16, <1>17 DEF AttributesNext, Step

(* A call is made for a block of the fork, and its loop leaves the block   *)
(* as it is.                                                               *)
LEMMA CalledStep ==
  ASSUME AttributesInv, [AttributesNext]_attributesVars
  PROVE  Called'
  <1> USE DEF AttributesInv
  <1>0. /\ stack \in Seq(Frame) /\ Len(stack) \in Nat
        /\ stage = "table" => fork.type = "inline"
        /\ stage = "loop" => stack # <<>>
        /\ \A i \in 1 .. Len(stack) : InFork(stack[i].block)
    <2>1. stack \in Seq(Frame)
      BY FrameTyped
    <2> QED
      BY <2>1 DEF Called
  <1>1. SUFFICES /\ fork' = fork
                 /\ stage' = "table" => fork.type = "inline"
                 /\ stage' = "loop" => stack' # <<>>
                 /\ \A i \in 1 .. Len(stack') : InFork(stack'[i].block)
    BY DEF Called, InFork
  <1>2. CASE GetFromInode
    <2>1. fork.type \in {"none", "inline", "mapped"}
      BY ForkIs DEF AttributesTypeOK
    <2>2. UNCHANGED <<fork, stack>> /\ stage' # "loop"
          /\ (stage' = "table" => fork.type = "inline")
      BY <1>2, <2>1 DEF GetFromInode
    <2> QED
      BY <1>0, <2>2
  <1>3. CASE ReadTableEntry
    <2>1. UNCHANGED <<fork, stack>> /\ stage' \in {"failed", "table"} /\ stage = "table"
      BY <1>3 DEF ReadTableEntry
    <2> QED
      BY <1>0, <2>1
  <1>4. CASE Visit
    <2>1. CASE CanVisit(MaxDepth)
      <3>1. /\ Push \in Seq(Frame) /\ Len(Push) = Len(stack) + 1 /\ Push # <<>>
            /\ \A i \in 1 .. Len(stack) : Push[i] = stack[i]
            /\ InFork(Push[Len(Push)].block)
        BY <2>1, PushIs
      <3>2. stack' = Push /\ stage' = "loop" /\ fork' = fork
        BY <1>4, <2>1 DEF Visit
      <3>3. ASSUME NEW i \in 1 .. Len(Push) PROVE InFork(Push[i].block)
        <4>1. CASE i = Len(Push)
          BY <3>1, <4>1
        <4>2. CASE i # Len(Push)
          <5>1. i \in 1 .. Len(stack)
            BY <1>0, <3>1, <4>2
          <5> QED
            BY <1>0, <3>1, <5>1
        <4> QED
          BY <4>1, <4>2
      <3> QED
        BY <3>1, <3>2, <3>3
    <2>2. CASE ~CanVisit(MaxDepth)
      BY <1>0, <1>4, <2>2 DEF Visit
    <2> QED
      BY <2>1, <2>2
  <1>5. ASSUME NextEntry, stack # <<>>, UNCHANGED fork, stage' \in {"loop", "visit"}
        PROVE  /\ fork' = fork /\ stage' # "table" /\ stack' # <<>>
               /\ \A i \in 1 .. Len(stack') : InFork(stack'[i].block)
    <2>1. /\ stack' \in Seq(Frame) /\ Len(stack') = Len(stack)
          /\ \A i \in 1 .. Len(stack) : stack'[i].block = stack[i].block
      BY <1>5, NextEntryIs
    <2>2. stack' # <<>>
      BY <1>5, <2>1
    <2> QED
      BY <1>0, <1>5, <2>1, <2>2
  <1>6. CASE ReadLeafEntry
    <2>1. stage = "loop" /\ fork' = fork
          /\ \/ NextEntry /\ stage' = "loop"
             \/ stack' = stack /\ stage' = "unwind"
      BY <1>6 DEF ReadLeafEntry
    <2> QED
      BY <1>0, <1>5, <2>1
  <1>7. CASE ReadBranchEntry
    <2>1. stage = "loop" /\ fork' = fork /\ NextEntry /\ stage' = "visit"
      BY <1>7 DEF ReadBranchEntry
    <2> QED
      BY <1>0, <1>5, <2>1
  <1>8. stack # <<>> =>
          /\ Front(stack) \in Seq(Frame) /\ Len(Front(stack)) = Len(stack) - 1
          /\ \A i \in 1 .. Len(Front(stack)) : InFork(Front(stack)[i].block)
    BY <1>0, FrontIs
  <1>9. CASE EndBlock
    <2>1. stack # <<>> /\ fork' = fork /\ stack' = Front(stack)
          /\ stage' = IF Len(stack) = 1 THEN "done" ELSE "loop"
      BY <1>0, <1>9 DEF EndBlock
    <2>2. Len(stack) # 1 => Front(stack) # <<>>
      BY <1>0, <1>8, <2>1
    <2> QED
      BY <1>8, <2>1, <2>2
  <1>10. CASE Unwind
    BY <1>0, <1>8, <1>10 DEF Unwind
  <1>11. CASE EndTable \/ FreeArray \/ EndStream \/ ReadFault
    BY <1>0, <1>11 DEF EndTable, FreeArray, EndStream, ReadFault
  <1>12. CASE AppendSegment
    BY <1>0, <1>12 DEF AppendSegment
  <1>13. CASE \E k \in 1 .. Len(array) : GetValue(array[k])
    BY <1>0, <1>13 DEF GetValue
  <1>14. CASE CloseValue
    BY <1>0, <1>14 DEF CloseValue
  <1>15. CASE UNCHANGED attributesVars
    BY <1>0, <1>15 DEF attributesVars
  <1> QED
    BY <1>2, <1>3, <1>4, <1>6, <1>7, <1>9, <1>10, <1>11, <1>12, <1>13, <1>14, <1>15
    DEF AttributesNext, Step

(* A segment that begins a value of one extent ends it too.                *)
LEMMA StreamedStep ==
  ASSUME AttributesInv, [AttributesNext]_attributesVars
  PROVE  Streamed'
  <1> USE DEF AttributesInv
  <1>1. array \in Seq(KeptAttribute) /\ stream \in Seq(Nat) /\ value \in KeptAttribute /\ NoValue \in KeptAttribute
        /\ fork.extents \in Seq(Extent)
    <2>1. NoValue \in KeptAttribute
      BY DEF NoValue, KeptAttribute
    <2> QED
      BY <2>1, FrameTyped, ForkIs DEF Streamed
  <1>2. CASE GetFromInode \/ ReadTableEntry \/ EndTable \/ Visit \/ ReadLeafEntry
             \/ ReadBranchEntry \/ EndBlock \/ Unwind \/ FreeArray \/ ReadFault
    <2>1. value' = value /\ ~(stage' \in {"segment", "stream"})
      <3>1. ASSUME GetFromInode \/ EndTable \/ FreeArray \/ ReadFault
            PROVE  value' = value /\ ~(stage' \in {"segment", "stream"})
        <4>1. fork.type \in {"none", "inline", "mapped"}
          BY ForkIs DEF AttributesTypeOK
        <4> QED
          BY <3>1, <4>1 DEF GetFromInode, EndTable, FreeArray, ReadFault, data
      <3>2. ASSUME ReadTableEntry \/ Visit \/ Unwind
            PROVE  value' = value /\ ~(stage' \in {"segment", "stream"})
        BY <3>2 DEF ReadTableEntry, Visit, Unwind, data
      <3>3. ASSUME ReadLeafEntry \/ ReadBranchEntry \/ EndBlock
            PROVE  value' = value /\ ~(stage' \in {"segment", "stream"})
        BY <3>3 DEF ReadLeafEntry, ReadBranchEntry, EndBlock, data
      <3> QED
        BY <1>2, <3>1, <3>2, <3>3
    <2> QED
      BY <1>1, <2>1 DEF Streamed
  <1>3. CASE AppendSegment
    <2> DEFINE x == ExtentOfValue(value)
               all == [k \in 1 .. value.size |-> Address(x.physical) + k - 1]
               count == Smaller(x.blocks, value.size - Len(stream))
               some == [k \in 1 .. count |-> Address(x.physical) + k - 1]
    <2>1. /\ UNCHANGED <<fork, value>> /\ stage = "segment" /\ stage' = "segment"
          /\ Len(stream) < value.size /\ stream' = stream \o some
      BY <1>3 DEF AppendSegment
    <2>2. /\ value.block # 0 /\ ExtentWith(fork, value.block) # 0
          /\ value.size <= x.blocks => stream \in {<<>>, all}
      BY <2>1 DEF Streamed
    <2>3. x' = x
      BY <2>1 DEF ExtentOfValue
    <2>4. /\ x.blocks \in Nat /\ x.physical \in Nat /\ Address(x.physical) \in Nat
      <3>1. ExtentWith(fork, value.block) \in 1 .. Len(fork.extents)
        BY <1>1, <2>2, ExtentIsFound
      <3>2. x.blocks \in Nat /\ x.physical \in Nat
        BY <1>1, <3>1, ExtentFields DEF ExtentOfValue
      <3> QED
        BY <3>2, AddressIs
    <2>5. value.size \in Nat
      BY <1>1 DEF KeptAttribute
    <2>6. ASSUME value.size <= x.blocks PROVE stream' = all
      <3> HIDE DEF x
      <3>1. all \in Seq(Nat) /\ Len(all) = value.size
        BY <2>4, <2>5
      <3>2. stream = <<>>
        <4>1. stream \in {<<>>, all}
          BY <2>2, <2>6 DEF x
        <4> HIDE DEF all
        <4>2. stream # all
          BY <2>1, <2>5, <3>1
        <4> QED
          BY <4>1, <4>2
      <3>3. count = value.size
        BY <2>4, <2>5, <2>6, <3>2 DEF Smaller
      <3>4. some = all
        BY <3>3
      <3> HIDE DEF all, some
      <3> QED
        BY <2>1, <3>1, <3>2, <3>4
    <2>7. /\ value' \in KeptAttribute /\ (stage' = "segment" => value'.block # 0)
          /\ stage' # "stream"
          /\ (ExtentWith(fork, value.block))' # 0
      BY <1>1, <2>1, <2>2
    <2>8. all' = all
      BY <2>1, <2>3
    <2>9. value'.size <= x'.blocks => stream' \in {<<>>, all'}
      <3>1. value'.size <= x'.blocks => value.size <= x.blocks
        BY <2>1, <2>3
      <3> QED
        BY <2>6, <2>8, <3>1
    <2> QED
      BY <2>7, <2>9 DEF Streamed
  <1>4. CASE EndStream
    <2>1. /\ UNCHANGED <<fork, value, stream>> /\ stage = "segment" /\ stage' = "stream"
          /\ Len(stream) >= value.size
      BY <1>4 DEF EndStream, data
    <2> QED
      BY <2>1 DEF Streamed, ExtentOfValue
  <1>5. CASE \E k \in 1 .. Len(array) : GetValue(array[k])
    <2>1. PICK v \in KeptAttribute : GetValue(v)
      BY <1>1, <1>5
    <2>2. /\ UNCHANGED fork /\ value' = v /\ stream' = <<>>
          /\ stage' = "segment" => v.block # 0 /\ ExtentWith(fork, v.block) # 0
          /\ stage' = "stream" => v.block = 0
      BY <2>1 DEF GetValue
    <2> QED
      BY <2>2 DEF Streamed
  <1>6. CASE CloseValue
    BY <1>1, <1>6 DEF CloseValue, Streamed
  <1>7. CASE UNCHANGED attributesVars
    BY <1>7 DEF attributesVars, Streamed, ExtentOfValue
  <1> QED
    BY <1>2, <1>3, <1>4, <1>5, <1>6, <1>7 DEF AttributesNext, Step

(* An attribute a leaf of the fork has.                                    *)
Listed(v) ==
  \E x \in Range(fork.extents) : \E n \in 0 .. x.blocks - 1 :
    LET p == Address(x.physical) + n
    IN  /\ p \in DOMAIN fork.disk
        /\ fork.disk[p].kind = "leaf"
        /\ \E k \in 1 .. Len(fork.disk[p].entries) :
             IsEntry(fork.disk[p], fork.disk[p].entries[k], v)

LEMMA MadeUpStep ==
  ASSUME AttributesInv, [AttributesNext]_attributesVars
  PROVE  NothingIsMadeUp'
  <1> USE DEF AttributesInv
  <1>1. /\ array \in Seq(KeptAttribute) /\ stack \in Seq(Frame)
        /\ fork.type = "mapped" => \A i \in 1 .. Len(array) : Listed(array[i])
    BY FrameTyped DEF NothingIsMadeUp, Listed
  <1>2. SUFFICES /\ fork' = fork
                 /\ fork.type = "mapped" => \A i \in 1 .. Len(array') : Listed(array'[i])
    BY DEF NothingIsMadeUp, Listed
  <1>3. CASE ReadTableEntry
    <2>1. stage = "table" /\ fork' = fork
      BY <1>3 DEF ReadTableEntry
    <2> QED
      BY <2>1 DEF Called
  <1>4. CASE ReadLeafEntry
    <2> DEFINE e == EntryOf(Block.entries, Top.next + 1)
    <2>1. /\ stage = "loop" /\ Block.kind = "leaf" /\ Top.next < Block.count
          /\ fork' = fork
          /\ \/ array' = <<>>
             \/ Fits(Block, e) /\ array' = Append(array, ValuesRead(e))
      BY <1>4 DEF ReadLeafEntry
    <2>2. stack # <<>>
      BY <2>1 DEF Called
    <2>3. ASSUME Fits(Block, e) PROVE ValuesRead(e) \in KeptAttribute /\ Listed(ValuesRead(e))
      <3>1. PICK k \in 1 .. Len(Block.entries) :
              e = Block.entries[k] /\ IsEntry(Block, Block.entries[k], ValuesRead(Block.entries[k]))
        BY <2>1, <2>2, <2>3, LeafEntryIs
      <3>2. Block.entries \in Seq(Entry)
        BY <2>1, <2>2, TopIs, BlockIs
      <3>3. e \in Entry
        BY <3>1, <3>2
      <3>4. Len(stack) \in 1 .. Len(stack) /\ Top.block \in DOMAIN fork.disk
        BY <1>1, <2>2, TopIs
      <3>5. InFork(Top.block)
        BY <3>4 DEF Called, Top
      <3>6. PICK x \in Range(fork.extents) :
              \E n \in 0 .. x.blocks - 1 : Top.block = Address(x.physical) + n
        BY <3>5 DEF InFork
      <3>7. PICK n \in 0 .. x.blocks - 1 : Top.block = Address(x.physical) + n
        BY <3>6
      <3>8. Listed(ValuesRead(e))
        <4> HIDE DEF e
        <4> QED
          BY <2>1, <3>1, <3>4, <3>7 DEF Listed, Block
      <3> QED
        BY <3>3, <3>8, ValuesAreKept
    <2> DEFINE v == ValuesRead(e)
    <2>4. Fits(Block, e) => v \in KeptAttribute /\ Listed(v)
      BY <2>3
    <2>5. array' = <<>> \/ (v \in KeptAttribute /\ Listed(v) /\ array' = Append(array, v))
      BY <2>1, <2>4
    <2> HIDE DEF v
    <2> QED
      BY <1>1, <2>1, <2>5
  <1>5. CASE array' \in {array, <<>>} /\ UNCHANGED fork
    BY <1>1, <1>5
  <1>6. CASE GetFromInode \/ EndTable \/ Visit \/ ReadBranchEntry \/ EndBlock
             \/ Unwind \/ FreeArray \/ ReadFault \/ AppendSegment \/ EndStream
    <2>1. ASSUME GetFromInode \/ EndTable \/ FreeArray \/ ReadFault
          PROVE  array' \in {array, <<>>} /\ UNCHANGED fork
      BY <2>1 DEF GetFromInode, EndTable, FreeArray, ReadFault
    <2>2. ASSUME Visit \/ ReadBranchEntry \/ EndBlock \/ Unwind
          PROVE  array' \in {array, <<>>} /\ UNCHANGED fork
      BY <2>2 DEF Visit, ReadBranchEntry, EndBlock, Unwind
    <2>3. ASSUME AppendSegment \/ EndStream
          PROVE  array' \in {array, <<>>} /\ UNCHANGED fork
      BY <2>3 DEF AppendSegment, EndStream
    <2> QED
      BY <1>5, <1>6, <2>1, <2>2, <2>3
  <1>7. CASE \E k \in 1 .. Len(array) : GetValue(array[k])
    BY <1>5, <1>7 DEF GetValue
  <1>8. CASE CloseValue
    BY <1>5, <1>8 DEF CloseValue
  <1>9. CASE UNCHANGED attributesVars
    BY <1>5, <1>9 DEF attributesVars
  <1> QED
    BY <1>3, <1>4, <1>6, <1>7, <1>8, <1>9 DEF AttributesNext, Step

(* Reading the attributes of an inode keeps the invariant.                 *)
THEOREM AttributesSafety == AttributesSpec => []AttributesInv
  <1>1. AttributesInv /\ [AttributesNext]_attributesVars => AttributesInv'
    BY AttributesTypeStep, CalledStep, StreamedStep, MadeUpStep DEF AttributesInv
  <1> QED
    BY <1>1, AttributesBegin, PTL DEF AttributesSpec

(* libfsxfs_attributes_get_from_block: every variable stays in its range,  *)
(* and the calls of the recursion are at most one more than the maximum    *)
(* depth, of a damaged tree with a cycle too.                              *)
THEOREM AttributesTypeCorrect == AttributesSpec => []AttributesTypeOK
  <1>1. AttributesInv => AttributesTypeOK
    BY DEF AttributesInv
  <1> QED
    BY <1>1, AttributesSafety, PTL

(* libfsxfs_attributes_read_leaf_values: whatever a damaged tree holds, an *)
(* attribute that is listed is an entry of a leaf in an extent of the      *)
(* fork, its name and its data lie in that leaf, and the data follows the  *)
(* name unless the name ends where the 16-bit offset of the values wraps.  *)
THEOREM ListedIsStored == AttributesSpec => []NothingIsMadeUp
  <1>1. AttributesInv => NothingIsMadeUp
    BY DEF AttributesInv
  <1> QED
    BY <1>1, AttributesSafety, PTL

LEMMA OneExtent ==
  ASSUME AttributesInv
  PROVE  ValueOfOneExtentIsRead
  <1> DEFINE i == ExtentWith(fork, value.block)
             x == ExtentOfValue(value)
             all == [k \in 1 .. value.size |-> Address(x.physical) + k - 1]
  <1>1. SUFFICES ASSUME stage = "stream", value.block # 0, Mapped(value),
                        x.logical = value.block, value.size <= x.blocks, ExtentsApart(fork)
                 PROVE  stream = BlocksOfValue(value)
    BY DEF ValueOfOneExtentIsRead
  <1>2. /\ value.block \in Nat /\ value.size \in Nat /\ stream \in Seq(Nat)
        /\ fork.extents \in Seq(Extent)
    BY FrameTyped, ForkIs DEF AttributesInv, Streamed, KeptAttribute
  <1>3. i # 0 /\ stream \in {<<>>, all} /\ Len(stream) >= value.size
    BY <1>1 DEF AttributesInv, Streamed
  <1>4. i \in 1 .. Len(fork.extents) /\ x = fork.extents[i]
    BY <1>2, <1>3, ExtentIsFound DEF ExtentOfValue
  <1>5. x.logical \in Nat /\ x.physical \in Nat /\ x.blocks \in Nat
    BY <1>2, <1>4, ExtentFields
  <1>6. Address(x.physical) \in Nat
    BY <1>5, AddressIs
  <1> HIDE DEF i, x
  <1>7. stream = all
    <2>1. CASE value.size = 0
      BY <1>3, <2>1
    <2>2. CASE value.size # 0
      BY <1>2, <1>3, <2>2
    <2> QED
      BY <2>1, <2>2
  <1>8. ASSUME NEW k \in 1 .. value.size
        PROVE  BlockOf(fork, value.block + k - 1) = Address(x.physical) + k - 1
    <2> DEFINE n == value.block + k - 1
               j == ExtentWith(fork, n)
               y == fork.extents[j]
    <2>1. n \in Nat /\ n = value.block + (k - 1) /\ k - 1 \in 0 .. value.size - 1
      BY <1>2
    <2>2. j # 0
      <3>1. ExtentWith(fork, value.block + (k - 1)) # 0
        BY <1>1, <2>1 DEF Mapped
      <3> QED
        BY <2>1, <3>1
    <2>3. j \in 1 .. Len(fork.extents) /\ Holds(y, n)
      BY <1>2, <2>2, ExtentIsFound
    <2>4. y.logical \in Nat /\ y.blocks \in Nat
      BY <1>2, <2>3, ExtentFields
    <2>5. BlockOf(fork, n) = Address(y.physical) + (n - y.logical)
      BY DEF BlockOf, Physical
    <2> HIDE DEF j
    <2>6. /\ y.logical <= n /\ n < y.logical + y.blocks
          /\ x.logical <= n /\ n < x.logical + x.blocks
      BY <1>1, <1>2, <1>5, <2>1, <2>3 DEF Holds
    <2> HIDE DEF n, y
    <2>7. i = j
      <3>1. ~(i < j)
        <4>1. i < j => x.logical + x.blocks <= y.logical
          BY <1>1, <1>4, <2>3 DEF ExtentsApart, y
        <4> QED
          BY <1>5, <2>1, <2>4, <2>6, <4>1
      <3>2. ~(j < i)
        <4>1. j < i => y.logical + y.blocks <= x.logical
          BY <1>1, <1>4, <2>3 DEF ExtentsApart, y
        <4> QED
          BY <1>5, <2>1, <2>4, <2>6, <4>1
      <3> QED
        BY <1>4, <2>3, <3>1, <3>2
    <2>8. y = x
      BY <1>4, <2>7 DEF y
    <2>9. n - x.logical = k - 1
      BY <1>1, <1>2, <2>1
    <2>10. BlockOf(fork, n) = Address(x.physical) + (k - 1)
      BY <2>5, <2>8, <2>9
    <2> QED
      BY <1>6, <2>10 DEF n
  <1>9. BlocksOfValue(value) = all
    BY <1>8 DEF BlocksOfValue
  <1> QED
    BY <1>7, <1>9

(* libfsxfs_attributes_get_value_data_stream: a remote value that begins   *)
(* an extent of an undamaged fork and does not leave it is read from its   *)
(* own blocks, all of them and no more.                                    *)
THEOREM OneExtentIsRead == AttributesSpec => []ValueOfOneExtentIsRead
  BY AttributesSafety, OneExtent, PTL

------------------------------------------------------------------------------

(* The two recursions of the reference, level by level.                    *)
SoundUpTo(f, sound) ==
  [levels \in 0 .. MaxDepth + 1 |->
     IF levels = 0 THEN {} ELSE InOrder(f, sound[levels - 1])]
Sound(f) == CHOOSE sound : sound = SoundUpTo(f, sound)

StoredUpTo(f, stored) ==
  [levels \in 0 .. MaxDepth + 1 |->
     IF levels = 0 THEN [p \in DOMAIN f.disk |-> <<>>]
                   ELSE AttributesBelow(f, stored[levels - 1])]
StoredBelow(f) == CHOOSE stored : stored = StoredUpTo(f, stored)

(* The blocks in order, level by level: they exist for every number of     *)
(* levels, by the least one that would have none.                          *)
LEMMA SoundExists == ASSUME NEW f PROVE \E sound : sound = SoundUpTo(f, sound)
  <1> DEFINE UpTo(n, s) ==
               s = [levels \in 0 .. n |-> IF levels = 0 THEN {} ELSE InOrder(f, s[levels - 1])]
             I == {n \in Nat : ~\E s : UpTo(n, s)}
             m == Min(I)
  <1>1. I = {}
    <2>1. SUFFICES ASSUME I # {} PROVE FALSE
      OBVIOUS
    <2>2. m \in I /\ m \in Nat /\ \A n \in I : m <= n
      BY <2>1, LeastExists
    <2> HIDE DEF m
    <2>3. CASE m = 0
      <3>1. UpTo(0, [levels \in 0 .. 0 |-> {}])
        OBVIOUS
      <3> QED
        BY <2>2, <2>3, <3>1
    <2>4. CASE m # 0
      <3>1. m - 1 \in Nat /\ m - 1 \notin I
        <4> HIDE DEF I
        <4> QED
          BY <2>2, <2>4
      <3>2. PICK s : UpTo(m - 1, s)
        BY <3>1
      <3> DEFINE g == [levels \in 0 .. m |-> IF levels = 0 THEN {} ELSE InOrder(f, s[levels - 1])]
      <3>3. ASSUME NEW k \in 0 .. m, k # 0 PROVE g[k - 1] = s[k - 1]
        <4>1. k - 1 \in 0 .. m /\ k - 1 \in 0 .. m - 1
          BY <2>2, <3>3
        <4> QED
          BY <3>2, <4>1
      <3>4. UpTo(m, g)
        BY <3>3
      <3> QED
        BY <2>2, <3>4
    <2> QED
      BY <2>3, <2>4
  <1>2. MaxDepth + 1 \in Nat
    BY AttributesAssumption
  <1> QED
    BY <1>1, <1>2 DEF SoundUpTo

(* The attributes below every block, level by level, exist.                *)
LEMMA StoredExists == ASSUME NEW f PROVE \E stored : stored = StoredUpTo(f, stored)
  <1> DEFINE none == [p \in DOMAIN f.disk |-> <<>>]
             UpTo(n, s) ==
               s = [levels \in 0 .. n |->
                      IF levels = 0 THEN none ELSE AttributesBelow(f, s[levels - 1])]
             I == {n \in Nat : ~\E s : UpTo(n, s)}
             m == Min(I)
  <1> HIDE DEF none
  <1>1. I = {}
    <2>1. SUFFICES ASSUME I # {} PROVE FALSE
      OBVIOUS
    <2>2. m \in I /\ m \in Nat /\ \A n \in I : m <= n
      BY <2>1, LeastExists
    <2> HIDE DEF m
    <2>3. CASE m = 0
      <3>1. UpTo(0, [levels \in 0 .. 0 |-> none])
        OBVIOUS
      <3> QED
        BY <2>2, <2>3, <3>1
    <2>4. CASE m # 0
      <3>1. m - 1 \in Nat /\ m - 1 \notin I
        <4> HIDE DEF I
        <4> QED
          BY <2>2, <2>4
      <3>2. PICK s : UpTo(m - 1, s)
        BY <3>1
      <3> DEFINE g == [levels \in 0 .. m |->
                         IF levels = 0 THEN none ELSE AttributesBelow(f, s[levels - 1])]
      <3>3. ASSUME NEW k \in 0 .. m, k # 0 PROVE g[k - 1] = s[k - 1]
        <4>1. k - 1 \in 0 .. m /\ k - 1 \in 0 .. m - 1
          BY <2>2, <3>3
        <4> QED
          BY <3>2, <4>1
      <3>4. UpTo(m, g)
        BY <3>3
      <3> QED
        BY <2>2, <3>4
    <2> QED
      BY <2>3, <2>4
  <1>2. MaxDepth + 1 \in Nat
    BY AttributesAssumption
  <1> QED
    BY <1>1, <1>2 DEF StoredUpTo, none

(* A tree of a number of levels is made of trees of one level less.        *)
LEMMA SoundIs ==
  ASSUME NEW f
  PROVE  /\ Sound(f)[0] = {}
         /\ \A levels \in 1 .. MaxDepth + 1 : Sound(f)[levels] = InOrder(f, Sound(f)[levels - 1])
         /\ WellFormedTree(f) <=> Readable(f, 0) /\ BlockOf(f, 0) \in Sound(f)[MaxDepth + 1]
  <1>1. Sound(f) = SoundUpTo(f, Sound(f))
    BY SoundExists DEF Sound
  <1>2. MaxDepth \in Nat
    BY AttributesAssumption
  <1>3. WellFormedTree(f) <=> Readable(f, 0) /\ BlockOf(f, 0) \in Sound(f)[MaxDepth + 1]
    BY DEF WellFormedTree, Sound, SoundUpTo
  <1> DEFINE s == Sound(f)
  <1> HIDE DEF s
  <1>4. s = SoundUpTo(f, s)
    BY <1>1 DEF s
  <1>5. s[0] = {} /\ \A levels \in 1 .. MaxDepth + 1 : s[levels] = InOrder(f, s[levels - 1])
    <2>1. 0 \in 0 .. MaxDepth + 1
          /\ \A levels \in 1 .. MaxDepth + 1 : levels \in 0 .. MaxDepth + 1 /\ levels # 0
      BY <1>2
    <2> QED
      BY <1>4, <2>1 DEF SoundUpTo
  <1> QED
    BY <1>3, <1>5 DEF s

(* The attributes that the tree of a fork stores.                          *)
LEMMA StoredIs ==
  ASSUME NEW f
  PROVE  /\ \A levels \in 1 .. MaxDepth + 1 :
              StoredBelow(f)[levels] = AttributesBelow(f, StoredBelow(f)[levels - 1])
         /\ StoredInTree(f) = StoredBelow(f)[MaxDepth + 1][BlockOf(f, 0)]
  <1>1. StoredBelow(f) = StoredUpTo(f, StoredBelow(f))
    BY StoredExists DEF StoredBelow
  <1>2. MaxDepth \in Nat
    BY AttributesAssumption
  <1>3. StoredInTree(f) = StoredBelow(f)[MaxDepth + 1][BlockOf(f, 0)]
    BY DEF StoredInTree, StoredBelow, StoredUpTo
  <1> DEFINE s == StoredBelow(f)
  <1> HIDE DEF s
  <1>4. s = StoredUpTo(f, s)
    BY <1>1 DEF s
  <1>5. \A levels \in 1 .. MaxDepth + 1 : s[levels] = AttributesBelow(f, s[levels - 1])
    <2>1. \A levels \in 1 .. MaxDepth + 1 : levels \in 0 .. MaxDepth + 1 /\ levels # 0
      BY <1>2
    <2> QED
      BY <1>4, <2>1 DEF StoredUpTo
  <1> QED
    BY <1>3, <1>5 DEF s

(* The end of every entry of a table.                                      *)
TableUpTo(f, s) ==
  [k \in 0 .. Len(f.entries) |->
     IF k = 0 THEN 1 ELSE s[k - 1] + 1 + f.entries[k].nameSize + f.entries[k].valueSize]
TableEnds(f) == CHOOSE s : s = TableUpTo(f, s)

(* The ends of the entries of a table exist.                               *)
LEMMA TableEndsExist ==
  ASSUME NEW f, Len(f.entries) \in Nat
  PROVE  \E s : s = TableUpTo(f, s)
  <1> DEFINE UpTo(n, s) ==
               s = [k \in 0 .. n |->
                      IF k = 0 THEN 1
                      ELSE s[k - 1] + 1 + f.entries[k].nameSize + f.entries[k].valueSize]
             I == {n \in Nat : ~\E s : UpTo(n, s)}
             m == Min(I)
  <1>1. I = {}
    <2>1. SUFFICES ASSUME I # {} PROVE FALSE
      OBVIOUS
    <2>2. m \in I /\ m \in Nat /\ \A n \in I : m <= n
      BY <2>1, LeastExists
    <2> HIDE DEF m
    <2>3. CASE m = 0
      <3>1. UpTo(0, [k \in 0 .. 0 |-> 1])
        OBVIOUS
      <3> QED
        BY <2>2, <2>3, <3>1
    <2>4. CASE m # 0
      <3>1. m - 1 \in Nat /\ m - 1 \notin I
        <4> HIDE DEF I
        <4> QED
          BY <2>2, <2>4
      <3>2. PICK s : UpTo(m - 1, s)
        BY <3>1
      <3> DEFINE g == [k \in 0 .. m |->
                         IF k = 0 THEN 1
                         ELSE s[k - 1] + 1 + f.entries[k].nameSize + f.entries[k].valueSize]
      <3>3. ASSUME NEW k \in 0 .. m, k # 0 PROVE g[k - 1] = s[k - 1]
        <4>1. k - 1 \in 0 .. m /\ k - 1 \in 0 .. m - 1
          BY <2>2, <3>3
        <4> QED
          BY <3>2, <4>1
      <3>4. UpTo(m, g)
        BY <3>3
      <3> QED
        BY <2>2, <3>4
    <2> QED
      BY <2>3, <2>4
  <1> QED
    BY <1>1 DEF TableUpTo

(* The recursion of the ends, the last of which is the size of the table.  *)
LEMMA TableEndsAre ==
  ASSUME NEW f, f.entries \in Seq(Entry)
  PROVE  /\ TableEnds(f)[0] = 1 /\ TableSize(f) = TableEnds(f)[Len(f.entries)]
         /\ \A k \in 1 .. Len(f.entries) :
              TableEnds(f)[k] = TableEnds(f)[k - 1] + 1 + f.entries[k].nameSize + f.entries[k].valueSize
  <1>1. Len(f.entries) \in Nat
    OBVIOUS
  <1>2. TableEnds(f) = TableUpTo(f, TableEnds(f))
    BY <1>1, TableEndsExist DEF TableEnds
  <1>3. TableSize(f) = TableEnds(f)[Len(f.entries)]
    BY DEF TableSize, TableEnds, TableUpTo
  <1> DEFINE s == TableEnds(f)
             n == Len(f.entries)
  <1> HIDE DEF s
  <1>4. s = TableUpTo(f, s)
    BY <1>2 DEF s
  <1>5. s[0] = 1
    BY <1>1, <1>4 DEF TableUpTo
  <1>6. ASSUME NEW k \in 1 .. n
        PROVE  s[k] = s[k - 1] + 1 + f.entries[k].nameSize + f.entries[k].valueSize
    <2>1. k \in 0 .. n /\ k # 0
      BY <1>1
    <2> QED
      BY <1>4, <2>1 DEF TableUpTo
  <1> QED
    BY <1>3, <1>5, <1>6 DEF s

(* The ends are numbers that grow: no entry ends behind the table.         *)
LEMMA TableEndsGrow ==
  ASSUME NEW f, f.entries \in Seq(Entry), NEW i \in 0 .. Len(f.entries), NEW n \in i .. Len(f.entries)
  PROVE  /\ TableEnds(f)[i] \in Nat /\ TableEnds(f)[n] \in Nat
         /\ TableEnds(f)[i] > 0 /\ TableEnds(f)[i] <= TableEnds(f)[n]
  <1> DEFINE s == TableEnds(f)
             z == Len(f.entries)
  <1>1. z \in Nat /\ i \in Nat /\ n \in Nat /\ i <= z /\ i <= n /\ n <= z
    OBVIOUS
  <1>2. \A k \in 1 .. z :
          /\ f.entries[k].nameSize \in Nat /\ f.entries[k].valueSize \in Nat
          /\ s[k] = s[k - 1] + 1 + f.entries[k].nameSize + f.entries[k].valueSize
    <2>1. ASSUME NEW k \in 1 .. z
          PROVE  f.entries[k].nameSize \in Nat /\ f.entries[k].valueSize \in Nat
      <3>1. f.entries[k] \in Entry
        OBVIOUS
      <3> QED
        BY <3>1 DEF Entry
    <2> QED
      BY <2>1, TableEndsAre
  <1>3. s[0] = 1
    BY TableEndsAre
  <1> HIDE DEF s, z
  <1>4. ASSUME NEW k \in 1 .. z, s[k - 1] \in Nat PROVE s[k] \in Nat /\ s[k - 1] < s[k]
    <2> DEFINE x == f.entries[k].nameSize
               y == f.entries[k].valueSize
               w == s[k - 1]
    <2>1. x \in Nat /\ y \in Nat /\ w \in Nat /\ s[k] = w + 1 + x + y
      BY <1>2, <1>4
    <2> HIDE DEF w, x, y
    <2>2. s[k] \in Nat /\ w < s[k]
      BY <2>1
    <2> QED
      BY <2>2 DEF w
  <1> DEFINE I == {j \in Nat : j <= z /\ ~(s[j] \in Nat /\ s[j] > 0)}
             J == {j \in Nat : i <= j /\ j <= z /\ ~(s[i] <= s[j])}
  <1>5. I = {}
    <2> SUFFICES ASSUME I # {} PROVE FALSE
      OBVIOUS
    <2> DEFINE m == Min(I)
    <2>1. m \in I /\ m \in Nat /\ \A j \in I : m <= j
      BY LeastExists
    <2> HIDE DEF m
    <2>2. m # 0 /\ m <= z
      BY <1>3, <2>1
    <2>3. m - 1 \in Nat /\ m - 1 \notin I /\ m - 1 <= z /\ m \in 1 .. z
      <3> HIDE DEF I
      <3> QED
        BY <1>1, <2>1, <2>2
    <2>4. s[m - 1] \in Nat
      BY <2>3
    <2>5. s[m] \in Nat /\ s[m - 1] < s[m]
      BY <1>4, <2>3, <2>4
    <2> QED
      BY <2>1, <2>4, <2>5
  <1>6. \A j \in Nat : j <= z => s[j] \in Nat /\ s[j] > 0
    BY <1>5
  <1>7. J = {}
    <2> SUFFICES ASSUME J # {} PROVE FALSE
      OBVIOUS
    <2> DEFINE m == Min(J)
    <2>1. m \in J /\ m \in Nat /\ \A j \in J : m <= j
      BY LeastExists
    <2> HIDE DEF m
    <2>2. m # i /\ m <= z /\ i <= m
      BY <1>1, <1>6, <2>1
    <2>3. m - 1 \in Nat /\ m - 1 \notin J /\ m - 1 <= z /\ m \in 1 .. z /\ i <= m - 1
      <3> HIDE DEF J
      <3> QED
        BY <1>1, <2>1, <2>2
    <2>4. s[i] <= s[m - 1]
      BY <2>3
    <2>5. s[m] \in Nat /\ s[m - 1] < s[m] /\ s[i] \in Nat /\ s[m - 1] \in Nat
      BY <1>1, <1>4, <1>6, <2>3
    <2> QED
      BY <2>1, <2>4, <2>5
  <1>8. s[i] <= s[n]
    BY <1>1, <1>7
  <1> QED
    BY <1>1, <1>6, <1>8 DEF s

(* The attributes below the blocks of a tree are attributes of the array.  *)
LEMMA SubBlocksAre ==
  ASSUME NEW f, NEW levels \in 1 .. MaxDepth + 1, NEW p \in Sound(f)[levels],
         f.disk[p] \in Leaf \cup Branch \cup Other,
         \A q \in Sound(f)[levels - 1] : StoredBelow(f)[levels - 1][q] \in Seq(KeptAttribute)
  PROVE  LET b == f.disk[p]
             subs == SubBlocks(f, b, StoredBelow(f)[levels - 1])
         IN  /\ p \in DOMAIN f.disk /\ WellFormedBlock(b)
             /\ b.kind = "leaf" => StoredBelow(f)[levels][p] = LeafAttributes(b)
             /\ b.kind = "branch" =>
                  /\ subs \in Seq(Seq(KeptAttribute)) /\ Len(subs) = b.count
                  /\ StoredBelow(f)[levels][p] = Before(subs, b.count)
                  /\ \A k \in 1 .. b.count :
                       /\ Readable(f, b.entries[k])
                       /\ BlockOf(f, b.entries[k]) \in Sound(f)[levels - 1]
                       /\ subs[k] = StoredBelow(f)[levels - 1][BlockOf(f, b.entries[k])]
             /\ StoredBelow(f)[levels][p] \in Seq(KeptAttribute)
  <1> DEFINE b == f.disk[p]
             below == StoredBelow(f)[levels - 1]
             sound == Sound(f)[levels - 1]
             here == StoredBelow(f)[levels][p]
             subs == SubBlocks(f, b, below)
  <1>1. p \in InOrder(f, sound)
    BY SoundIs
  <1>2. StoredBelow(f)[levels] = AttributesBelow(f, below)
    BY StoredIs
  <1> HIDE DEF below, sound
  <1>3. /\ p \in DOMAIN f.disk /\ WellFormedBlock(b)
        /\ b.kind = "branch" =>
             \A k \in 1 .. b.count :
               Readable(f, b.entries[k]) /\ BlockOf(f, b.entries[k]) \in sound
    BY <1>1 DEF InOrder
  <1>4. here = IF b.kind = "leaf" THEN LeafAttributes(b) ELSE FlattenSeq(subs)
    BY <1>2, <1>3 DEF AttributesBelow
  <1>5. /\ b.count \in Nat /\ b.count = Len(b.entries) /\ b.kind \in {"leaf", "branch"}
        /\ b.kind = "leaf" => b.entries \in Seq(Entry)
    <2>1. b \in Leaf \cup Branch \cup Other
      OBVIOUS
    <2> HIDE DEF b
    <2>2. b.count \in Nat /\ (b.kind = "leaf" => b.entries \in Seq(Entry))
      BY <2>1, BlockIs
    <2> QED
      BY <1>3, <2>2 DEF WellFormedBlock
  <1> HIDE DEF here, b
  <1>6. CASE b.kind = "leaf"
    <2> DEFINE s == [k \in 1 .. b.count |-> ValuesStored(b.entries[k])]
    <2>1. b.entries \in Seq(Entry)
      BY <1>5, <1>6
    <2>2. ASSUME NEW k \in 1 .. b.count PROVE ValuesStored(b.entries[k]) \in KeptAttribute
      <3>1. b.entries[k] \in Entry
        BY <1>5, <2>1
      <3> QED
        BY <3>1, ValuesAreKept
    <2>3. s \in Seq(KeptAttribute)
      BY <1>5, <2>2
    <2>4. here = LeafAttributes(b) /\ here = s
      BY <1>4, <1>6 DEF LeafAttributes
    <2>5. b.kind # "branch"
      BY <1>6
    <2> HIDE DEF s
    <2> QED
      BY <1>3, <2>3, <2>4, <2>5 DEF here, b
  <1>7. CASE b.kind = "branch"
    <2>1. ASSUME NEW k \in 1 .. b.count
          PROVE  /\ Readable(f, b.entries[k]) /\ BlockOf(f, b.entries[k]) \in sound
                 /\ below[BlockOf(f, b.entries[k])] \in Seq(KeptAttribute)
      <3>1. Readable(f, b.entries[k]) /\ BlockOf(f, b.entries[k]) \in sound
        BY <1>3, <1>7
      <3>2. \A q \in sound : below[q] \in Seq(KeptAttribute)
        BY DEF sound, below
      <3> QED
        BY <3>1, <3>2
    <2>2. subs \in Seq(Seq(KeptAttribute)) /\ Len(subs) = b.count
          /\ \A k \in 1 .. b.count : subs[k] = below[BlockOf(f, b.entries[k])]
      BY <1>5, <2>1 DEF SubBlocks
    <2> HIDE DEF subs
    <2>3. here = FlattenSeq(subs)
      BY <1>4, <1>7
    <2>4. here = Before(subs, b.count) /\ here \in Seq(KeptAttribute)
      BY <2>2, <2>3, FlattenIs
    <2>5. b.kind # "leaf"
      BY <1>7
    <2> QED
      BY <1>3, <2>1, <2>2, <2>4, <2>5 DEF here, b, subs, sound, below
  <1> QED
    BY <1>5, <1>6, <1>7

(* What blocks in order store are attributes.                              *)
LEMMA StoredIsTyped ==
  ASSUME NEW f \in Forks, NEW levels \in 0 .. MaxDepth + 1, NEW p \in Sound(f)[levels]
  PROVE  StoredBelow(f)[levels][p] \in Seq(KeptAttribute)
  <1> DEFINE Right(n) == \A q \in Sound(f)[n] : StoredBelow(f)[n][q] \in Seq(KeptAttribute)
             I == {n \in Nat : n <= MaxDepth + 1 /\ ~Right(n)}
             m == Min(I)
  <1>1. SUFFICES I = {}
    <2>1. MaxDepth \in Nat
      BY AttributesAssumption
    <2>2. levels \in Nat /\ levels <= MaxDepth + 1
      BY <2>1
    <2> QED
      BY <2>2
  <1>2. SUFFICES ASSUME I # {} PROVE FALSE
    OBVIOUS
  <1>3. m \in I /\ m \in Nat /\ \A n \in I : m <= n
    BY <1>2, LeastExists
  <1> HIDE DEF m
  <1>4. m # 0
    BY <1>3, SoundIs
  <1>5. m - 1 \in Nat /\ m - 1 \notin I /\ m - 1 <= MaxDepth + 1 /\ m \in 1 .. MaxDepth + 1
    <2>1. m <= MaxDepth + 1
      BY <1>3
    <2> HIDE DEF I
    <2> QED
      BY <1>3, <1>4, <2>1, AttributesAssumption
  <1>6. Right(m - 1)
    BY <1>5
  <1>7. ASSUME NEW q \in Sound(f)[m] PROVE StoredBelow(f)[m][q] \in Seq(KeptAttribute)
    <2>1. q \in DOMAIN f.disk
      BY <1>5, SoundIs DEF InOrder
    <2>2. f.disk[q] \in Leaf \cup Branch \cup Other
      BY <2>1, AttributesAssumption
    <2> QED
      BY <1>5, <1>6, <2>2, SubBlocksAre
  <1> QED
    BY <1>3, <1>7

(* The calls of the recursion have blocks of trees of one level less each. *)
Level(i) == MaxDepth + 2 - i

(* The block that a call was made for.                                     *)
NumberOf(f, s, i) ==
  IF i = 1 THEN 0 ELSE f.disk[s[i - 1].block].entries[s[i - 1].next]

(* What the first entries of a block stand for.                            *)
LeafPart(x, n) == [k \in 1 .. n |-> ValuesStored(x.entries[k])]
Part(f, p, levels, n) ==
  IF f.disk[p].kind = "leaf" THEN LeafPart(f.disk[p], n)
  ELSE Before(SubBlocks(f, f.disk[p], StoredBelow(f)[levels - 1]), n)

(* The entries of a call that were read to their end: the last one of each *)
(* of the first m calls is still being read.                               *)
Read(s, m, i) == IF i <= m THEN s[i].next - 1 ELSE s[i].next
ReadParts(f, s, m) == [i \in 1 .. Len(s) |-> Part(f, s[i].block, Level(i), Read(s, m, i))]

(* Where the calls are.                                                    *)
InTree(f, s, m) ==
  /\ \A i \in 1 .. Len(s) :
       /\ s[i].block \in Sound(f)[Level(i)]
       /\ s[i].block = BlockOf(f, NumberOf(f, s, i))
       /\ s[i].next <= f.disk[s[i].block].count
  /\ \A i \in 1 .. m : f.disk[s[i].block].kind = "branch" /\ s[i].next # 0

(* The first entries of a table.                                           *)
TablePart(f, n) == [k \in 1 .. n |-> Values([f.entries[k] EXCEPT !.local = TRUE])]

(* What was listed so far is what is stored up to where the calls are.     *)
Complete ==
  WellFormed(fork) =>
    /\ stage \in {"done", "segment", "stream", "refused"} => array = Stored(fork)
    /\ stage \in {"unwind", "failed"} => faults > 0
    /\ stage \notin {"visit", "loop", "unwind"} => stack = <<>>
    /\ stage = "table" =>
         /\ attributeIndex <= fork.count
         /\ array = TablePart(fork, attributeIndex)
         /\ offset = TableEnds(fork)[attributeIndex]
    /\ stage \in {"visit", "loop"} => fork.type = "mapped" /\ fork.extents # <<>>
    /\ stage = "visit" =>
         /\ InTree(fork, stack, Len(stack))
         /\ array = Before(ReadParts(fork, stack, Len(stack)), Len(stack))
         /\ visit = NumberOf(fork, stack, Len(stack) + 1)
    /\ stage = "loop" =>
         /\ stack # <<>>
         /\ InTree(fork, stack, Len(stack) - 1)
         /\ array = Before(ReadParts(fork, stack, Len(stack) - 1), Len(stack))

(* What a block of a tree in order is.                                     *)
LEMMA SoundBlock ==
  ASSUME NEW f \in Forks, NEW levels \in 1 .. MaxDepth + 1, NEW p \in Sound(f)[levels]
  PROVE  LET x == f.disk[p]
         IN  /\ p \in DOMAIN f.disk /\ WellFormedBlock(x)
             /\ x.kind \in {"leaf", "branch"} /\ x.count \in Nat /\ x.count = Len(x.entries)
             /\ x.kind = "leaf" => x.entries \in Seq(Entry)
             /\ x.kind = "leaf" => StoredBelow(f)[levels][p] = LeafAttributes(x)
             /\ x.kind = "branch" =>
                  LET subs == SubBlocks(f, x, StoredBelow(f)[levels - 1])
                  IN  /\ subs \in Seq(Seq(KeptAttribute)) /\ Len(subs) = x.count
                      /\ StoredBelow(f)[levels][p] = Before(subs, x.count)
                      /\ \A k \in 1 .. x.count :
                           /\ Readable(f, x.entries[k])
                           /\ BlockOf(f, x.entries[k]) \in Sound(f)[levels - 1]
                           /\ subs[k] = StoredBelow(f)[levels - 1][BlockOf(f, x.entries[k])]
  <1> DEFINE x == f.disk[p]
  <1>1. p \in DOMAIN f.disk
    BY SoundIs DEF InOrder
  <1>2. x \in Leaf \cup Branch \cup Other
    BY <1>1, AttributesAssumption
  <1>3. \A q \in Sound(f)[levels - 1] : StoredBelow(f)[levels - 1][q] \in Seq(KeptAttribute)
    <2>1. levels - 1 \in 0 .. MaxDepth + 1
      BY AttributesAssumption
    <2> QED
      BY <2>1, StoredIsTyped
  <1>4. /\ WellFormedBlock(x)
        /\ x.kind = "leaf" => StoredBelow(f)[levels][p] = LeafAttributes(x)
        /\ x.kind = "branch" =>
             LET subs == SubBlocks(f, x, StoredBelow(f)[levels - 1])
             IN  /\ subs \in Seq(Seq(KeptAttribute)) /\ Len(subs) = x.count
                 /\ StoredBelow(f)[levels][p] = Before(subs, x.count)
                 /\ \A k \in 1 .. x.count :
                      /\ Readable(f, x.entries[k])
                      /\ BlockOf(f, x.entries[k]) \in Sound(f)[levels - 1]
                      /\ subs[k] = StoredBelow(f)[levels - 1][BlockOf(f, x.entries[k])]
    <2>1. /\ WellFormedBlock(x)
          /\ x.kind = "leaf" => StoredBelow(f)[levels][p] = LeafAttributes(x)
      BY <1>2, <1>3, SubBlocksAre
    <2>2. ASSUME x.kind = "branch"
          PROVE  LET subs == SubBlocks(f, x, StoredBelow(f)[levels - 1])
                 IN  /\ subs \in Seq(Seq(KeptAttribute)) /\ Len(subs) = x.count
                     /\ StoredBelow(f)[levels][p] = Before(subs, x.count)
      BY <1>2, <1>3, <2>2, SubBlocksAre
    <2>3. ASSUME x.kind = "branch", NEW k \in 1 .. x.count
          PROVE  LET subs == SubBlocks(f, x, StoredBelow(f)[levels - 1])
                 IN  /\ Readable(f, x.entries[k])
                     /\ BlockOf(f, x.entries[k]) \in Sound(f)[levels - 1]
                     /\ subs[k] = StoredBelow(f)[levels - 1][BlockOf(f, x.entries[k])]
      BY <1>2, <1>3, <2>3, SubBlocksAre
    <2> QED
      BY <2>1, <2>2, <2>3, Zenon
  <1> HIDE DEF x
  <1>5. /\ x.kind \in {"leaf", "branch"} /\ x.count \in Nat /\ x.count = Len(x.entries)
        /\ x.kind = "leaf" => x.entries \in Seq(Entry)
    BY <1>2, <1>4, BlockIs DEF WellFormedBlock
  <1> QED
    BY <1>1, <1>4, <1>5 DEF x

(* The part of no entries is empty, that of all is what is stored.         *)
LEMMA PartIs ==
  ASSUME NEW f \in Forks, NEW levels \in 1 .. MaxDepth + 1, NEW p \in Sound(f)[levels],
         NEW n \in 0 .. f.disk[p].count
  PROVE  /\ Part(f, p, levels, n) \in Seq(KeptAttribute)
         /\ n = 0 => Part(f, p, levels, n) = <<>>
         /\ n = f.disk[p].count => Part(f, p, levels, n) = StoredBelow(f)[levels][p]
  <1> DEFINE x == f.disk[p]
             subs == SubBlocks(f, x, StoredBelow(f)[levels - 1])
             here == StoredBelow(f)[levels][p]
             part == Part(f, p, levels, n)
  <1>1. /\ x.kind \in {"leaf", "branch"} /\ x.count \in Nat /\ x.count = Len(x.entries)
        /\ x.kind = "leaf" => x.entries \in Seq(Entry) /\ here = LeafAttributes(x)
        /\ x.kind = "branch" =>
             /\ subs \in Seq(Seq(KeptAttribute)) /\ Len(subs) = x.count
             /\ here = Before(subs, x.count)
    BY SoundBlock
  <1>2. n \in 0 .. x.count
    OBVIOUS
  <1>3. part = IF x.kind = "leaf" THEN LeafPart(x, n) ELSE Before(subs, n)
    BY DEF Part
  <1> HIDE DEF x, subs, here, part
  <1>4. CASE x.kind = "leaf"
    <2> DEFINE s == [k \in 1 .. n |-> ValuesStored(x.entries[k])]
    <2>1. ASSUME NEW k \in 1 .. n PROVE ValuesStored(x.entries[k]) \in KeptAttribute
      <3>1. x.entries[k] \in Entry
        BY <1>1, <1>2, <1>4
      <3> QED
        BY <3>1, ValuesAreKept
    <2>2. s \in Seq(KeptAttribute) /\ Len(s) = n
      BY <1>1, <1>2, <2>1
    <2>3. n = 0 => s = <<>>
      BY <2>2
    <2>4. part = s
      BY <1>3, <1>4 DEF LeafPart
    <2>5. n = x.count => here = s
      BY <1>1, <1>4 DEF LeafAttributes
    <2> HIDE DEF s
    <2> QED
      BY <2>2, <2>3, <2>4, <2>5 DEF part, here, x
  <1>5. CASE x.kind = "branch"
    <2>1. part = Before(subs, n)
      BY <1>3, <1>5
    <2>2. part \in Seq(KeptAttribute)
      BY <1>1, <1>2, <1>5, <2>1, BeforeTyped
    <2>3. n = 0 => part = <<>>
      BY <2>1 DEF Before
    <2>4. n = x.count => part = here
      BY <1>1, <1>5, <2>1
    <2> QED
      BY <2>2, <2>3, <2>4 DEF part, here, x
  <1> QED
    BY <1>1, <1>4, <1>5

(* One entry more.                                                         *)
LEMMA PartNext ==
  ASSUME NEW f \in Forks, NEW levels \in 1 .. MaxDepth + 1, NEW p \in Sound(f)[levels],
         NEW n \in 1 .. f.disk[p].count
  PROVE  /\ f.disk[p].kind = "leaf" =>
              Part(f, p, levels, n) = Part(f, p, levels, n - 1) \o <<ValuesStored(f.disk[p].entries[n])>>
         /\ f.disk[p].kind = "branch" =>
              Part(f, p, levels, n) =
                Part(f, p, levels, n - 1) \o StoredBelow(f)[levels - 1][BlockOf(f, f.disk[p].entries[n])]
  <1> DEFINE x == f.disk[p]
             subs == SubBlocks(f, x, StoredBelow(f)[levels - 1])
             sub == StoredBelow(f)[levels - 1][BlockOf(f, f.disk[p].entries[n])]
             part == Part(f, p, levels, n)
             last == Part(f, p, levels, n - 1)
  <1>1. /\ x.kind \in {"leaf", "branch"} /\ x.count \in Nat /\ x.count = Len(x.entries)
        /\ x.kind = "leaf" => x.entries \in Seq(Entry)
        /\ x.kind = "branch" =>
             /\ subs \in Seq(Seq(KeptAttribute)) /\ Len(subs) = x.count
             /\ subs[n] = sub
    BY SoundBlock
  <1>2. n \in 1 .. x.count
    OBVIOUS
  <1>3. /\ part = IF x.kind = "leaf" THEN LeafPart(x, n) ELSE Before(subs, n)
        /\ last = IF x.kind = "leaf" THEN LeafPart(x, n - 1) ELSE Before(subs, n - 1)
    BY DEF Part
  <1> DEFINE v == ValuesStored(x.entries[n])
  <1>4. SUFFICES /\ x.kind = "leaf" => part = last \o <<v>>
                 /\ x.kind = "branch" => part = last \o sub
    OBVIOUS
  <1> HIDE DEF x, subs, sub, part, last
  <1>5. CASE x.kind = "leaf"
    <2> DEFINE s == [k \in 1 .. n |-> ValuesStored(x.entries[k])]
               r == [k \in 1 .. n - 1 |-> ValuesStored(x.entries[k])]
    <2>1. ASSUME NEW k \in 1 .. n PROVE ValuesStored(x.entries[k]) \in KeptAttribute
      <3>1. x.entries[k] \in Entry
        BY <1>1, <1>2, <1>5
      <3> QED
        BY <3>1, ValuesAreKept
    <2>2. n \in Nat /\ n # 0 /\ n \in 1 .. n /\ n - 1 \in Nat /\ \A k \in 1 .. n - 1 : k \in 1 .. n
      BY <1>1, <1>2
    <2>3. s \in Seq(KeptAttribute) /\ Len(s) = n /\ s[n] = v
      BY <2>1, <2>2
    <2>4. r \in Seq(KeptAttribute) /\ Len(r) = n - 1 /\ \A k \in 1 .. n - 1 : r[k] = s[k]
      BY <2>1, <2>2
    <2> HIDE DEF s, r, v
    <2>5. s = r \o <<v>>
      BY <2>2, <2>3, <2>4
    <2>6. part = s /\ last = r
      BY <1>3, <1>5 DEF LeafPart, s, r
    <2> QED
      BY <1>5, <2>5, <2>6
  <1>6. CASE x.kind = "branch"
    <2>1. Before(subs, n) = Before(subs, n - 1) \o subs[n]
      <3>1. n \in 0 .. Len(subs) /\ n # 0
        BY <1>1, <1>2, <1>6
      <3> QED
        BY <1>1, <1>6, <3>1, BeforeIs
    <2> QED
      BY <1>1, <1>3, <1>6, <2>1
  <1> QED
    BY <1>1, <1>5, <1>6

(* The stacks of calls over the blocks of a fork.                          *)
Calls(f) == Seq([block : DOMAIN f.disk, next : Nat])

(* A call has a block and a place in it.                                   *)
LEMMA CallIs ==
  ASSUME NEW f, NEW s \in Calls(f), NEW i \in 1 .. Len(s)
  PROVE  s[i] \in [block : DOMAIN f.disk, next : Nat] /\ s[i].next \in Nat
  <1> DEFINE S == [block : DOMAIN f.disk, next : Nat]
  <1>1. s \in Seq(S)
    BY DEF Calls
  <1> HIDE DEF S
  <1>2. s[i] \in S
    BY <1>1
  <1> QED
    BY <1>2 DEF S

(* The parts that were read, call by call.                                 *)
LEMMA ReadPartsAre ==
  ASSUME NEW f \in Forks, NEW s \in Calls(f), Len(s) <= MaxDepth + 1,
         NEW m \in 0 .. Len(s), InTree(f, s, m)
  PROVE  /\ ReadParts(f, s, m) \in Seq(Seq(KeptAttribute)) /\ Len(ReadParts(f, s, m)) = Len(s)
         /\ \A i \in 1 .. Len(s) :
              /\ Level(i) \in 1 .. MaxDepth + 1 /\ s[i].block \in Sound(f)[Level(i)]
              /\ Read(s, m, i) \in 0 .. f.disk[s[i].block].count
              /\ ReadParts(f, s, m)[i] = Part(f, s[i].block, Level(i), Read(s, m, i))
  <1> DEFINE n == Len(s)
  <1>1. n \in Nat /\ MaxDepth \in Nat
    BY AttributesAssumption DEF Calls
  <1>2. ASSUME NEW i \in 1 .. n
        PROVE  /\ Level(i) \in 1 .. MaxDepth + 1 /\ s[i].block \in Sound(f)[Level(i)]
               /\ Read(s, m, i) \in 0 .. f.disk[s[i].block].count
               /\ Part(f, s[i].block, Level(i), Read(s, m, i)) \in Seq(KeptAttribute)
    <2>1. Level(i) \in 1 .. MaxDepth + 1
      BY <1>1 DEF Level
    <2>2. s[i].block \in Sound(f)[Level(i)] /\ s[i].next <= f.disk[s[i].block].count
      BY DEF InTree
    <2>3. f.disk[s[i].block].count \in Nat
      BY <2>1, <2>2, SoundBlock
    <2>4. s[i].next \in Nat
      BY CallIs
    <2>5. i <= m => s[i].next # 0
      <3>1. i <= m => i \in 1 .. m
        BY <1>1
      <3> QED
        BY <3>1 DEF InTree
    <2> DEFINE c == f.disk[s[i].block].count
               k == s[i].next
    <2>6. c \in Nat /\ k \in Nat /\ k <= c /\ (i <= m => k # 0)
      BY <2>2, <2>3, <2>4, <2>5
    <2>7. Read(s, m, i) = IF i <= m THEN k - 1 ELSE k
      BY DEF Read
    <2> HIDE DEF c, k
    <2>8. Read(s, m, i) \in 0 .. c
      BY <2>6, <2>7
    <2>9. Part(f, s[i].block, Level(i), Read(s, m, i)) \in Seq(KeptAttribute)
      BY <2>1, <2>2, <2>8, PartIs DEF c
    <2> QED
      BY <2>1, <2>2, <2>8, <2>9 DEF c
  <1> DEFINE P == ReadParts(f, s, m)
  <1>3. P = [i \in 1 .. n |-> Part(f, s[i].block, Level(i), Read(s, m, i))]
    BY DEF ReadParts
  <1> HIDE DEF P, n
  <1>4. P \in Seq(Seq(KeptAttribute)) /\ Len(P) = n
    BY <1>1, <1>2, <1>3
  <1>5. \A i \in 1 .. n : P[i] = Part(f, s[i].block, Level(i), Read(s, m, i))
    BY <1>3
  <1> QED
    BY <1>2, <1>4, <1>5 DEF P, n

(* A call for the next block has read nothing of it.                       *)
LEMMA Pushed ==
  ASSUME NEW f \in Forks, NEW s \in Calls(f), Len(s) <= MaxDepth, InTree(f, s, Len(s)),
         NEW t \in Calls(f), Len(t) = Len(s) + 1, \A i \in 1 .. Len(s) : t[i] = s[i],
         t[Len(s) + 1].next = 0,
         t[Len(s) + 1].block = BlockOf(f, NumberOf(f, s, Len(s) + 1)),
         t[Len(s) + 1].block \in Sound(f)[Level(Len(s) + 1)]
  PROVE  /\ InTree(f, t, Len(t) - 1)
         /\ Before(ReadParts(f, t, Len(t) - 1), Len(t)) = Before(ReadParts(f, s, Len(s)), Len(s))
  <1> DEFINE n == Len(s)
             P == ReadParts(f, s, n)
             Q == ReadParts(f, t, n)
  <1>1. n \in Nat /\ MaxDepth \in Nat /\ Len(t) = n + 1 /\ Len(t) - 1 = n
    BY AttributesAssumption DEF Calls
  <1>2. n \in 0 .. Len(s) /\ n \in 0 .. Len(t) /\ Len(s) <= MaxDepth + 1 /\ Len(t) <= MaxDepth + 1
    BY <1>1
  <1>3. ASSUME NEW i \in 1 .. n + 1 PROVE NumberOf(f, t, i) = NumberOf(f, s, i)
    <2>1. i # 1 => i - 1 \in 1 .. n
      BY <1>1
    <2>2. i # 1 => t[i - 1] = s[i - 1]
      BY <2>1
    <2> QED
      BY <2>2 DEF NumberOf
  <1>4. InTree(f, t, n)
    <2>1. \A i \in 1 .. n : f.disk[t[i].block].kind = "branch" /\ t[i].next # 0
      BY DEF InTree
    <2>2. ASSUME NEW i \in 1 .. n + 1
          PROVE  /\ t[i].block \in Sound(f)[Level(i)]
                 /\ t[i].block = BlockOf(f, NumberOf(f, t, i))
                 /\ t[i].next <= f.disk[t[i].block].count
      <3>1. CASE i = n + 1
        <4>1. Level(i) \in 1 .. MaxDepth + 1
          BY <1>1, <1>2, <3>1 DEF Level
        <4>2. t[i].block \in Sound(f)[Level(i)] /\ t[i].next = 0
              /\ t[i].block = BlockOf(f, NumberOf(f, t, i))
          BY <1>3, <3>1
        <4>3. f.disk[t[i].block].count \in Nat
          BY <4>1, <4>2, SoundBlock
        <4> DEFINE c == f.disk[t[i].block].count
        <4> HIDE DEF c
        <4>4. t[i].next <= c
          BY <4>2, <4>3 DEF c
        <4> QED
          BY <4>2, <4>4 DEF c
      <3>2. CASE i # n + 1
        <4>1. i \in 1 .. n /\ t[i] = s[i]
          BY <1>1, <3>2
        <4> QED
          BY <1>3, <4>1 DEF InTree
      <3> QED
        BY <3>1, <3>2
    <2> QED
      BY <1>1, <2>1, <2>2 DEF InTree
  <1>5. /\ P \in Seq(Seq(KeptAttribute)) /\ Len(P) = n
        /\ \A i \in 1 .. n : P[i] = Part(f, s[i].block, Level(i), Read(s, n, i))
    BY <1>2, ReadPartsAre
  <1>6. /\ Q \in Seq(Seq(KeptAttribute)) /\ Len(Q) = n + 1
        /\ \A i \in 1 .. n + 1 :
             /\ Level(i) \in 1 .. MaxDepth + 1 /\ t[i].block \in Sound(f)[Level(i)]
             /\ Read(t, n, i) \in 0 .. f.disk[t[i].block].count
             /\ Q[i] = Part(f, t[i].block, Level(i), Read(t, n, i))
    BY <1>1, <1>2, <1>4, ReadPartsAre
  <1>7. \A i \in 1 .. n : P[i] = Q[i]
    <2> TAKE i \in 1 .. n
    <2>1. t[i] = s[i] /\ i \in 1 .. n + 1
      BY <1>1
    <2>2. Read(t, n, i) = Read(s, n, i)
      BY <2>1 DEF Read
    <2> HIDE DEF P, Q
    <2> QED
      BY <1>5, <1>6, <2>1, <2>2
  <1>8. Q[n + 1] = <<>>
    <2>1. n + 1 \in 1 .. n + 1 /\ ~(n + 1 <= n)
      BY <1>1
    <2>2. Read(t, n, n + 1) = 0
      BY <2>1 DEF Read
    <2> HIDE DEF Q
    <2> QED
      BY <1>6, <2>1, <2>2, PartIs
  <1> HIDE DEF P, Q, n
  <1>9. Before(Q, n) = Before(P, n)
    <2>1. n <= Len(P) /\ n <= Len(Q)
      BY <1>1, <1>5, <1>6
    <2>2. \A i \in 1 .. n : P[i] = Q[i]
      BY <1>7
    <2> QED
      BY <1>1, <1>5, <1>6, <2>1, <2>2, BeforeAgrees
  <1> DEFINE z == n + 1
  <1>10. z \in 0 .. Len(Q) /\ z # 0 /\ z - 1 = n /\ n \in 0 .. Len(Q)
    BY <1>1, <1>6
  <1> HIDE DEF z
  <1>11. Before(Q, z) = Before(Q, n) \o Q[z] /\ Before(Q, n) \in Seq(KeptAttribute)
    BY <1>6, <1>10, BeforeIs
  <1>12. Q[z] = <<>>
    BY <1>8 DEF z
  <1>13. Before(Q, z) = Before(P, n)
    BY <1>9, <1>11, <1>12, EmptyEnds
  <1> QED
    BY <1>1, <1>4, <1>13 DEF P, Q, n, z

(* The loop of a call over a leaf goes on.                                 *)
LEMMA LeafAdvanced ==
  ASSUME NEW f \in Forks, NEW s \in Calls(f), Len(s) <= MaxDepth + 1, s # <<>>,
         InTree(f, s, Len(s) - 1),
         NEW t \in Calls(f), Len(t) = Len(s), \A i \in 1 .. Len(s) - 1 : t[i] = s[i],
         t[Len(s)].block = s[Len(s)].block, t[Len(s)].next = s[Len(s)].next + 1,
         s[Len(s)].next < f.disk[s[Len(s)].block].count,
         f.disk[s[Len(s)].block].kind = "leaf"
  PROVE  /\ InTree(f, t, Len(t) - 1)
         /\ Before(ReadParts(f, t, Len(t) - 1), Len(t))
              = Before(ReadParts(f, s, Len(s) - 1), Len(s))
                  \o <<ValuesStored(f.disk[s[Len(s)].block].entries[s[Len(s)].next + 1])>>
  <1> DEFINE n == Len(s)
             P == ReadParts(f, s, n - 1)
             Q == ReadParts(f, t, n - 1)
             p == s[n].block
             k == s[n].next
             v == ValuesStored(f.disk[p].entries[k + 1])
  <1>1. n \in Nat /\ n > 0 /\ MaxDepth \in Nat /\ n - 1 \in 0 .. n /\ n \in 1 .. n
    BY AttributesAssumption DEF Calls
  <1>2. k \in Nat /\ t[n].block = p /\ t[n].next = k + 1
    <2>1. s[n].next \in Nat
      BY <1>1, CallIs
    <2> QED
      BY <2>1
  <1>3. ASSUME NEW i \in 1 .. n PROVE NumberOf(f, t, i) = NumberOf(f, s, i)
    <2>1. i # 1 => i - 1 \in 1 .. n - 1
      BY <1>1
    <2>2. i # 1 => t[i - 1] = s[i - 1]
      BY <2>1
    <2> QED
      BY <2>2 DEF NumberOf
  <1>4. /\ P \in Seq(Seq(KeptAttribute)) /\ Len(P) = n
        /\ \A i \in 1 .. n :
             /\ Level(i) \in 1 .. MaxDepth + 1 /\ s[i].block \in Sound(f)[Level(i)]
             /\ P[i] = Part(f, s[i].block, Level(i), Read(s, n - 1, i))
    BY <1>1, ReadPartsAre
  <1>5. f.disk[p].count \in Nat /\ k + 1 \in 1 .. f.disk[p].count
    <2>1. f.disk[p].count \in Nat
      BY <1>1, <1>4, SoundBlock
    <2> DEFINE c == f.disk[p].count
    <2>2. k < c /\ c \in Nat
      BY <2>1
    <2> HIDE DEF c, k
    <2>3. k + 1 \in 1 .. c
      BY <1>2, <2>2
    <2> QED
      BY <2>1, <2>3 DEF c
  <1>6. InTree(f, t, n - 1)
    <2>1. \A i \in 1 .. n - 1 : f.disk[t[i].block].kind = "branch" /\ t[i].next # 0
      BY DEF InTree
    <2>2. ASSUME NEW i \in 1 .. n
          PROVE  /\ t[i].block \in Sound(f)[Level(i)]
                 /\ t[i].block = BlockOf(f, NumberOf(f, t, i))
                 /\ t[i].next <= f.disk[t[i].block].count
      <3>1. CASE i = n
        <4>1. t[i].block = s[i].block /\ t[i].next <= f.disk[t[i].block].count
          BY <1>2, <1>5, <3>1
        <4> QED
          BY <1>3, <4>1 DEF InTree
      <3>2. CASE i # n
        <4>1. i \in 1 .. n - 1 /\ t[i] = s[i]
          BY <1>1, <3>2
        <4> QED
          BY <1>3, <4>1 DEF InTree
      <3> QED
        BY <3>1, <3>2
    <2> QED
      BY <2>1, <2>2 DEF InTree
  <1>7. /\ Q \in Seq(Seq(KeptAttribute)) /\ Len(Q) = n
        /\ \A i \in 1 .. n : Q[i] = Part(f, t[i].block, Level(i), Read(t, n - 1, i))
    BY <1>1, <1>6, ReadPartsAre
  <1>8. \A i \in 1 .. n - 1 : Q[i] = P[i]
    <2> TAKE i \in 1 .. n - 1
    <2>1. t[i] = s[i] /\ i \in 1 .. n
      BY <1>1
    <2>2. Read(t, n - 1, i) = Read(s, n - 1, i)
      BY <2>1 DEF Read
    <2> HIDE DEF P, Q
    <2> QED
      BY <1>4, <1>7, <2>1, <2>2
  <1>9. Q[n] = P[n] \o <<v>>
    <2>1. ~(n <= n - 1)
      BY <1>1
    <2>2. Read(t, n - 1, n) = k + 1 /\ Read(s, n - 1, n) = k
      BY <1>2, <2>1 DEF Read
    <2> DEFINE j == k + 1
    <2>3. j - 1 = k /\ j \in 1 .. f.disk[p].count
      BY <1>2, <1>5
    <2>4. Level(n) \in 1 .. MaxDepth + 1 /\ p \in Sound(f)[Level(n)]
      BY <1>1, <1>4
    <2>5. f.disk[p].kind = "leaf"
      OBVIOUS
    <2>6. v = ValuesStored(f.disk[p].entries[j])
      OBVIOUS
    <2>7. Q[n] = Part(f, p, Level(n), j) /\ P[n] = Part(f, p, Level(n), k)
      <3> HIDE DEF P, Q
      <3> QED
        BY <1>1, <1>2, <1>4, <1>7, <2>2
    <2> HIDE DEF P, Q, j, k, p, v
    <2> QED
      BY <2>3, <2>4, <2>5, <2>6, <2>7, PartNext
  <1>10. v \in KeptAttribute
    <2>1. f.disk[p].entries \in Seq(Entry) /\ f.disk[p].count = Len(f.disk[p].entries)
      BY <1>1, <1>4, SoundBlock
    <2> HIDE DEF p, k
    <2>2. f.disk[p].entries[k + 1] \in Entry
      BY <1>5, <2>1
    <2> QED
      BY <2>2, ValuesAreKept
  <1> HIDE DEF P, Q, n, p, k, v
  <1> DEFINE y == n - 1
  <1>11. y \in Nat /\ y <= Len(P) /\ y <= Len(Q) /\ n \in 0 .. Len(P) /\ n \in 0 .. Len(Q) /\ n # 0
         /\ n - 1 = y
    BY <1>1, <1>4, <1>7
  <1> HIDE DEF y
  <1>12. Before(Q, y) = Before(P, y)
    BY <1>4, <1>7, <1>8, <1>11, BeforeAgrees
  <1>13. Before(Q, n) = Before(Q, y) \o Q[n] /\ Before(P, n) = Before(P, y) \o P[n]
    BY <1>4, <1>7, <1>11, BeforeIs
  <1>14. Before(P, y) \in Seq(KeptAttribute) /\ P[n] \in Seq(KeptAttribute)
         /\ <<v>> \in Seq(KeptAttribute)
    <2>1. y \in 0 .. Len(P) /\ n \in 1 .. Len(P)
      BY <1>11
    <2> QED
      BY <1>4, <1>10, <2>1, BeforeTyped
  <1>15. Before(Q, n) = Before(P, n) \o <<v>>
    <2> DEFINE a == Before(P, y)
               c == P[n]
               w == <<v>>
    <2>1. a \in Seq(KeptAttribute) /\ c \in Seq(KeptAttribute) /\ w \in Seq(KeptAttribute)
      BY <1>14
    <2>2. Before(Q, n) = a \o (c \o w) /\ Before(P, n) = a \o c
      BY <1>9, <1>12, <1>13
    <2> HIDE DEF a, c, w
    <2>3. (a \o c) \o w = a \o (c \o w)
      BY <2>1, Associates
    <2> QED
      BY <2>2, <2>3 DEF w
  <1> QED
    BY <1>6, <1>15 DEF P, Q, n, p, k, v

(* The loop of a call over a branch goes on: its next block is visited.    *)
LEMMA BranchAdvanced ==
  ASSUME NEW f \in Forks, NEW s \in Calls(f), Len(s) <= MaxDepth + 1, s # <<>>,
         InTree(f, s, Len(s) - 1),
         NEW t \in Calls(f), Len(t) = Len(s), \A i \in 1 .. Len(s) - 1 : t[i] = s[i],
         t[Len(s)].block = s[Len(s)].block, t[Len(s)].next = s[Len(s)].next + 1,
         s[Len(s)].next < f.disk[s[Len(s)].block].count,
         f.disk[s[Len(s)].block].kind = "branch"
  PROVE  /\ InTree(f, t, Len(t))
         /\ Before(ReadParts(f, t, Len(t)), Len(t)) = Before(ReadParts(f, s, Len(s) - 1), Len(s))
         /\ NumberOf(f, t, Len(t) + 1) = f.disk[s[Len(s)].block].entries[s[Len(s)].next + 1]
  <1> DEFINE n == Len(s)
             P == ReadParts(f, s, n - 1)
             Q == ReadParts(f, t, n)
             p == s[n].block
             k == s[n].next
  <1>1. n \in Nat /\ n > 0 /\ MaxDepth \in Nat /\ n - 1 \in 0 .. n /\ n \in 1 .. n /\ n \in 0 .. n
    BY AttributesAssumption DEF Calls
  <1>2. k \in Nat /\ t[n].block = p /\ t[n].next = k + 1
    <2>1. s[n].next \in Nat
      BY <1>1, CallIs
    <2> QED
      BY <2>1
  <1>3. ASSUME NEW i \in 1 .. n PROVE NumberOf(f, t, i) = NumberOf(f, s, i)
    <2>1. i # 1 => i - 1 \in 1 .. n - 1
      BY <1>1
    <2>2. i # 1 => t[i - 1] = s[i - 1]
      BY <2>1
    <2> QED
      BY <2>2 DEF NumberOf
  <1>4. /\ P \in Seq(Seq(KeptAttribute)) /\ Len(P) = n
        /\ \A i \in 1 .. n :
             /\ Level(i) \in 1 .. MaxDepth + 1 /\ s[i].block \in Sound(f)[Level(i)]
             /\ P[i] = Part(f, s[i].block, Level(i), Read(s, n - 1, i))
    BY <1>1, ReadPartsAre
  <1>5. f.disk[p].count \in Nat /\ k + 1 <= f.disk[p].count
    <2>1. f.disk[p].count \in Nat
      BY <1>1, <1>4, SoundBlock
    <2> DEFINE c == f.disk[p].count
    <2>2. k < c /\ c \in Nat
      BY <2>1
    <2> HIDE DEF c, k
    <2>3. k + 1 <= c
      BY <1>2, <2>2
    <2> QED
      BY <2>1, <2>3 DEF c
  <1>6. InTree(f, t, n)
    <2>1. ASSUME NEW i \in 1 .. n
          PROVE  /\ t[i].block \in Sound(f)[Level(i)]
                 /\ t[i].block = BlockOf(f, NumberOf(f, t, i))
                 /\ t[i].next <= f.disk[t[i].block].count
                 /\ f.disk[t[i].block].kind = "branch" /\ t[i].next # 0
      <3>1. CASE i = n
        <4>1. t[i].block = s[i].block /\ t[i].next <= f.disk[t[i].block].count
              /\ f.disk[t[i].block].kind = "branch" /\ t[i].next # 0
          BY <1>2, <1>5, <3>1
        <4> QED
          BY <1>3, <4>1 DEF InTree
      <3>2. CASE i # n
        <4>1. i \in 1 .. n - 1 /\ t[i] = s[i]
          BY <1>1, <3>2
        <4> QED
          BY <1>3, <4>1 DEF InTree
      <3> QED
        BY <3>1, <3>2
    <2> QED
      BY <2>1 DEF InTree
  <1>7. /\ Q \in Seq(Seq(KeptAttribute)) /\ Len(Q) = n
        /\ \A i \in 1 .. n : Q[i] = Part(f, t[i].block, Level(i), Read(t, n, i))
    BY <1>1, <1>6, ReadPartsAre
  <1>8. \A i \in 1 .. n : Q[i] = P[i]
    <2> TAKE i \in 1 .. n
    <2>1. t[i].block = s[i].block /\ Read(t, n, i) = Read(s, n - 1, i)
      <3>1. CASE i = n
        <4>1. ~(n <= n - 1) /\ n <= n
          BY <1>1
        <4>2. Read(t, n, i) = (k + 1) - 1 /\ Read(s, n - 1, i) = k
          BY <1>2, <3>1, <4>1 DEF Read
        <4> HIDE DEF k
        <4> QED
          BY <1>2, <3>1, <4>2
      <3>2. CASE i # n
        <4>1. i \in 1 .. n - 1 /\ t[i] = s[i] /\ i <= n - 1 /\ i <= n
          BY <1>1, <3>2
        <4> QED
          BY <4>1 DEF Read
      <3> QED
        BY <3>1, <3>2
    <2> HIDE DEF P, Q
    <2> QED
      BY <1>4, <1>7, <2>1
  <1>9. NumberOf(f, t, n + 1) = f.disk[p].entries[k + 1]
    <2>1. n + 1 # 1 /\ (n + 1) - 1 = n
      BY <1>1
    <2> DEFINE j == n + 1
    <2> HIDE DEF j
    <2>2. j # 1 /\ j - 1 = n
      BY <2>1 DEF j
    <2>3. NumberOf(f, t, j) = f.disk[t[n].block].entries[t[n].next]
      BY <2>2 DEF NumberOf
    <2> QED
      BY <1>2, <2>3 DEF j
  <1> HIDE DEF P, Q, n, p, k
  <1>10. Before(Q, n) = Before(P, n)
    <2>1. n <= Len(P) /\ n <= Len(Q)
      BY <1>1, <1>4, <1>7
    <2> QED
      BY <1>1, <1>4, <1>7, <1>8, <2>1, BeforeAgrees
  <1> QED
    BY <1>6, <1>9, <1>10 DEF P, Q, n, p, k

(* A call that returns has read a whole block of the one above it.         *)
LEMMA Popped ==
  ASSUME NEW f \in Forks, NEW s \in Calls(f), Len(s) <= MaxDepth + 1, Len(s) > 1,
         InTree(f, s, Len(s) - 1), s[Len(s)].next = f.disk[s[Len(s)].block].count,
         NEW t \in Calls(f), Len(t) = Len(s) - 1, \A i \in 1 .. Len(t) : t[i] = s[i]
  PROVE  /\ InTree(f, t, Len(t) - 1)
         /\ Before(ReadParts(f, t, Len(t) - 1), Len(t)) = Before(ReadParts(f, s, Len(s) - 1), Len(s))
  <1> DEFINE n == Len(s)
             l == Len(t)
             P == ReadParts(f, s, n - 1)
             Q == ReadParts(f, t, l - 1)
             p == t[l].block
             q == s[n].block
             k == t[l].next
  <1>1. n \in Nat /\ l \in Nat /\ l > 0 /\ n = l + 1 /\ n - 1 = l /\ MaxDepth \in Nat
    BY AttributesAssumption DEF Calls
  <1>2. /\ n - 1 \in 0 .. n /\ l - 1 \in 0 .. l /\ l <= MaxDepth + 1 /\ l \in 1 .. l
        /\ l \in 1 .. n /\ n \in 1 .. n /\ \A i \in 1 .. l : i \in 1 .. n
    BY <1>1
  <1>3. s[l] = t[l] /\ k \in Nat
    <2>1. t[l].next \in Nat
      BY <1>2, CallIs
    <2> QED
      BY <1>2, <2>1
  <1>4. ASSUME NEW i \in 1 .. l PROVE NumberOf(f, t, i) = NumberOf(f, s, i)
    <2>1. i # 1 => i - 1 \in 1 .. l
      BY <1>1
    <2>2. i # 1 => t[i - 1] = s[i - 1]
      BY <2>1
    <2> QED
      BY <2>2 DEF NumberOf
  <1>5. InTree(f, t, l - 1)
    <2>1. \A i \in 1 .. l : i \in 1 .. n - 1 /\ i \in 1 .. n
      BY <1>1
    <2>2. \A i \in 1 .. l - 1 : i \in 1 .. l
      BY <1>1
    <2>3. \A i \in 1 .. l - 1 : f.disk[t[i].block].kind = "branch" /\ t[i].next # 0
      BY <2>1, <2>2 DEF InTree
    <2>4. ASSUME NEW i \in 1 .. l
          PROVE  /\ t[i].block \in Sound(f)[Level(i)]
                 /\ t[i].block = BlockOf(f, NumberOf(f, t, i))
                 /\ t[i].next <= f.disk[t[i].block].count
      <3>1. t[i] = s[i] /\ i \in 1 .. n
        BY <2>1
      <3> QED
        BY <1>4, <3>1 DEF InTree
    <2> QED
      BY <2>3, <2>4 DEF InTree
  <1>6. /\ P \in Seq(Seq(KeptAttribute)) /\ Len(P) = n
        /\ \A i \in 1 .. n :
             /\ Level(i) \in 1 .. MaxDepth + 1 /\ s[i].block \in Sound(f)[Level(i)]
             /\ Read(s, n - 1, i) \in 0 .. f.disk[s[i].block].count
             /\ P[i] = Part(f, s[i].block, Level(i), Read(s, n - 1, i))
    BY <1>2, ReadPartsAre
  <1>7. /\ Q \in Seq(Seq(KeptAttribute)) /\ Len(Q) = l
        /\ \A i \in 1 .. l :
             /\ Read(t, l - 1, i) \in 0 .. f.disk[t[i].block].count
             /\ Q[i] = Part(f, t[i].block, Level(i), Read(t, l - 1, i))
    BY <1>2, <1>5, ReadPartsAre
  <1>8. \A i \in 1 .. l - 1 : Q[i] = P[i]
    <2> TAKE i \in 1 .. l - 1
    <2>1. i \in 1 .. l /\ i \in 1 .. n /\ i <= l - 1 /\ i <= n - 1
      BY <1>1
    <2>2. t[i] = s[i]
      BY <2>1
    <2>3. Read(t, l - 1, i) = Read(s, n - 1, i)
      BY <2>1, <2>2 DEF Read
    <2> HIDE DEF P, Q
    <2> QED
      BY <1>6, <1>7, <2>1, <2>2, <2>3
  <1>9. /\ p \in Sound(f)[Level(l)] /\ Level(l) \in 1 .. MaxDepth + 1
        /\ q \in Sound(f)[Level(n)] /\ Level(n) \in 1 .. MaxDepth + 1
        /\ Level(n) = Level(l) - 1
    <2>1. Level(n) = Level(l) - 1
      BY <1>1 DEF Level
    <2> QED
      BY <1>2, <1>3, <1>6, <2>1
  <1>10. /\ f.disk[p].kind = "branch" /\ k # 0 /\ k <= f.disk[p].count
         /\ q = BlockOf(f, f.disk[p].entries[k])
    <2>1. l \in 1 .. n - 1
      BY <1>1
    <2>2. NumberOf(f, s, n) = f.disk[s[l].block].entries[s[l].next]
      BY <1>1 DEF NumberOf
    <2>3. q = BlockOf(f, NumberOf(f, s, n))
      BY <1>2 DEF InTree
    <2>4. f.disk[s[l].block].kind = "branch" /\ s[l].next # 0
          /\ s[l].next <= f.disk[s[l].block].count
      BY <1>2, <2>1 DEF InTree
    <2> QED
      BY <1>3, <2>2, <2>3, <2>4
  <1>11. P[n] = StoredBelow(f)[Level(n)][q]
    <2>1. ~(n <= n - 1)
      BY <1>1
    <2>2. Read(s, n - 1, n) = f.disk[q].count
      BY <2>1 DEF Read
    <2>3. P[n] = Part(f, q, Level(n), f.disk[q].count) /\ f.disk[q].count \in 0 .. f.disk[q].count
      <3> HIDE DEF P
      <3> QED
        BY <1>2, <1>6, <2>2
    <2> HIDE DEF P, q
    <2> QED
      BY <1>9, <2>3, PartIs
  <1>12. Q[l] = P[l] \o P[n]
    <2>1. ~(l <= l - 1) /\ l <= n - 1
      BY <1>1
    <2>2. Read(t, l - 1, l) = k /\ Read(s, n - 1, l) = k - 1
      BY <1>3, <2>1 DEF Read
    <2>3. Q[l] = Part(f, p, Level(l), k) /\ P[l] = Part(f, p, Level(l), k - 1)
      <3> HIDE DEF P, Q
      <3> QED
        BY <1>2, <1>3, <1>6, <1>7, <2>2
    <2>4. k \in 1 .. f.disk[p].count
      <3>1. f.disk[p].count \in Nat
        BY <1>9, SoundBlock
      <3> HIDE DEF k, p
      <3> QED
        BY <1>3, <1>10, <3>1
    <2> HIDE DEF P, Q, p, q, k
    <2>5. Q[l] = P[l] \o StoredBelow(f)[Level(l) - 1][BlockOf(f, f.disk[p].entries[k])]
      BY <1>9, <1>10, <2>3, <2>4, PartNext
    <2> QED
      BY <1>9, <1>10, <1>11, <2>5
  <1> HIDE DEF P, Q, n, l, p, q, k
  <1> DEFINE y == l - 1
  <1>13. y \in Nat /\ y <= Len(P) /\ y <= Len(Q) /\ n \in 0 .. Len(P) /\ l \in 0 .. Len(Q) /\ n # 0
         /\ l # 0 /\ l - 1 = y /\ l \in 0 .. Len(P) /\ n - 1 = l
    BY <1>1, <1>6, <1>7
  <1> HIDE DEF y
  <1>14. Before(Q, y) = Before(P, y)
    <2>1. \A i \in 1 .. y : P[i] = Q[i]
      BY <1>8 DEF y
    <2> QED
      BY <1>6, <1>7, <1>13, <2>1, BeforeAgrees
  <1>15. Before(Q, l) = Before(Q, y) \o Q[l] /\ Before(P, n) = Before(P, l) \o P[n]
         /\ Before(P, l) = Before(P, y) \o P[l]
    BY <1>6, <1>7, <1>13, BeforeIs
  <1>16. Before(P, y) \in Seq(KeptAttribute) /\ P[n] \in Seq(KeptAttribute)
         /\ P[l] \in Seq(KeptAttribute)
    <2>1. y \in 0 .. Len(P) /\ n \in 1 .. Len(P) /\ l \in 1 .. Len(P)
      BY <1>13
    <2> QED
      BY <1>6, <2>1, BeforeTyped
  <1>17. Before(Q, l) = Before(P, n)
    <2> DEFINE a == Before(P, y)
               c == P[l]
               w == P[n]
    <2>1. a \in Seq(KeptAttribute) /\ c \in Seq(KeptAttribute) /\ w \in Seq(KeptAttribute)
      BY <1>16
    <2>2. Before(Q, l) = a \o (c \o w) /\ Before(P, n) = (a \o c) \o w
      BY <1>12, <1>14, <1>15
    <2> HIDE DEF a, c, w
    <2>3. (a \o c) \o w = a \o (c \o w)
      BY <2>1, Associates
    <2> QED
      BY <2>2, <2>3
  <1> QED
    BY <1>1, <1>5, <1>17 DEF P, Q, n, l

(* Before the first read nothing has been listed.                          *)
LEMMA CompleteBegins == AttributesInit => Complete
  BY DEF AttributesInit, Complete

(* Values that lie in a leaf are accepted, and read where they are stored: *)
(* a name that ends where the place wraps leaves no room for data.         *)
LEMMA WithinFits ==
  ASSUME NEW x, x.count \in Nat, NEW e \in Entry, Within(x, e)
  PROVE  Fits(x, e) /\ ValuesRead(e) = ValuesStored(e)
  <1>1. /\ e.at \in Nat /\ e.nameSize \in Nat /\ e.valueSize \in Nat /\ e.local \in BOOLEAN
        /\ BlockUnits \in Nat /\ BlockUnits <= OffsetLimit /\ OffsetLimit \in Nat
    BY AttributesAssumption DEF Entry
  <1>2. FixedSize(e) \in Nat /\ FixedSize(e) > 0
    BY DEF FixedSize
  <1>3. NameEnd(e) \in Nat /\ DataSize(e) \in Nat /\ ValuesOffset(e) \in Nat
    BY <1>1, SizesAre
  <1>4. EntriesEnd(x) <= e.at /\ NameEnd(e) + DataSize(e) <= BlockUnits
    BY DEF Within
  <1>5. NameEnd(e) < OffsetLimit => ValuesOffset(e) = NameEnd(e)
    BY <1>3, OffsetIs DEF ValuesOffset
  <1>6. ~(NameEnd(e) < OffsetLimit) => ValuesOffset(e) = 0 /\ DataSize(e) = 0
    <2>1. ~(NameEnd(e) < OffsetLimit) => NameEnd(e) = OffsetLimit /\ DataSize(e) = 0
      BY <1>1, <1>3, <1>4
    <2> QED
      BY <1>3, <2>1, OffsetIs DEF ValuesOffset
  <1>7. ValuesOffset(e) + DataSize(e) <= BlockUnits
    BY <1>1, <1>3, <1>4, <1>5, <1>6
  <1>8. e.local => e.valueSize <= BlockUnits - ValuesOffset(e)
    BY <1>1, <1>3, <1>7 DEF DataSize
  <1>9. /\ e.at < BlockUnits /\ FixedSize(e) <= BlockUnits - e.at
        /\ e.nameSize <= BlockUnits - e.at - FixedSize(e)
    BY <1>1, <1>2, <1>3, <1>4 DEF NameEnd
  <1>10. ValuesRead(e) = ValuesStored(e)
    BY <1>5, <1>6 DEF ValuesRead, ValuesStored, ValuesAt
  <1> QED
    BY <1>4, <1>8, <1>9, <1>10 DEF Fits

(* One entry more of a table.                                              *)
LEMMA TablePartIs ==
  ASSUME NEW f, f.entries \in Seq(Entry), NEW n \in 0 .. Len(f.entries)
  PROVE  /\ TablePart(f, n) \in Seq(KeptAttribute) /\ Len(TablePart(f, n)) = n
         /\ \A i \in 1 .. n : TablePart(f, n)[i] = Values([f.entries[i] EXCEPT !.local = TRUE])
  <1>1. n \in Nat /\ n <= Len(f.entries)
    OBVIOUS
  <1>2. ASSUME NEW i \in 1 .. n PROVE Values([f.entries[i] EXCEPT !.local = TRUE]) \in KeptAttribute
    <2>1. i \in Nat \ {0} /\ i <= Len(f.entries)
      BY <1>1
    <2>2. EntryOf(f.entries, i) = f.entries[i]
          /\ Values([EntryOf(f.entries, i) EXCEPT !.local = TRUE]) \in KeptAttribute
      BY <2>1, EntryIs
    <2> QED
      BY <2>2
  <1> DEFINE v(i) == Values([f.entries[i] EXCEPT !.local = TRUE])
             s == TablePart(f, n)
  <1>3. s = [i \in 1 .. n |-> v(i)]
    BY DEF TablePart
  <1> HIDE DEF s
  <1>4. \A i \in 1 .. n : v(i) \in KeptAttribute
    BY <1>2
  <1> HIDE DEF v
  <1>5. s \in Seq(KeptAttribute) /\ Len(s) = n /\ \A i \in 1 .. n : s[i] = v(i)
    BY <1>1, <1>3, <1>4
  <1> QED
    BY <1>5 DEF s, v

(* The table of a fork in order is read without an error.                  *)
LEMMA TableStep ==
  ASSUME AttributesInv, Complete, WellFormed(fork), ReadTableEntry \/ EndTable
  PROVE  Complete'
  <1> DEFINE s == TableEnds(fork)
             k == attributeIndex
  <1>1. /\ fork \in Forks /\ fork.entries \in Seq(Entry) /\ stage = "table" /\ fork.type = "inline"
        /\ k \in Nat /\ fork.count \in Nat /\ fork.size \in Nat /\ fork.stated \in Nat
    BY ForkIs DEF AttributesInv, AttributesTypeOK, Called, ReadTableEntry, EndTable
  <1>2. /\ fork.count = Len(fork.entries) /\ TableSize(fork) <= fork.stated
        /\ fork.stated <= fork.size
        /\ \A i \in 1 .. fork.count : NameIsSet(fork.entries[i])
    BY <1>1 DEF WellFormed
  <1>3. k <= fork.count /\ array = TablePart(fork, k) /\ offset = s[k] /\ stack = <<>>
    BY <1>1 DEF Complete
  <1>4. Stored(fork) = TablePart(fork, fork.count)
    BY <1>1 DEF Stored, TablePart
  <1>5. CASE EndTable
    <2>1. array' = TablePart(fork, fork.count) /\ stage' = "done" /\ UNCHANGED <<fork, stack>>
      <3>1. k = fork.count
        <4>1. k >= fork.count
          BY <1>5 DEF EndTable
        <4> QED
          BY <1>1, <1>3, <4>1
      <3> QED
        BY <1>3, <1>5, <3>1 DEF EndTable
    <2> QED
      BY <1>3, <1>4, <2>1 DEF Complete
  <1>6. CASE ReadTableEntry
    <2> DEFINE n == k + 1
               e == fork.entries[n]
               v == Values([e EXCEPT !.local = TRUE])
    <2>1. k < fork.count
      BY <1>6 DEF ReadTableEntry
    <2>2. n \in 1 .. Len(fork.entries) /\ n - 1 = k /\ Len(fork.entries) \in n .. Len(fork.entries)
          /\ n \in 0 .. Len(fork.entries) /\ k \in 0 .. Len(fork.entries) /\ n \in k .. Len(fork.entries)
          /\ n \in Nat \ {0} /\ n <= Len(fork.entries)
      BY <1>1, <1>2, <2>1
    <2>3. e \in Entry /\ EntryOf(fork.entries, n) = e /\ v \in KeptAttribute
      <3>1. e \in Entry
        BY <1>1, <2>2
      <3>2. EntryOf(fork.entries, n) = e /\ v \in KeptAttribute
        BY <1>1, <2>2, EntryIs
      <3> QED
        BY <3>1, <3>2
    <2>4. e.nameSize \in Nat /\ e.valueSize \in Nat /\ NameIsSet(e)
      BY <1>2, <2>2, <2>3 DEF Entry
    <2>5. s[n] = s[k] + 1 + e.nameSize + e.valueSize
      <3> DEFINE j == n
      <3>1. s[j] = s[j - 1] + 1 + fork.entries[j].nameSize + fork.entries[j].valueSize
        BY <1>1, <2>2, TableEndsAre
      <3> QED
        BY <2>2, <3>1
    <2>6. s[k] \in Nat /\ s[k] > 0 /\ s[n] \in Nat /\ s[n] <= fork.size
      <3>1. s[k] \in Nat /\ s[k] > 0 /\ s[n] \in Nat
        BY <1>1, <2>2, TableEndsGrow
      <3>2. s[n] <= s[Len(fork.entries)] /\ s[Len(fork.entries)] \in Nat
        BY <1>1, <2>2, TableEndsGrow
      <3>3. s[Len(fork.entries)] = TableSize(fork)
        BY <1>1, TableEndsAre
      <3> DEFINE z == s[Len(fork.entries)]
                 x == s[n]
      <3>4. z <= fork.stated /\ x <= z /\ z \in Nat /\ x \in Nat
        BY <1>2, <3>1, <3>2, <3>3
      <3> HIDE DEF z, x
      <3>5. x <= fork.size
        BY <1>1, <1>2, <3>4
      <3> QED
        BY <3>1, <3>5 DEF x
    <2> DEFINE name == offset + 1
               data1 == name + e.nameSize
               a == s[k]
               c == s[n]
               x == e.nameSize
               y == e.valueSize
    <2>7. /\ a \in Nat /\ a > 0 /\ c \in Nat /\ c <= fork.size /\ x \in Nat /\ y \in Nat
          /\ c = a + 1 + x + y /\ offset = a
      BY <1>3, <2>4, <2>5, <2>6
    <2> HIDE DEF a, c, x, y
    <2>8. /\ ~(offset > fork.size - 1) /\ ~(x > fork.size - 1)
          /\ ~(fork.size >= offset + 1 + x /\ y > fork.size - (offset + 1 + x))
          /\ offset + 1 + x + y = c
      BY <1>1, <2>7
    <2>9. /\ array' = Append(array, v) /\ attributeIndex' = n /\ offset' = c /\ stage' = "table"
          /\ UNCHANGED <<fork, stack>>
      <3>1. ~(\/ x > fork.size - 1
              \/ ~NameIsSet(e)
              \/ fork.size >= offset + 1 + x /\ y > fork.size - (offset + 1 + x))
        BY <2>4, <2>8
      <3>2. /\ array' = Append(array, v) /\ attributeIndex' = n /\ offset' = offset + 1 + x + y
            /\ stage' = "table" /\ UNCHANGED <<fork, stack>>
        BY <1>6, <2>3, <2>8, <3>1 DEF ReadTableEntry, x, y
      <3> QED
        BY <2>8, <3>2
    <2>10. Append(TablePart(fork, k), v) = TablePart(fork, n)
      <3> DEFINE g == TablePart(fork, k)
                 h == TablePart(fork, n)
                 w(i) == Values([fork.entries[i] EXCEPT !.local = TRUE])
      <3>1. /\ g \in Seq(KeptAttribute) /\ Len(g) = k /\ \A i \in 1 .. k : g[i] = w(i)
            /\ h \in Seq(KeptAttribute) /\ Len(h) = n /\ \A i \in 1 .. n : h[i] = w(i)
        BY <1>1, <2>2, TablePartIs
      <3>2. w(n) = v /\ n \in 1 .. n /\ \A i \in 1 .. k : i \in 1 .. n
        BY <1>1, <2>2
      <3> HIDE DEF g, h, v, w
      <3>3. /\ g \in Seq(KeptAttribute) /\ Len(g) = k /\ h \in Seq(KeptAttribute)
            /\ Len(h) = k + 1 /\ h[k + 1] = v /\ v \in KeptAttribute
            /\ \A i \in 1 .. k : g[i] = h[i]
        BY <2>3, <3>1, <3>2
      <3>4. Append(g, v) = h
        BY <1>1, <3>3
      <3> QED
        BY <3>4 DEF g, h
    <2>11. array' = TablePart(fork, n) /\ offset' = s[n] /\ n <= fork.count
      BY <1>2, <1>3, <2>2, <2>9, <2>10 DEF c
    <2> HIDE DEF n, s
    <2>13. /\ attributeIndex' <= (fork.count)' /\ stack' = <<>>
           /\ array' = TablePart(fork', attributeIndex')
           /\ offset' = TableEnds(fork')[attributeIndex']
      BY <1>3, <2>9, <2>11 DEF s
    <2> QED
      BY <2>9, <2>13 DEF Complete
  <1> QED
    BY <1>5, <1>6

(* The block that is visited next is the root of a tree in order, and the  *)
(* recursion is not too deep for it.                                       *)
LEMMA NextBlock ==
  ASSUME AttributesInv, Complete, WellFormed(fork), stage = "visit"
  PROVE  /\ Readable(fork, visit) /\ Len(stack) <= MaxDepth
         /\ BlockOf(fork, visit) \in Sound(fork)[Level(Len(stack) + 1)]
         /\ Level(Len(stack) + 1) \in 1 .. MaxDepth + 1
  <1> DEFINE n == Len(stack)
  <1>1. /\ fork \in Forks /\ stack \in Calls(fork) /\ n <= MaxDepth + 1
        /\ fork.type = "mapped" /\ fork.extents # <<>>
        /\ InTree(fork, stack, n) /\ visit = NumberOf(fork, stack, n + 1)
    BY FrameTyped DEF AttributesInv, Complete, Calls, Frame
  <1>2. n \in Nat /\ MaxDepth \in Nat
    BY <1>1, AttributesAssumption DEF Calls
  <1>3. CASE n = 0
    <2>1. visit = 0
      BY <1>1, <1>3 DEF NumberOf
    <2>2. WellFormedTree(fork)
      BY <1>1 DEF WellFormed
    <2>3. Level(n + 1) = MaxDepth + 1
      BY <1>2, <1>3 DEF Level
    <2> QED
      BY <1>2, <1>3, <2>1, <2>2, <2>3, SoundIs
  <1>4. CASE n # 0
    <2> DEFINE p == stack[n].block
               k == stack[n].next
               l == Level(n)
    <2>1. n \in 1 .. n /\ n + 1 # 1 /\ (n + 1) - 1 = n
      BY <1>2, <1>4
    <2>2. l \in 1 .. MaxDepth + 1 /\ Level(n + 1) = l - 1
      BY <1>1, <1>2, <1>4 DEF Level
    <2>3. p \in Sound(fork)[l] /\ fork.disk[p].kind = "branch" /\ k # 0
          /\ k <= fork.disk[p].count
      BY <1>1, <2>1 DEF InTree
    <2>4. k \in Nat /\ fork.disk[p].count \in Nat
      <3>1. k \in Nat
        BY <1>1, <2>1, CallIs
      <3>2. fork.disk[p].count \in Nat
        BY <1>1, <2>2, <2>3, SoundBlock
      <3> QED
        BY <3>1, <3>2
    <2> DEFINE j == n + 1
    <2>5. visit = fork.disk[p].entries[k]
      <3>1. j # 1 /\ j - 1 = n /\ visit = NumberOf(fork, stack, j)
        BY <1>1, <2>1
      <3> HIDE DEF j
      <3> QED
        BY <3>1 DEF NumberOf
    <2> HIDE DEF k, p, l
    <2>6. k \in 1 .. fork.disk[p].count
      BY <2>3, <2>4
    <2>7. Readable(fork, visit) /\ BlockOf(fork, visit) \in Sound(fork)[l - 1]
      BY <1>1, <2>2, <2>3, <2>5, <2>6, SoundBlock
    <2>8. l - 1 # 0
      BY <2>7, SoundIs
    <2>9. l - 1 \in 1 .. MaxDepth + 1 /\ n <= MaxDepth
      <3>1. l - 1 \in 1 .. MaxDepth + 1
        BY <1>2, <2>2, <2>8
      <3>2. l - 1 = MaxDepth + 1 - n
        BY <1>2 DEF Level, l
      <3> QED
        BY <1>2, <3>1, <3>2
    <2> QED
      BY <2>2, <2>7, <2>9
  <1> QED
    BY <1>3, <1>4

(* A read begins with an empty list, a table or the root of a tree.        *)
LEMMA ReadBegins ==
  ASSUME AttributesInv, Complete, WellFormed(fork), GetFromInode
  PROVE  Complete'
  <1>1. /\ fork \in Forks /\ fork' = fork /\ stack' = stack /\ array' = <<>>
        /\ attributeIndex' = 0 /\ offset' = 1 /\ visit' = 0 /\ stage = "idle"
    BY DEF GetFromInode, AttributesInv, AttributesTypeOK
  <1>2. stack = <<>> /\ fork.type \in {"inline", "mapped"} /\ fork.entries \in Seq(Entry)
    BY <1>1, ForkIs DEF Complete, WellFormed
  <1>3. CASE fork.type = "inline"
    <2>1. /\ TableSize(fork) <= fork.stated /\ fork.stated <= fork.size /\ fork.count = Len(fork.entries)
      BY <1>3 DEF WellFormed
    <2>2. fork.stated \in 1 .. fork.size
      <3>1. TableSize(fork) \in Nat /\ TableSize(fork) > 0
        <4>1. 0 \in 0 .. Len(fork.entries) /\ Len(fork.entries) \in 0 .. Len(fork.entries)
          BY <1>2
        <4>2. TableEnds(fork)[Len(fork.entries)] \in Nat /\ TableEnds(fork)[Len(fork.entries)] > 0
          BY <1>2, <4>1, TableEndsGrow
        <4> QED
          BY <1>2, <4>2, TableEndsAre
      <3>2. fork.stated \in Nat /\ fork.size \in Nat
        BY <1>1, ForkIs
      <3> QED
        BY <2>1, <3>1, <3>2
    <2>3. stage' = "table"
      BY <1>3, <2>2 DEF GetFromInode
    <2>4. TableEnds(fork)[0] = 1 /\ TablePart(fork, 0) = <<>> /\ 0 <= fork.count
      <3>1. 0 <= fork.count
        BY <1>1, ForkIs
      <3> QED
        BY <1>2, <3>1, TableEndsAre DEF TablePart
    <2> QED
      BY <1>1, <1>2, <2>3, <2>4 DEF Complete
  <1>4. CASE fork.type = "mapped" /\ fork.extents = <<>>
    <2>1. stage' = "done" /\ Stored(fork) = <<>>
      BY <1>4 DEF GetFromInode, Stored
    <2> QED
      BY <1>1, <1>2, <2>1 DEF Complete
  <1>5. CASE fork.type = "mapped" /\ fork.extents # <<>>
    <2>1. stage' = "visit"
      BY <1>5 DEF GetFromInode
    <2>2. Len(stack) = 0 /\ stack' = <<>> /\ Len(stack') = 0
      BY <1>1, <1>2
    <2>3. InTree(fork, stack', Len(stack'))
      BY <2>2 DEF InTree
    <2>4. Before(ReadParts(fork, stack', Len(stack')), Len(stack')) = <<>>
      BY <2>2 DEF Before
    <2>5. NumberOf(fork, stack', Len(stack') + 1) = 0
      BY <2>2 DEF NumberOf
    <2> QED
      BY <1>1, <1>5, <2>1, <2>3, <2>4, <2>5 DEF Complete
  <1> QED
    BY <1>2, <1>3, <1>4, <1>5

(* The next block of a tree that is in order can be read: a call over it   *)
(* is made.                                                                *)
LEMMA VisitStep ==
  ASSUME AttributesInv, Complete, WellFormed(fork), Visit
  PROVE  Complete'
  <1> DEFINE n == Len(stack)
             p == BlockOf(fork, visit)
  <1>1. /\ fork \in Forks /\ stack \in Calls(fork) /\ n <= MaxDepth + 1 /\ stage = "visit"
        /\ fork.type = "mapped" /\ fork.extents # <<>> /\ fork' = fork /\ array' = array
        /\ InTree(fork, stack, n) /\ visit = NumberOf(fork, stack, n + 1)
        /\ array = Before(ReadParts(fork, stack, n), n)
    BY FrameTyped DEF AttributesInv, Complete, Visit, Calls, Frame
  <1>2. /\ Readable(fork, visit) /\ n <= MaxDepth
        /\ p \in Sound(fork)[Level(n + 1)] /\ Level(n + 1) \in 1 .. MaxDepth + 1
    BY <1>1, NextBlock
  <1>3. CanVisit(MaxDepth)
    <2>1. p \in DOMAIN fork.disk /\ WellFormedBlock(fork.disk[p])
      BY <1>1, <1>2, SoundBlock
    <2>2. ExtentWith(fork, visit) # 0
      BY <1>2 DEF Readable
    <2>3. p = Physical(fork.extents[ExtentWith(fork, visit)], visit)
      BY DEF BlockOf
    <2>4. fork.disk[p].kind # "other" /\ EntriesEnd(fork.disk[p]) <= BlockUnits
      BY <2>1 DEF WellFormedBlock
    <2> HIDE DEF p
    <2> QED
      BY <1>2, <2>1, <2>2, <2>3, <2>4 DEF CanVisit, Depth
  <1>4. stack' = Append(stack, [block |-> p, next |-> 0]) /\ stage' = "loop"
    BY <1>3 DEF Visit, Push, BlockOf
  <1> DEFINE t == stack'
             fr == [block |-> p, next |-> 0]
  <1>5. p \in DOMAIN fork.disk
    BY <1>1, <1>2, SoundBlock
  <1>6. /\ t \in Calls(fork) /\ Len(t) = n + 1 /\ t # <<>>
        /\ \A i \in 1 .. n : t[i] = stack[i]
        /\ t[n + 1] = fr
    <2> DEFINE S == [block : DOMAIN fork.disk, next : Nat]
    <2>1. stack \in Seq(S)
      BY <1>1 DEF Calls
    <2>2. fr \in S
      BY <1>5
    <2> HIDE DEF S, fr
    <2>3. /\ t \in Seq(S) /\ Len(t) = n + 1 /\ t # <<>>
          /\ \A i \in 1 .. n : t[i] = stack[i]
          /\ t[n + 1] = fr
      BY <1>4, <2>1, <2>2 DEF fr
    <2> QED
      BY <2>3 DEF Calls, S
  <1> HIDE DEF t
  <1>7. t[n + 1].next = 0 /\ t[n + 1].block = p
    BY <1>6
  <1> HIDE DEF fr, p, n
  <1>8. /\ InTree(fork, t, Len(t) - 1)
        /\ Before(ReadParts(fork, t, Len(t) - 1), Len(t)) = Before(ReadParts(fork, stack, n), n)
    BY <1>1, <1>2, <1>6, <1>7, Pushed DEF n, p
  <1> QED
    BY <1>1, <1>4, <1>6, <1>8 DEF Complete, t

(* An iteration of the loop of a call, over a leaf or a branch.            *)
LEMMA LoopStep ==
  ASSUME AttributesInv, Complete, WellFormed(fork), ReadLeafEntry \/ ReadBranchEntry
  PROVE  Complete'
  <1> DEFINE n == Len(stack)
             p == stack[n].block
             x == fork.disk[p]
             k == stack[n].next
             l == Level(n)
  <1>1. /\ fork \in Forks /\ stack \in Calls(fork) /\ n <= MaxDepth + 1 /\ stage = "loop"
        /\ fork.type = "mapped" /\ fork.extents # <<>> /\ fork' = fork
        /\ stack # <<>> /\ InTree(fork, stack, n - 1)
        /\ array = Before(ReadParts(fork, stack, n - 1), n)
        /\ array \in Seq(KeptAttribute)
    BY FrameTyped DEF AttributesInv, Complete, ReadLeafEntry, ReadBranchEntry, Calls, Frame
  <1>2. n \in Nat /\ n # 0 /\ MaxDepth \in Nat /\ n \in 1 .. n /\ l \in 1 .. MaxDepth + 1
    <2>1. n \in Nat /\ n # 0 /\ MaxDepth \in Nat
      BY <1>1, AttributesAssumption DEF Calls
    <2> QED
      BY <1>1, <2>1 DEF Level
  <1>3. k \in Nat /\ p \in Sound(fork)[l] /\ Top = stack[n] /\ Block = x /\ k < x.count
    <2>1. k \in Nat
      BY <1>1, <1>2, CallIs
    <2>2. p \in Sound(fork)[l]
      BY <1>1, <1>2 DEF InTree
    <2> QED
      BY <2>1, <2>2 DEF Top, Block, ReadLeafEntry, ReadBranchEntry
  <1>4. /\ p \in DOMAIN fork.disk /\ WellFormedBlock(x)
        /\ x.count \in Nat /\ x.count = Len(x.entries)
        /\ x.kind = "leaf" => x.entries \in Seq(Entry)
    BY <1>1, <1>2, <1>3, SoundBlock
  <1>5. k + 1 \in 1 .. x.count /\ k + 1 \in Nat \ {0} /\ k + 1 <= Len(x.entries) /\ k < Len(x.entries)
    <2> DEFINE c == x.count
    <2>1. c \in Nat /\ k \in Nat /\ k < c /\ c = Len(x.entries)
      BY <1>3, <1>4
    <2> HIDE DEF c, k
    <2>2. k + 1 \in 1 .. c /\ k + 1 \in Nat \ {0} /\ k + 1 <= c /\ k < c
      BY <2>1
    <2> QED
      BY <2>1, <2>2 DEF c
  <1> DEFINE t == stack'
  <1>6. ASSUME NextEntry
        PROVE  /\ t \in Calls(fork) /\ Len(t) = n /\ t # <<>>
               /\ \A i \in 1 .. n - 1 : t[i] = stack[i]
               /\ t[n].block = p /\ t[n].next = k + 1
    <2> DEFINE S == [block : DOMAIN fork.disk, next : Nat]
               top == stack[n]
               fr == [top EXCEPT !.next = @ + 1]
    <2>1. stack \in Seq(S) /\ top \in S
      <3>1. top \in S
        BY <1>1, <1>2, CallIs
      <3> QED
        BY <1>1, <3>1 DEF Calls
    <2>2. t = [stack EXCEPT ![n] = fr]
      BY <1>6 DEF NextEntry
    <2> HIDE DEF top
    <2>3. fr \in S /\ fr.block = top.block /\ fr.next = top.next + 1
      BY <2>1
    <2> HIDE DEF S, fr
    <2>4. t \in Seq(S) /\ Len(t) = n /\ t # <<>> /\ t[n] = fr
          /\ \A i \in 1 .. n - 1 : t[i] = stack[i]
      BY <1>1, <1>2, <2>1, <2>2, <2>3
    <2> HIDE DEF t
    <2> QED
      BY <2>3, <2>4 DEF Calls, S, top
  <1> HIDE DEF t
  <1>7. CASE ReadLeafEntry
    <2> DEFINE e == x.entries[k + 1]
    <2>1. x.kind = "leaf"
      BY <1>3, <1>7 DEF ReadLeafEntry
    <2>2. EntryOf(x.entries, k + 1) = e /\ e \in Entry
      BY <1>4, <1>5, <2>1, EntryIs
    <2>3. Within(x, e) /\ NameIsSet(e)
      BY <1>4, <1>5, <2>1 DEF WellFormedBlock
    <2>4. Fits(x, e) /\ ValuesRead(e) = ValuesStored(e)
      <3> HIDE DEF e, x
      <3> QED
        BY <1>4, <2>2, <2>3, WithinFits
    <2>5. array' = Append(array, ValuesStored(e)) /\ NextEntry /\ stage' = "loop"
      <3>1. EntryOf(Block.entries, Top.next + 1) = e /\ Fits(Block, e)
        BY <1>3, <2>2, <2>4
      <3> QED
        BY <1>7, <2>3, <2>4, <3>1 DEF ReadLeafEntry
    <2>6. /\ t \in Calls(fork) /\ Len(t) = n /\ t # <<>>
          /\ \A i \in 1 .. n - 1 : t[i] = stack[i]
          /\ t[n].block = p /\ t[n].next = k + 1
      BY <1>6, <2>5
    <2>7. /\ InTree(fork, t, Len(t) - 1)
          /\ Before(ReadParts(fork, t, Len(t) - 1), Len(t))
               = Before(ReadParts(fork, stack, n - 1), n) \o <<ValuesStored(e)>>
      BY <1>1, <1>3, <2>1, <2>6, LeafAdvanced
    <2>8. array' = array \o <<ValuesStored(e)>>
      <3>1. ValuesStored(e) \in KeptAttribute
        BY <2>2, ValuesAreKept
      <3> QED
        BY <1>1, <2>5, <3>1, AppendIs
    <2> HIDE DEF e, n
    <2> QED
      BY <1>1, <2>5, <2>6, <2>7, <2>8 DEF Complete, t
  <1>8. CASE ReadBranchEntry
    <2>1. x.kind = "branch" /\ NextEntry /\ stage' = "visit" /\ array' = array
      BY <1>3, <1>8 DEF ReadBranchEntry
    <2>2. visit' = x.entries[k + 1]
      BY <1>3, <1>5, <1>8 DEF ReadBranchEntry
    <2>3. /\ t \in Calls(fork) /\ Len(t) = n /\ t # <<>>
          /\ \A i \in 1 .. n - 1 : t[i] = stack[i]
          /\ t[n].block = p /\ t[n].next = k + 1
      BY <1>6, <2>1
    <2>4. /\ InTree(fork, t, Len(t))
          /\ Before(ReadParts(fork, t, Len(t)), Len(t)) = Before(ReadParts(fork, stack, n - 1), n)
          /\ NumberOf(fork, t, Len(t) + 1) = x.entries[k + 1]
      BY <1>1, <1>3, <2>1, <2>3, BranchAdvanced
    <2> HIDE DEF n, x, k
    <2> QED
      BY <1>1, <2>1, <2>2, <2>3, <2>4 DEF Complete, t
  <1> QED
    BY <1>7, <1>8

(* A call returns: to the loop of the one above it, or with everything.    *)
LEMMA ReturnStep ==
  ASSUME AttributesInv, Complete, WellFormed(fork), EndBlock
  PROVE  Complete'
  <1> DEFINE n == Len(stack)
             p == stack[n].block
             x == fork.disk[p]
             k == stack[n].next
             l == Level(n)
             t == stack'
  <1>1. /\ fork \in Forks /\ stack \in Calls(fork) /\ n <= MaxDepth + 1 /\ stage = "loop"
        /\ fork.type = "mapped" /\ fork.extents # <<>> /\ fork' = fork /\ array' = array
        /\ stack # <<>> /\ InTree(fork, stack, n - 1)
        /\ array = Before(ReadParts(fork, stack, n - 1), n)
        /\ t = Front(stack)
    BY FrameTyped DEF AttributesInv, Complete, EndBlock, Calls, Frame
  <1>2. n \in Nat /\ n # 0 /\ MaxDepth \in Nat /\ n \in 1 .. n /\ l \in 1 .. MaxDepth + 1
    <2>1. n \in Nat /\ n # 0 /\ MaxDepth \in Nat
      BY <1>1, AttributesAssumption DEF Calls
    <2> QED
      BY <1>1, <2>1 DEF Level
  <1>3. k \in Nat /\ p \in Sound(fork)[l] /\ k >= x.count /\ k <= x.count
    <2>1. k \in Nat
      BY <1>1, <1>2, CallIs
    <2>2. p \in Sound(fork)[l] /\ k <= x.count
      BY <1>1, <1>2 DEF InTree
    <2>3. k >= x.count
      BY DEF EndBlock, Top, Block
    <2> QED
      BY <2>1, <2>2, <2>3
  <1>4. k = x.count /\ x.count \in 0 .. x.count
    <2>1. x.count \in Nat
      BY <1>1, <1>2, <1>3, SoundBlock
    <2> DEFINE c == x.count
    <2> HIDE DEF c, k
    <2>2. c \in Nat
      BY <2>1 DEF c
    <2>3. k = c /\ c \in 0 .. c
      BY <1>3, <2>2 DEF c
    <2> QED
      BY <2>3 DEF c
  <1>5. t \in Calls(fork) /\ Len(t) = n - 1 /\ \A i \in 1 .. Len(t) : t[i] = stack[i]
    <2> DEFINE S == [block : DOMAIN fork.disk, next : Nat]
    <2>1. stack \in Seq(S)
      BY <1>1 DEF Calls
    <2> HIDE DEF S, t
    <2>2. t \in Seq(S) /\ Len(t) = n - 1 /\ \A i \in 1 .. Len(t) : t[i] = stack[i]
      BY <1>1, <2>1, FrontIs
    <2> QED
      BY <2>2 DEF Calls, S
  <1> HIDE DEF t
  <1>6. CASE n = 1
    <2>1. stage' = "done" /\ t = <<>>
      <3>1. Len(t) = 0
        BY <1>5, <1>6
      <3>2. t = <<>>
        BY <1>5, <3>1 DEF Calls
      <3> QED
        BY <1>6, <3>2 DEF EndBlock
    <2>2. InTree(fork, stack, 0) /\ array = Before(ReadParts(fork, stack, 0), 1)
      BY <1>1, <1>6
    <2> DEFINE P == ReadParts(fork, stack, 0)
    <2>3. 0 \in 0 .. n /\ 1 \in 1 .. n
      BY <1>2, <1>6
    <2>4. /\ P \in Seq(Seq(KeptAttribute)) /\ Len(P) = n
          /\ P[1] = Part(fork, stack[1].block, Level(1), Read(stack, 0, 1))
      BY <1>1, <2>2, <2>3, ReadPartsAre
    <2>5. Read(stack, 0, 1) = k /\ stack[1].block = p /\ Level(1) = l /\ l = MaxDepth + 1
      BY <1>2, <1>6 DEF Read, Level
    <2>6. p = BlockOf(fork, 0)
      <3>1. NumberOf(fork, stack, 1) = 0
        BY DEF NumberOf
      <3>2. stack[1].block = BlockOf(fork, NumberOf(fork, stack, 1))
        BY <1>1, <2>3 DEF InTree
      <3> QED
        BY <2>5, <3>1, <3>2
    <2>7. P[1] = StoredBelow(fork)[l][p]
      <3>1. P[1] = Part(fork, p, l, x.count)
        BY <1>4, <2>4, <2>5
      <3> HIDE DEF P, p, l
      <3> QED
        BY <1>1, <1>2, <1>3, <1>4, <3>1, PartIs DEF x
    <2>8. P[1] = Stored(fork)
      BY <1>1, <2>5, <2>6, <2>7, StoredIs DEF Stored
    <2> HIDE DEF P
    <2>9. 0 \in 0 .. Len(P) /\ 1 \in 0 .. Len(P) /\ 1 # 0 /\ 1 - 1 = 0 /\ 1 \in 1 .. Len(P)
      BY <1>6, <2>4
    <2>10. Before(P, 1) = Before(P, 1 - 1) \o P[1]
      BY <2>4, <2>9, BeforeIs
    <2>11. Before(P, 1 - 1) = <<>>
      BY DEF Before
    <2>12. P[1] \in Seq(KeptAttribute)
      BY <2>4, <2>9
    <2>13. Before(P, 1) = P[1]
      BY <2>10, <2>11, <2>12, EmptyBegins
    <2>14. array' = Stored(fork)
      BY <1>1, <2>2, <2>8, <2>13 DEF P
    <2> QED
      BY <1>1, <2>1, <2>14 DEF Complete, t
  <1>7. CASE n # 1
    <2>1. stage' = "loop"
      BY <1>7 DEF EndBlock
    <2>2. n > 1 /\ t # <<>>
      BY <1>2, <1>5, <1>7
    <2>3. /\ InTree(fork, t, Len(t) - 1)
          /\ Before(ReadParts(fork, t, Len(t) - 1), Len(t)) = Before(ReadParts(fork, stack, n - 1), n)
      BY <1>1, <1>4, <1>5, <2>2, Popped
    <2> HIDE DEF n
    <2> QED
      BY <1>1, <2>1, <2>2, <2>3 DEF Complete, t
  <1> QED
    BY <1>6, <1>7

(* Every step of the read keeps what was listed complete.                  *)
LEMMA CompleteStep ==
  ASSUME AttributesInv, Complete, [AttributesNext]_attributesVars
  PROVE  Complete'
  <1>1. fork' = fork
    BY DEF AttributesNext, Step, GetFromInode, ReadTableEntry, EndTable, Visit, ReadLeafEntry,
           ReadBranchEntry, EndBlock, Unwind, FreeArray, AppendSegment, EndStream, ReadFault,
           GetValue, CloseValue, attributesVars
  <1>2. SUFFICES ASSUME WellFormed(fork) PROVE Complete'
    BY <1>1 DEF Complete
  <1>3. faults \in Nat
    BY DEF AttributesInv, AttributesTypeOK
  <1>4. CASE GetFromInode
    BY <1>2, <1>4, ReadBegins
  <1>5. CASE ReadTableEntry \/ EndTable
    BY <1>2, <1>5, TableStep
  <1>6. CASE Visit
    BY <1>2, <1>6, VisitStep
  <1>7. CASE ReadLeafEntry \/ ReadBranchEntry
    BY <1>2, <1>7, LoopStep
  <1>8. CASE EndBlock
    BY <1>2, <1>8, ReturnStep
  <1>9. CASE ReadFault
    <2>1. stage' = "unwind" /\ faults' > 0
      BY <1>3, <1>9 DEF ReadFault
    <2> QED
      BY <2>1 DEF Complete
  <1>10. CASE Unwind
    <2>1. /\ stage' \in {"unwind", "failed"} /\ faults' = faults /\ stage = "unwind"
          /\ stage' = "failed" => stack' = <<>>
      BY <1>10 DEF Unwind
    <2> QED
      BY <1>2, <2>1 DEF Complete
  <1>11. CASE FreeArray
    BY <1>2, <1>11 DEF Complete, FreeArray
  <1>12. CASE \/ AppendSegment \/ EndStream \/ CloseValue
              \/ \E k \in 1 .. Len(array) : GetValue(array[k])
    <2>1. /\ stage \in {"done", "segment", "stream", "refused"}
          /\ stage' \in {"done", "segment", "stream", "refused"}
          /\ array' = array /\ stack' = stack
      BY <1>12 DEF AppendSegment, EndStream, CloseValue, GetValue
    <2> QED
      BY <1>1, <1>2, <2>1 DEF Complete
  <1>13. CASE UNCHANGED attributesVars
    BY <1>13 DEF Complete, attributesVars
  <1> QED
    BY <1>4, <1>5, <1>6, <1>7, <1>8, <1>9, <1>10, <1>11, <1>12, <1>13 DEF AttributesNext, Step

(* In every fork as a file system writes it, a table or a tree of any      *)
(* shape no deeper than the recursion may go, the attributes that are      *)
(* given are those that are stored, each once and in order, after any      *)
(* number of reads that failed part of the way; and only a read that fails *)
(* by chance keeps them from being given.                                  *)
THEOREM EveryAttributeIsListed == AttributesSpec => []ListsEveryAttribute
  <1>1. Complete => ListsEveryAttribute
    BY DEF Complete, ListsEveryAttribute
  <1>2. AttributesInv /\ Complete /\ [AttributesNext]_attributesVars => Complete'
    BY CompleteStep
  <1> QED
    BY <1>1, <1>2, CompleteBegins, AttributesSafety, PTL DEF AttributesSpec
==============================================================================
