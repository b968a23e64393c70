----------------------------- MODULE Pyfsxfs_proofs -----------------------------
(***************************************************************************)
(* What is proved of module Pyfsxfs: in a program of any finite number of  *)
(* threads, objects and calls that opens and closes its volume while it    *)
(* holds nothing else of it, every object counts its references, no call   *)
(* works on something that was freed or closed, and what the program has   *)
(* dropped is given back.                                                  *)
(***************************************************************************)
EXTENDS Pyfsxfs, FiniteSetTheorems, TLAPS

Steps == PythonSteps \cup {"ended", "library", "inside", "cfree"}

(* A thread that is not in the program's own code runs a call, drops a     *)
(* reference, or frees an object that has none left.                       *)
Running(t) == pc[t] \notin {"python", "ended"}
Freeing(t) == Running(t) /\ frame[t].op = "dealloc"

(* What is referenced is there.  A file entry has the volume as its        *)
(* parent, everything else the file entry it was got from.                 *)
Family ==
  /\ names \subseteq Live
  /\ \A o \in Live :
       /\ objects[o].kind = "volume" <=> o = 1
       /\ objects[o].kind = "volume" => objects[o].parent = 0
       /\ objects[o].kind = "entry" => objects[o].parent = 1
       /\ objects[o].kind \in Sequential \cup {"attribute"} =>
            objects[o].parent \in Live /\ objects[objects[o].parent].kind = "entry"
       /\ objects[o].kind = "attribute" => objects[o].of = objects[o].parent
       /\ o # 1 => 1 \in Live /\ volume # "closed"

(* An object without a reference is being freed, by one thread.            *)
Unreferenced ==
  /\ \A t \in Threads : Freeing(t) => frame[t].self \in Live /\ objects[frame[t].self].refs = 0
  /\ \A o \in Live : objects[o].refs = 0 => \E t \in Threads : Freeing(t) /\ frame[t].self = o
  /\ \A t, u \in Threads : Freeing(t) /\ Freeing(u) /\ frame[t].self = frame[u].self => t = u

(* Every volume, file entry and attribute has its object of the library    *)
(* until that is freed.                                                    *)
HasLibraryObject(o) ==
  /\ o \in Live /\ objects[o].kind \notin Sequential
  /\ \A t \in Threads : ~(pc[t] = "freed" /\ frame[t].self = o)

InLibrary == \A o \in Ids : o \in library <=> HasLibraryObject(o)

(* What is called, by operation.                                           *)
Callee(op, kind) ==
  /\ op \in Changes => kind = "volume"
  /\ op = "value" => kind \in {"volume", "entry", "attribute"}
  /\ op = "entry" => kind \in {"volume", "entry"}
  /\ op \in {"attribute"} \cup Sequential => kind = "entry"
  /\ op \in {"next", "item"} => kind \in Sequential

Inner == {"library", "callback", "inside", "back", "hfree", "closed"}

(* What a frame has at each step: of a call, and of freeing an object,     *)
(* where only the volume has something to close.                           *)
CallFrame(t) ==
  LET f == frame[t]
  IN  /\ pc[t] \in Inner \cup {"decref"}
      /\ pc[t] \in {"hfree", "closed"} => f.op = "close"
      /\ Callee(f.op, objects[f.self].kind)
      /\ f.op \in {"next", "item"} => f.target = objects[f.self].parent
      /\ f.op \notin {"next", "item"} => f.target = f.self
      /\ pc[t] = "back" /\ f.result = "ok" /\ Asked(f) # "none" => volume # "closed"

FreeFrame(t) ==
  LET f == frame[t]
  IN  /\ pc[t] \in Inner \cup {"dealloc", "cfree", "freed"}
      /\ pc[t] \in Inner => f.self = 1 /\ f.target = 1
      /\ pc[t] = "back" => f.result = "ok"
      /\ pc[t] \in {"cfree", "freed"} => objects[f.self].kind \notin Sequential

Framed(t) ==
  Running(t) =>
    /\ frame[t].self \in Live /\ frame[t].op # "none"
    /\ frame[t].op = "drop" => pc[t] = "decref"
    /\ InCall(t) => CallFrame(t)
    /\ Freeing(t) => FreeFrame(t)
    /\ pc[t] = "back" => frame[t].result \in {"ok", "failed"}
    /\ pc[t] = "callback" => handle

(* Whoever opens, closes or frees the volume is alone with it.             *)
Changing(t) ==
  \/ InCall(t) /\ frame[t].op \in Changes
  \/ Freeing(t) /\ frame[t].self = 1

Alone ==
  \A t \in Threads : Changing(t) =>
    /\ Live = {1}
    /\ \A u \in Threads \ {t} : ~InCall(u) /\ ~Changing(u)

(* The handle is set when the volume is open with a file object, except    *)
(* while that is changed.                                                  *)
Settled == handle <=> volume = "file"

Opening(t) ==
  \/ pc[t] \in {"library", "callback", "inside"}
  \/ pc[t] = "back" /\ frame[t].result = "failed"

AtChange(t) ==
  LET op == frame[t].op
  IN  /\ op = "open" => Settled
      /\ op = "openfile" /\ Opening(t) => handle /\ volume # "file"
      /\ op = "openfile" /\ ~Opening(t) => Settled
      /\ op \in {"close", "dealloc"} =>
           /\ pc[t] \in {"library", "callback", "inside", "decref", "dealloc"} => Settled
           /\ pc[t] \in {"library", "callback", "inside"} /\ op = "dealloc" => handle
           /\ pc[t] = "back" /\ frame[t].result = "ok" => volume = "closed"
           /\ pc[t] = "back" /\ frame[t].result = "failed" => Settled
           /\ pc[t] = "hfree" => handle /\ volume = "closed"
           /\ pc[t] \in {"closed", "cfree", "freed"} => ~handle
           /\ pc[t] \in {"closed", "freed"} => volume = "closed"

VolumeFits ==
  /\ \A t \in Threads : Changing(t) => AtChange(t)
  /\ (\A t \in Threads : ~Changing(t)) => Settled
  /\ 1 \notin Live => volume = "closed" /\ ~handle

(* What the library gave and no Python object has yet.                     *)
Gave(t) == pc[t] = "back" /\ frame[t].result = "ok" /\ Asked(frame[t]) # "none"

LooseAreGiven == loose = Cardinality({t \in Threads : Gave(t)})

IInv ==
  /\ TypeOK
  /\ Family
  /\ Unreferenced
  /\ InLibrary
  /\ \A t \in Threads : Framed(t)
  /\ Alone
  /\ VolumeFits
  /\ LooseAreGiven
  /\ ReferencesAreCounted
  /\ NothingStaleIsUsed

------------------------------------------------------------------------------
(* Counting                                                                *)

LEMMA Parameters ==
  /\ IsFiniteSet(Threads) /\ IsFiniteSet(Ids) /\ 1 \in Ids /\ 0 \notin Ids
  /\ Ids \subseteq Nat
<1>1. MaxObjects \in Nat \ {0} /\ IsFiniteSet(Threads)
  BY PyfsxfsAssumption
<1>2. IsFiniteSet(Ids)
  BY <1>1, FS_Interval DEF Ids
<1>. QED
  BY <1>1, <1>2 DEF Ids

(* Two sets that differ in one element at most.                            *)
LEMMA OneDiffers ==
  ASSUME NEW U, IsFiniteSet(U), NEW S \in SUBSET U, NEW T \in SUBSET U, NEW t \in U,
         \A u \in U \ {t} : u \in S <=> u \in T
  PROVE  /\ Cardinality(S) \in Nat /\ Cardinality(T) \in Nat
         /\ t \in S <=> t \in T => Cardinality(T) = Cardinality(S)
         /\ t \in T /\ t \notin S => Cardinality(T) = Cardinality(S) + 1
         /\ t \in S /\ t \notin T => Cardinality(S) = Cardinality(T) + 1
<1>1. IsFiniteSet(S) /\ IsFiniteSet(T)
  BY FS_Subset
<1>2. Cardinality(S) \in Nat /\ Cardinality(T) \in Nat
  BY <1>1, FS_CardinalityType
<1>3. ASSUME t \in S <=> t \in T PROVE S = T
  BY <1>3
<1>4. ASSUME t \in T, t \notin S PROVE Cardinality(T) = Cardinality(S) + 1
  <2>1. T = S \cup {t}
    BY <1>4
  <2>. QED
    BY <1>1, <1>4, <2>1, FS_AddElement
<1>5. ASSUME t \in S, t \notin T PROVE Cardinality(S) = Cardinality(T) + 1
  <2>1. S = T \cup {t}
    BY <1>5
  <2>. QED
    BY <1>1, <1>5, <2>1, FS_AddElement
<1>. QED
  BY <1>2, <1>3, <1>4, <1>5

Holders(o) == {t \in Threads : Holding(t) /\ frame[t].self = o}
Children(o) == {q \in Live : objects[q].parent = o}
Named(o) == IF o \in names THEN 1 ELSE 0

Counted(o) == objects[o].refs = Named(o) + Cardinality(Holders(o)) + Cardinality(Children(o))
FileCounted == file.refs = (IF file.named THEN 1 ELSE 0) + (IF handle THEN 1 ELSE 0)

LEMMA CountedIs == ReferencesAreCounted <=> (\A o \in Live : Counted(o)) /\ FileCounted
  BY DEF ReferencesAreCounted, Counted, FileCounted, Named, Holders, Children

LEMMA CountedNext ==
  ASSUME \A o \in Live' : Counted(o)', FileCounted'
  PROVE  ReferencesAreCounted'
  BY DEF ReferencesAreCounted, Counted, FileCounted, Named, Holders, Children

LEMMA CountsAreNumbers ==
  ASSUME TypeOK, NEW o \in Ids
  PROVE  /\ IsFiniteSet(Holders(o)) /\ IsFiniteSet(Children(o))
         /\ Cardinality(Holders(o)) \in Nat /\ Cardinality(Children(o)) \in Nat
         /\ Named(o) \in {0, 1}
<1>1. Holders(o) \subseteq Threads /\ Children(o) \subseteq Ids
  BY DEF Holders, Children, Live
<1>2. IsFiniteSet(Holders(o)) /\ IsFiniteSet(Children(o))
  BY <1>1, Parameters, FS_Subset
<1>. QED
  BY <1>2, FS_CardinalityType DEF Named

(* The thread is the only one that moves.                                  *)
OthersStay(t) == \A u \in Threads \ {t} : pc'[u] = pc[u] /\ frame'[u] = frame[u]

LEMMA HoldersMove ==
  ASSUME NEW t \in Threads, OthersStay(t), NEW o \in Ids
  PROVE  /\ Cardinality(Holders(o)) \in Nat /\ Cardinality(Holders(o)') \in Nat
         /\ t \in Holders(o) <=> t \in Holders(o)' => Cardinality(Holders(o)') = Cardinality(Holders(o))
         /\ t \in Holders(o)' /\ t \notin Holders(o) => Cardinality(Holders(o)') = Cardinality(Holders(o)) + 1
         /\ t \in Holders(o) /\ t \notin Holders(o)' => Cardinality(Holders(o)) = Cardinality(Holders(o)') + 1
<1>1. Holders(o) \in SUBSET Threads /\ Holders(o)' \in SUBSET Threads
  BY DEF Holders
<1>2. \A u \in Threads \ {t} : u \in Holders(o) <=> u \in Holders(o)'
  BY DEF OthersStay, Holders, Holding
<1>3. IsFiniteSet(Threads)
  BY Parameters
<1>. HIDE DEF Holders
<1>. QED
  BY <1>1, <1>2, <1>3, OneDiffers

LEMMA ChildrenMove ==
  ASSUME NEW n \in Ids, NEW o \in Ids,
         \A q \in Ids \ {n} : q \in Live <=> q \in Live',
         \A q \in Live \ {n} : objects'[q].parent = objects[q].parent
  PROVE  /\ Cardinality(Children(o)) \in Nat /\ Cardinality(Children(o)') \in Nat
         /\ n \in Children(o) <=> n \in Children(o)' => Cardinality(Children(o)') = Cardinality(Children(o))
         /\ n \in Children(o)' /\ n \notin Children(o) => Cardinality(Children(o)') = Cardinality(Children(o)) + 1
         /\ n \in Children(o) /\ n \notin Children(o)' => Cardinality(Children(o)) = Cardinality(Children(o)') + 1
<1>1. Children(o) \in SUBSET Ids /\ Children(o)' \in SUBSET Ids
  BY DEF Children, Live
<1>2. \A u \in Ids \ {n} : u \in Children(o) <=> u \in Children(o)'
  BY DEF Children
<1>3. IsFiniteSet(Ids)
  BY Parameters
<1>. HIDE DEF Children
<1>. QED
  BY <1>1, <1>2, <1>3, OneDiffers

(* An object with a reference of any kind has a count.                     *)
LEMMA ReferencedHasCount ==
  ASSUME IInv, NEW o \in Live,
         \/ o \in names
         \/ \E t \in Threads : Holding(t) /\ frame[t].self = o
         \/ \E q \in Live : objects[q].parent = o
  PROVE  objects[o].refs >= 1
<1>1. o \in Ids /\ Counted(o) /\ TypeOK
  BY CountedIs DEF IInv, Live
<1>2. /\ IsFiniteSet(Holders(o)) /\ IsFiniteSet(Children(o))
      /\ Cardinality(Holders(o)) \in Nat /\ Cardinality(Children(o)) \in Nat
      /\ Named(o) \in {0, 1}
  BY <1>1, CountsAreNumbers
<1>3. CASE o \in names
  <2>1. Named(o) = 1
    BY <1>3 DEF Named
  <2>. QED
    BY <1>1, <1>2, <2>1 DEF Counted
<1>4. CASE \E t \in Threads : Holding(t) /\ frame[t].self = o
  <2>1. Holders(o) # {}
    BY <1>4 DEF Holders
  <2>2. Cardinality(Holders(o)) # 0
    BY <1>2, <2>1, FS_EmptySet
  <2>. QED
    BY <1>1, <1>2, <2>2 DEF Counted
<1>5. CASE \E q \in Live : objects[q].parent = o
  <2>1. Children(o) # {}
    BY <1>5 DEF Children
  <2>2. Cardinality(Children(o)) # 0
    BY <1>2, <2>1, FS_EmptySet
  <2>. QED
    BY <1>1, <1>2, <2>2 DEF Counted
<1>. QED
  BY <1>3, <1>4, <1>5

(* One without a count is referenced by nothing.                           *)
LEMMA WithoutCount ==
  ASSUME IInv, NEW o \in Live, objects[o].refs = 0
  PROVE  /\ o \notin names
         /\ \A t \in Threads : ~(Holding(t) /\ frame[t].self = o)
         /\ \A q \in Live : objects[q].parent # o
<1>1. ~(objects[o].refs >= 1)
  OBVIOUS
<1>. QED
  BY <1>1, ReferencedHasCount

------------------------------------------------------------------------------
(* What a step of one thread leaves to the others                          *)

SameObject(o) ==
  /\ objects'[o].kind = objects[o].kind
  /\ objects'[o].parent = objects[o].parent
  /\ objects'[o].of = objects[o].of

LEMMA SameIsLive ==
  ASSUME NEW o \in Live, SameObject(o)
  PROVE  o \in Live'
  BY DEF Live, SameObject

LEMMA AskedIs ==
  ASSUME NEW f
  PROVE  /\ f.op \in {"entry", "attribute"} => Asked(f) = f.op
         /\ f.op \in {"next", "item"} =>
              Asked(f) = IF objects[f.self].kind = "entries" THEN "entry" ELSE "attribute"
         /\ f.op \notin {"entry", "attribute", "next", "item"} => Asked(f) = "none"
  BY DEF Asked

LEMMA FramedKept ==
  ASSUME NEW u \in Threads, Framed(u), pc'[u] = pc[u], frame'[u] = frame[u],
         Running(u) => SameObject(frame[u].self),
         InCall(u) /\ volume # "closed" => volume' # "closed",
         pc[u] = "callback" /\ handle => handle'
  PROVE  Framed(u)'
<1>1. CASE ~Running(u)
  BY <1>1 DEF Framed, Running
<1>2. CASE Running(u)
  <2>1. /\ frame[u].self \in Live'
        /\ objects'[frame[u].self].kind = objects[frame[u].self].kind
        /\ objects'[frame[u].self].parent = objects[frame[u].self].parent
    BY <1>2, SameIsLive DEF Framed, SameObject
  <2>2. (Running(u)' <=> Running(u)) /\ (InCall(u)' <=> InCall(u)) /\ (Freeing(u)' <=> Freeing(u))
    BY DEF Running, InCall, Freeing
  <2>3. Asked(frame[u])' = Asked(frame[u])
    BY <2>1 DEF Asked
  <2>4. InCall(u) => CallFrame(u)'
    <3>1. InCall(u) => CallFrame(u)
      BY <1>2 DEF Framed
    <3>2. Callee(frame[u].op, objects[frame[u].self].kind)' <=> Callee(frame[u].op, objects[frame[u].self].kind)
      BY <2>1 DEF Callee
    <3>. QED
      BY <2>1, <2>3, <3>1, <3>2 DEF CallFrame
  <2>5. Freeing(u) => FreeFrame(u)'
    BY <1>2, <2>1 DEF Framed, FreeFrame
  <2>. QED
    BY <1>2, <2>1, <2>2, <2>4, <2>5 DEF Framed
<1>. QED
  BY <1>1, <1>2

(* A thread in a call holds what it calls.                                 *)
LEMMA RunningIs ==
  ASSUME IInv, NEW t \in Threads
  PROVE  /\ Running(t) <=> Holding(t) \/ Freeing(t)
         /\ ~(Holding(t) /\ Freeing(t))
         /\ InCall(t) => Holding(t)
         /\ Running(t) => frame[t].self \in Live /\ frame[t].self \in Ids
         /\ Holding(t) => objects[frame[t].self].refs >= 1
         /\ Freeing(t) => objects[frame[t].self].refs = 0
  BY ReferencedHasCount DEF Running, Holding, Freeing, InCall, IInv, Framed, Live, Unreferenced

(* Whoever changes the volume is the only one in a call.                   *)
LEMMA ChangingIsAlone ==
  ASSUME IInv, NEW t \in Threads, Changing(t)
  PROVE  /\ Live = {1} /\ frame[t].self = 1
         /\ \A u \in Threads \ {t} : ~InCall(u) /\ ~Changing(u) /\ ~Freeing(u)
<1>1. Live = {1} /\ \A u \in Threads \ {t} : ~InCall(u) /\ ~Changing(u)
  BY DEF IInv, Alone
<1>2. \A u \in Threads : Running(u) => frame[u].self = 1
  BY <1>1 DEF IInv, Framed
<1>. QED
  BY <1>1, <1>2 DEF Changing, Freeing, InCall, Running

(* The file entry of a sequence or an attribute has the volume.            *)
LEMMA ParentsAre ==
  ASSUME IInv, NEW o \in Live
  PROVE  /\ o = 1 <=> objects[o].kind = "volume"
         /\ o # 1 => objects[o].parent \in Live /\ 1 \in Live
         /\ objects[o].kind = "entry" => objects[o].parent = 1
         /\ o # 1 /\ objects[o].kind # "entry" =>
              /\ objects[objects[o].parent].kind = "entry"
              /\ objects[objects[o].parent].parent = 1
         /\ objects[o].kind \in Kinds
<1>1. objects[o].kind \in Kinds /\ o \in Ids
  BY DEF IInv, TypeOK, Object, Live
<1>. QED
  BY <1>1 DEF IInv, Family, Kinds, Sequential

(* Without a reference to the volume nothing else is there.                *)
LEMMA VolumeIsLast ==
  ASSUME IInv, \A q \in Live : objects[q].parent # 1
  PROVE  Live \subseteq {1}
  BY ParentsAre

------------------------------------------------------------------------------
(* The parts of the invariant under steps that leave the objects alone     *)

(* The thread goes on in what it was in.                                   *)
GoesOn(t) ==
  /\ OthersStay(t)
  /\ Running(t)' = Running(t)
  /\ frame'[t].op = frame[t].op /\ frame'[t].self = frame[t].self

LEMMA GoesOnIs ==
  ASSUME NEW t \in Threads, GoesOn(t), NEW u \in Threads
  PROVE  /\ (Running(u)' <=> Running(u)) /\ (InCall(u)' <=> InCall(u))
         /\ (Freeing(u)' <=> Freeing(u)) /\ (Holding(u)' <=> Holding(u))
         /\ (Changing(u)' <=> Changing(u))
         /\ frame'[u].self = frame[u].self /\ frame'[u].op = frame[u].op
<1>1. Running(u)' <=> Running(u)
  BY DEF GoesOn, OthersStay, Running
<1>2. frame'[u].self = frame[u].self /\ frame'[u].op = frame[u].op
  BY DEF GoesOn, OthersStay
<1>. QED
  BY <1>1, <1>2 DEF Running, InCall, Freeing, Holding, Changing

(* Nothing is counted anew.                                                *)
LEMMA CountsStay ==
  ASSUME IInv, NEW t \in Threads, GoesOn(t), UNCHANGED <<objects, names>>
  PROVE  /\ \A o \in Live' : Counted(o)'
         /\ Live' = Live
<1>1. Live' = Live
  BY DEF Live
<1>2. ASSUME NEW o \in Live PROVE Counted(o)'
  <2>1. Holders(o)' = Holders(o)
    BY GoesOnIs DEF Holders
  <2>2. Children(o)' = Children(o) /\ Named(o)' = Named(o)
    BY <1>1 DEF Children, Named
  <2>3. Counted(o)
    BY CountedIs DEF IInv
  <2>. QED
    BY <2>1, <2>2, <2>3 DEF Counted
<1>. QED
  BY <1>1, <1>2

LEMMA ObjectsStay ==
  ASSUME IInv, NEW t \in Threads, GoesOn(t), UNCHANGED <<objects, names>>
  PROVE  /\ Unreferenced' /\ Alone'
         /\ (\A o \in Live \ {1} : volume' # "closed") => Family'
<1>1. Live' = Live
  BY DEF Live
<1>2. Unreferenced'
  BY <1>1, GoesOnIs DEF IInv, Unreferenced
<1>3. Alone'
  BY <1>1, GoesOnIs DEF IInv, Alone
<1>4. ASSUME \A o \in Live \ {1} : volume' # "closed" PROVE Family'
  BY <1>1, <1>4 DEF IInv, Family
<1>. QED
  BY <1>2, <1>3, <1>4

LEMMA OthersFramed ==
  ASSUME IInv, NEW t \in Threads, OthersStay(t), NEW u \in Threads \ {t},
         \A o \in Live : SameObject(o),
         \/ UNCHANGED <<volume, handle>>
         \/ Changing(t)
  PROVE  Framed(u)'
<1>1. Framed(u) /\ (Running(u) => SameObject(frame[u].self))
  BY RunningIs DEF IInv
<1>2. InCall(u) => ~Changing(t)
  BY ChangingIsAlone
<1>3. pc[u] = "callback" => InCall(u) \/ Freeing(u)
  BY <1>1 DEF Framed, Running, InCall, Freeing
<1>4. pc[u] = "callback" => ~Changing(t)
  BY <1>2, <1>3, ChangingIsAlone
<1>. QED
  BY <1>1, <1>2, <1>4, FramedKept DEF OthersStay

LEMMA VolumeStays ==
  ASSUME IInv, NEW t \in Threads, GoesOn(t), UNCHANGED <<objects, volume, handle>>,
         Changing(t) => AtChange(t)'
  PROVE  VolumeFits'
<1>1. Live' = Live
  BY DEF Live
<1>2. ASSUME NEW u \in Threads \ {t}, Changing(u) PROVE AtChange(u)'
  <2>1. AtChange(u) /\ pc'[u] = pc[u] /\ frame'[u] = frame[u]
    BY <1>2 DEF IInv, VolumeFits, GoesOn, OthersStay
  <2>. QED
    BY <2>1 DEF AtChange, Opening, Settled
<1>3. (\A u \in Threads : ~Changing(u)') => Settled'
  BY GoesOnIs DEF IInv, VolumeFits, Settled
<1>. QED
  BY <1>1, <1>2, <1>3, GoesOnIs DEF IInv, VolumeFits

(* The change of the one who changes the volume.                           *)
LEMMA VolumeChanges ==
  ASSUME IInv, NEW t \in Threads, GoesOn(t), UNCHANGED objects,
         Changing(t), AtChange(t)'
  PROVE  VolumeFits'
<1>1. 1 \in Live'
  BY ChangingIsAlone DEF Live
<1>2. \A u \in Threads : Changing(u)' <=> u = t
  BY ChangingIsAlone, GoesOnIs
<1>. QED
  BY <1>1, <1>2 DEF VolumeFits

LEMMA LibraryStays ==
  ASSUME IInv, NEW t \in Threads, OthersStay(t), UNCHANGED <<objects, library>>,
         pc[t] # "freed", pc'[t] # "freed"
  PROVE  InLibrary'
<1>1. Live' = Live
  BY DEF Live
<1>2. \A o \in Ids : HasLibraryObject(o)' <=> HasLibraryObject(o)
  BY <1>1 DEF HasLibraryObject, OthersStay
<1>. QED
  BY <1>2 DEF IInv, InLibrary

LEMMA GivenMoves ==
  ASSUME IInv, NEW t \in Threads, OthersStay(t), loose' \in Int,
         \A u \in Threads \ {t} : pc[u] = "back" => SameObject(frame[u].self),
         Gave(t)' <=> Gave(t) => loose' = loose,
         Gave(t)' /\ ~Gave(t) => loose' = loose + 1,
         Gave(t) /\ ~Gave(t)' => loose' = loose - 1
  PROVE  LooseAreGiven' /\ loose' \in Nat
<1> DEFINE S == {u \in Threads : Gave(u)}
           T == {u \in Threads : Gave(u)'}
<1>1. S \in SUBSET Threads /\ T \in SUBSET Threads /\ IsFiniteSet(Threads)
  BY Parameters
<1>2. ASSUME NEW u \in Threads \ {t} PROVE u \in S <=> u \in T
  <2>1. pc'[u] = pc[u] /\ frame'[u] = frame[u]
    BY DEF OthersStay
  <2>2. pc[u] = "back" => objects'[frame[u].self].kind = objects[frame[u].self].kind
    BY DEF SameObject
  <2>3. pc[u] = "back" => Asked(frame[u])' = Asked(frame[u])
    BY <2>1, <2>2 DEF Asked
  <2>. QED
    BY <2>1, <2>3 DEF Gave
<1>3. loose = Cardinality(S) /\ (t \in S <=> Gave(t)) /\ (t \in T <=> Gave(t)')
  BY DEF IInv, LooseAreGiven
<1>4. loose' = Cardinality(T) /\ loose' \in Nat
  <2>. HIDE DEF S, T
  <2>1. /\ Cardinality(S) \in Nat /\ Cardinality(T) \in Nat
        /\ t \in S <=> t \in T => Cardinality(T) = Cardinality(S)
        /\ t \in T /\ t \notin S => Cardinality(T) = Cardinality(S) + 1
        /\ t \in S /\ t \notin T => Cardinality(S) = Cardinality(T) + 1
    BY <1>1, <1>2, OneDiffers
  <2>. QED
    BY <1>3, <2>1
<1>. QED
  BY <1>4 DEF LooseAreGiven

LEMMA LooseMoves ==
  ASSUME IInv, NEW t \in Threads, OthersStay(t), \A o \in Live : SameObject(o), loose' \in Int,
         Gave(t)' <=> Gave(t) => loose' = loose,
         Gave(t)' /\ ~Gave(t) => loose' = loose + 1,
         Gave(t) /\ ~Gave(t)' => loose' = loose - 1
  PROVE  LooseAreGiven' /\ loose' \in Nat
<1>1. \A u \in Threads \ {t} : pc[u] = "back" => SameObject(frame[u].self)
  BY RunningIs DEF Running
<1>. QED
  BY <1>1, GivenMoves

------------------------------------------------------------------------------
(* Steps of a call that change nothing but where it is                     *)

LEMMA Moves ==
  ASSUME IInv, NEW t \in Threads, GoesOn(t), TypeOK',
         UNCHANGED <<objects, names, library, loose, volume, handle>>,
         pc[t] = "freed" <=> pc'[t] = "freed",
         pc[t] = "freed" => frame'[t] = frame[t],
         Gave(t)' <=> Gave(t),
         Framed(t)', Changing(t) => AtChange(t)',
         FileCounted', NothingStaleIsUsed'
  PROVE  IInv'
<1>1. OthersStay(t) /\ \A o \in Live : SameObject(o)
  BY DEF GoesOn, SameObject
<1>2. Unreferenced' /\ Alone' /\ Family'
  <2>1. \A o \in Live \ {1} : volume' # "closed"
    BY DEF IInv, Family
  <2>. QED
    BY <2>1, ObjectsStay
<1>3. \A u \in Threads : Framed(u)'
  BY <1>1, OthersFramed
<1>4. VolumeFits'
  BY VolumeStays
<1>5. InLibrary'
  <2>1. Live' = Live
    BY DEF Live
  <2>2. \A o \in Ids : HasLibraryObject(o)' <=> HasLibraryObject(o)
    BY <1>1, <2>1 DEF HasLibraryObject, OthersStay
  <2>. QED
    BY <2>2 DEF IInv, InLibrary
<1>6. LooseAreGiven'
  BY <1>1, LooseMoves DEF IInv, TypeOK
<1>7. ReferencesAreCounted'
  BY CountsStay, CountedNext
<1>. QED
  BY <1>2, <1>3, <1>4, <1>5, <1>6, <1>7 DEF IInv

LEMMA FileStays ==
  ASSUME IInv, UNCHANGED <<handle, file>>
  PROVE  FileCounted'
  BY CountedIs DEF IInv, FileCounted

LEMMA TypeMoves ==
  ASSUME IInv, NEW t \in Threads, NEW step \in Steps, Goto(t, step),
         UNCHANGED <<objects, names, library, loose, volume, handle, file, calls>>,
         frame' = frame \/ \E x \in Ids : frame' = [frame EXCEPT ![t].target = x],
         lock' \in [Ids -> Threads \cup {NoThread}],
         gil' \in Threads \cup {NoThread}
  PROVE  TypeOK'
<1>1. pc' \in [Threads -> Steps]
  BY DEF IInv, TypeOK, Goto, Steps
<1>2. frame' \in [Threads -> Frame]
  BY DEF IInv, TypeOK, Frame
<1>. QED
  BY <1>1, <1>2 DEF IInv, TypeOK, Steps

LEMMA GotoIs ==
  ASSUME IInv, NEW t \in Threads, NEW step, Goto(t, step)
  PROVE  /\ pc'[t] = step
         /\ \A u \in Threads \ {t} : pc'[u] = pc[u]
  BY DEF IInv, TypeOK, Goto

LEMMA TakeGilKeeps ==
  ASSUME IInv, NEW t \in Threads, TakeGil(t)
  PROVE  IInv'
<1>1. UNCHANGED <<objects, names, library, loose, volume, handle, file, pc, frame, stale>>
  BY DEF TakeGil, clibrary
<1>2. GoesOn(t)
  BY <1>1 DEF GoesOn, OthersStay, Running
<1>3. TypeOK'
  BY DEF IInv, TypeOK, TakeGil, clibrary
<1>4. Framed(t)'
  BY <1>1, FramedKept DEF IInv, SameObject
<1>5. Changing(t) => AtChange(t)'
  BY <1>1 DEF IInv, VolumeFits, AtChange, Opening, Settled
<1>6. (Gave(t)' <=> Gave(t)) /\ NothingStaleIsUsed'
  BY <1>1 DEF Gave, Asked, IInv, NothingStaleIsUsed
<1>. QED
  BY <1>1, <1>2, <1>3, <1>4, <1>5, <1>6, FileStays, Moves

(* A thread outside of calls.                                              *)
LEMMA LeaveKeeps ==
  ASSUME IInv, NEW t \in Threads, LeaveGil(t) \/ Exit(t)
  PROVE  IInv'
<1>1. /\ UNCHANGED <<objects, names, library, loose, volume, handle, file, frame, lock, calls, stale>>
      /\ pc[t] = "python" /\ gil' = NoThread
      /\ pc' = pc \/ Goto(t, "ended")
  BY DEF LeaveGil, Exit, clibrary, Has
<1>2. /\ pc'[t] \in {"python", "ended"} /\ pc' \in [Threads -> Steps]
      /\ \A u \in Threads \ {t} : pc'[u] = pc[u]
  BY <1>1 DEF Goto, IInv, TypeOK, Steps
<1>3. GoesOn(t)
  BY <1>1, <1>2 DEF GoesOn, OthersStay, Running
<1>4. TypeOK'
  BY <1>1, <1>2 DEF IInv, TypeOK, Steps
<1>5. Framed(t)' /\ ~Changing(t)
  BY <1>1, <1>2 DEF Framed, Running, Changing, InCall, Freeing
<1>6. (Gave(t)' <=> Gave(t)) /\ NothingStaleIsUsed'
  BY <1>1, <1>2 DEF Gave, IInv, NothingStaleIsUsed
<1>. QED
  BY <1>1, <1>2, <1>3, <1>4, <1>5, <1>6, FileStays, Moves

LEMMA DropFileKeeps ==
  ASSUME IInv, NEW t \in Threads, DropFile(t)
  PROVE  IInv'
<1>1. /\ UNCHANGED <<gil, objects, names, library, loose, volume, handle, lock, pc, frame, calls, stale>>
      /\ file.named /\ file' = [named |-> FALSE, refs |-> file.refs - 1]
      /\ pc[t] = "python"
  BY DEF DropFile, clibrary, Has
<1>2. GoesOn(t)
  BY <1>1 DEF GoesOn, OthersStay, Running
<1>3. FileCounted' /\ file' \in [named : BOOLEAN, refs : Nat]
  BY <1>1, CountedIs DEF IInv, FileCounted, TypeOK
<1>4. TypeOK'
  BY <1>1, <1>3 DEF IInv, TypeOK
<1>5. Framed(t)' /\ ~Changing(t)
  BY <1>1 DEF Framed, Running, Changing, InCall, Freeing
<1>6. (Gave(t)' <=> Gave(t)) /\ NothingStaleIsUsed'
  BY <1>1 DEF Gave, IInv, NothingStaleIsUsed
<1>. QED
  BY <1>1, <1>2, <1>3, <1>4, <1>5, <1>6, Moves

------------------------------------------------------------------------------
(* In the library                                                          *)

(* What a call works on is there, and so is what that points into.         *)
LEMMA TargetIsUsable ==
  ASSUME IInv, NEW t \in Threads, pc[t] = "library"
  PROVE  /\ Usable(frame[t].target)
         /\ frame[t].target \in Ids
<1> DEFINE f == frame[t]
<1>1. Running(t) /\ f.self \in Live /\ f.self \in Ids
  BY RunningIs DEF Running
<1>2. \A o \in Live : o \in library <=> objects[o].kind \notin Sequential /\ \A u \in Threads : ~(pc[u] = "freed" /\ frame[u].self = o)
  BY DEF IInv, InLibrary, HasLibraryObject, Live
<1>3. ASSUME NEW u \in Threads, pc[u] = "freed" PROVE Freeing(u)
  <2>1. Running(u) /\ Framed(u)
    BY <1>3 DEF Running, IInv
  <2>. QED
    BY <1>3, <2>1 DEF Framed, CallFrame, InCall, Inner, Running, Freeing
<1>4. ASSUME NEW o \in Live, objects[o].kind \notin Sequential, objects[o].refs >= 1 PROVE o \in library
  <2>1. objects[o].refs # 0
    BY <1>4
  <2>2. \A u \in Threads : ~(pc[u] = "freed" /\ frame[u].self = o)
    BY <1>3, <2>1 DEF IInv, Unreferenced
  <2>. QED
    BY <1>2, <1>4, <2>2
<1>5. CASE Freeing(t)
  <2>1. f.self = 1 /\ f.target = 1
    BY <1>1, <1>5 DEF IInv, Framed, FreeFrame, Inner
  <2>2. objects[1].kind = "volume" /\ objects[1].kind \notin Sequential
    BY <1>1, <2>1, ParentsAre DEF Sequential
  <2>3. ASSUME NEW u \in Threads, pc[u] = "freed", frame[u].self = 1 PROVE FALSE
    <3>1. u = t
      BY <1>3, <1>5, <2>1, <2>3 DEF IInv, Unreferenced
    <3>. QED
      BY <2>3, <3>1
  <2>. QED
    BY <1>1, <1>2, <2>1, <2>2, <2>3 DEF Usable
<1>6. CASE Holding(t)
  <2>1. InCall(t) /\ Framed(t)
    BY <1>6 DEF IInv, Framed, InCall, Holding, Running
  <2>2. CallFrame(t)
    BY <1>1, <2>1 DEF Framed
  <2>3. f.target \in Live /\ objects[f.target].refs >= 1 /\ objects[f.target].kind \notin Sequential
    <3>1. CASE f.op \in {"next", "item"}
      <4>1. objects[f.self].kind \in Sequential /\ f.target = objects[f.self].parent
        BY <2>2, <3>1 DEF CallFrame, Callee
      <4>2. f.self # 1 /\ objects[f.self].kind # "entry"
        BY <1>1, <4>1, ParentsAre DEF Sequential
      <4>3. f.target \in Live /\ objects[f.target].kind = "entry"
        BY <1>1, <4>1, <4>2, ParentsAre
      <4>. QED
        BY <1>1, <4>1, <4>3, ReferencedHasCount DEF Sequential
    <3>2. CASE f.op \notin {"next", "item"}
      <4>1. f.target = f.self /\ objects[f.self].refs >= 1
        BY <1>6, <2>2, <3>2, RunningIs DEF CallFrame
      <4>2. f.op \in {"open", "openfile", "close", "value", "entry", "attribute"} \cup Sequential
        BY <2>1, <3>2, <1>1 DEF IInv, TypeOK, Frame, Operation, Sequential, InCall, Framed
      <4>3. objects[f.self].kind \notin Sequential
        BY <2>2, <4>2 DEF CallFrame, Callee, Changes, Sequential
      <4>. QED
        BY <1>1, <4>1, <4>3
    <3>. QED
      BY <3>1, <3>2
  <2>4. f.target \in library
    BY <1>4, <2>3
  <2>5. ASSUME f.target # 1
        PROVE  1 \in library /\ volume # "closed"
    <3>1. 1 \in Live /\ volume # "closed"
      BY <2>3, <2>5 DEF IInv, Family
    <3>2. \E q \in Live : objects[q].parent = 1
      BY <2>3, <2>5, ParentsAre
    <3>3. objects[1].refs >= 1
      BY <3>1, <3>2, ReferencedHasCount
    <3>4. objects[1].kind \notin Sequential
      BY <3>1, ParentsAre DEF Sequential
    <3>. QED
      BY <1>4, <3>1, <3>3, <3>4
  <2>6. ASSUME objects[f.target].kind = "attribute"
        PROVE  objects[f.target].of \in library
    <3>1. f.target # 1
      BY <2>3, <2>6, ParentsAre
    <3>2. /\ objects[f.target].of = objects[f.target].parent
          /\ objects[f.target].parent \in Live
          /\ objects[objects[f.target].parent].kind = "entry"
      BY <2>3, <2>6, <3>1, ParentsAre DEF IInv, Family
    <3>3. objects[objects[f.target].parent].refs >= 1
      BY <2>3, <3>2, ReferencedHasCount
    <3>. QED
      BY <1>4, <3>2, <3>3 DEF Sequential
  <2>7. objects[f.target].kind \in {"entry", "attribute"} => f.target # 1
    BY <2>3, ParentsAre
  <2>. QED
    BY <2>3, <2>4, <2>5, <2>6, <2>7 DEF Usable, Live
<1>. QED
  BY <1>1, <1>5, <1>6, RunningIs

(* A step to a place where the frame still fits.                           *)
LEMMA FrameMoves ==
  ASSUME IInv, NEW t \in Threads, Running(t), frame[t].op # "drop",
         UNCHANGED objects, frame'[t] = frame[t], Running(t)',
         pc'[t] # "back", pc'[t] = "callback" => handle',
         InCall(t) =>
           /\ pc'[t] \in Inner \cup {"decref"}
           /\ pc'[t] \in {"hfree", "closed"} => frame[t].op = "close",
         Freeing(t) =>
           /\ pc'[t] \in Inner \cup {"cfree"} /\ objects[frame[t].self].kind \notin Sequential
           /\ pc'[t] \in Inner => frame[t].self = 1 /\ frame[t].target = 1
  PROVE  Framed(t)'
<1>1. Framed(t) /\ frame[t].self \in Live' /\ (InCall(t)' <=> InCall(t)) /\ (Freeing(t)' <=> Freeing(t))
  BY RunningIs DEF IInv, InCall, Freeing, Running, Live
<1>2. InCall(t) => CallFrame(t)'
  BY <1>1 DEF Framed, CallFrame, Callee
<1>3. Freeing(t) => FreeFrame(t)'
  BY <1>1 DEF FreeFrame
<1>. QED
  BY <1>1, <1>2, <1>3 DEF Framed

LEMMA InCallOrFreeing ==
  ASSUME IInv, NEW t \in Threads, Running(t), pc[t] # "decref"
  PROVE  /\ frame[t].op # "drop"
         /\ InCall(t) <=> ~Freeing(t)
         /\ InCall(t) => CallFrame(t)
         /\ Freeing(t) => FreeFrame(t)
         /\ Freeing(t) /\ pc[t] \in Inner =>
              frame[t].self = 1 /\ frame[t].target = 1 /\ Changing(t) /\ objects[1].kind \notin Sequential
<1>1. Framed(t) /\ frame[t].op # "drop"
  BY DEF IInv, Framed
<1>2. Freeing(t) /\ pc[t] \in Inner => frame[t].self = 1 /\ frame[t].target = 1
  BY <1>1 DEF Framed, FreeFrame
<1>3. frame[t].self = 1 => objects[1].kind \notin Sequential
  BY RunningIs, ParentsAre DEF Sequential
<1>. QED
  BY <1>1, <1>2, <1>3 DEF Framed, InCall, Freeing, Running, Changing

(* A volume that is read through a file object has its handle.             *)
LEMMA HandleIsSet ==
  ASSUME IInv, NEW t \in Threads, pc[t] = "library", volume = "file" \/ frame[t].op = "openfile"
  PROVE  handle
<1>1. Running(t)
  BY DEF Running
<1>2. CASE Changing(t)
  <2>1. AtChange(t) /\ frame[t].op \in Changes \cup {"dealloc"}
    BY <1>2 DEF IInv, VolumeFits, Changing, Freeing
  <2>. QED
    BY <2>1 DEF AtChange, Opening, Settled, Changes
<1>3. CASE ~Changing(t)
  <2>1. InCall(t) /\ frame[t].op \notin Changes
    BY <1>1, <1>3, InCallOrFreeing DEF Inner, Changing
  <2>2. \A u \in Threads : ~Changing(u)
    BY <1>3, <2>1, ChangingIsAlone
  <2>. QED
    BY <2>1, <2>2 DEF IInv, VolumeFits, Settled, Changes
<1>. QED
  BY <1>2, <1>3

LEMMA EnterKeeps ==
  ASSUME IInv, NEW t \in Threads, Enter(t)
  PROVE  IInv'
<1>1. /\ UNCHANGED <<gil, objects, names, library, loose, volume, handle, file, frame, calls>>
      /\ pc[t] = "library"
      /\ lock' = [lock EXCEPT ![frame[t].target] = t]
      /\ stale' = IF Usable(frame[t].target) THEN stale ELSE stale \cup {frame[t].op}
      /\ \/ Goto(t, "inside")
         \/ Goto(t, "callback") /\ (volume = "file" \/ frame[t].op = "openfile")
  BY DEF Enter, Has
<1>2. NothingStaleIsUsed' /\ frame[t].target \in Ids
  BY <1>1, TargetIsUsable DEF IInv, NothingStaleIsUsed
<1>3. PICK step \in {"inside", "callback"} : Goto(t, step) /\ (step = "callback" => handle)
  BY <1>1, HandleIsSet
<1>4. pc'[t] = step /\ Running(t) /\ GoesOn(t)
  BY <1>1, <1>3, GotoIs DEF Running, GoesOn, OthersStay
<1>5. TypeOK'
  <2>1. lock' \in [Ids -> Threads \cup {NoThread}]
    BY <1>1 DEF IInv, TypeOK
  <2>2. gil' \in Threads \cup {NoThread} /\ step \in Steps
    BY <1>1 DEF IInv, TypeOK, Steps, PythonSteps
  <2>. QED
    BY <1>1, <1>3, <2>1, <2>2, TypeMoves
<1>6. Framed(t)'
  <2>1. /\ frame[t].op # "drop" /\ (InCall(t) => CallFrame(t)) 
        /\ Freeing(t) => frame[t].self = 1 /\ frame[t].target = 1 /\ objects[1].kind \notin Sequential
    BY <1>1, <1>4, InCallOrFreeing DEF Inner
  <2>2. Running(t)'
    BY <1>4 DEF Running
  <2>. QED
    BY <1>1, <1>3, <1>4, <2>1, <2>2, FrameMoves DEF Inner
<1>7. Changing(t) => AtChange(t)'
  BY <1>1, <1>4 DEF IInv, VolumeFits, AtChange, Opening, Settled
<1>8. Gave(t)' <=> Gave(t)
  BY <1>1, <1>4 DEF Gave
<1>. QED
  BY <1>1, <1>2, <1>4, <1>5, <1>6, <1>7, <1>8, FileStays, Moves

LEMMA CallbackKeeps ==
  ASSUME IInv, NEW t \in Threads, Callback(t)
  PROVE  IInv'
<1>1. /\ UNCHANGED <<objects, names, library, loose, volume, handle, file, lock, frame, calls>>
      /\ pc[t] = "callback" /\ gil' = NoThread /\ Goto(t, "inside")
      /\ stale' = IF handle /\ file.refs > 0 THEN stale ELSE stale \cup {"callback"}
  BY DEF Callback, Has
<1>2. pc'[t] = "inside" /\ Running(t) /\ GoesOn(t)
  BY <1>1, GotoIs DEF Running, GoesOn, OthersStay
<1>3. handle
  BY <1>1, <1>2 DEF IInv, Framed
<1>4. file.refs > 0
  BY <1>3, CountedIs DEF IInv, FileCounted
<1>5. NothingStaleIsUsed'
  BY <1>1, <1>3, <1>4 DEF IInv, NothingStaleIsUsed
<1>6. TypeOK'
  BY <1>1, TypeMoves DEF IInv, TypeOK, Steps
<1>7. Framed(t)'
  <2>1. /\ frame[t].op # "drop" /\ (InCall(t) => CallFrame(t)) 
        /\ Freeing(t) => frame[t].self = 1 /\ frame[t].target = 1 /\ objects[1].kind \notin Sequential
    BY <1>1, <1>2, InCallOrFreeing DEF Inner
  <2>2. Running(t)'
    BY <1>2 DEF Running
  <2>. QED
    BY <1>1, <1>2, <2>1, <2>2, FrameMoves DEF Inner
<1>8. Changing(t) => AtChange(t)'
  BY <1>1, <1>2 DEF IInv, VolumeFits, AtChange, Opening, Settled
<1>9. Gave(t)' <=> Gave(t)
  BY <1>1, <1>2 DEF Gave
<1>. QED
  BY <1>1, <1>2, <1>5, <1>6, <1>7, <1>8, <1>9, FileStays, Moves

(* A call that raises or gives a value; nothing is to be given back.       *)
LEMMA ReturnKeeps ==
  ASSUME IInv, NEW t \in Threads, Raise(t) \/ GiveValue(t)
  PROVE  IInv'
<1>1. /\ UNCHANGED <<gil, objects, names, library, loose, volume, handle, file, lock, frame, calls, stale>>
      /\ pc[t] = "back"
      /\ \/ frame[t].result = "failed" /\ frame[t].op # "openfile"
         \/ frame[t].result = "ok" /\ frame[t].op \in {"value", "open", "openfile"}
  BY DEF Raise, GiveValue, Back, Has, clibrary
<1>2. Running(t) /\ frame[t].op # "drop" /\ ~Freeing(t) /\ InCall(t) /\ CallFrame(t)
  BY <1>1, InCallOrFreeing DEF Running, Freeing, FreeFrame
<1>3. Goto(t, "decref")
  BY <1>1, <1>2 DEF Raise, GiveValue, Freeing
<1>4. pc'[t] = "decref" /\ GoesOn(t) /\ Running(t)'
  BY <1>1, <1>2, <1>3, GotoIs DEF Running, GoesOn, OthersStay
<1>5. TypeOK'
  BY <1>1, <1>3, TypeMoves DEF IInv, TypeOK, Steps, PythonSteps
<1>6. Framed(t)'
  BY <1>1, <1>2, <1>4, FrameMoves
<1>7. Changing(t) => AtChange(t)'
  BY <1>1, <1>2, <1>4 DEF IInv, VolumeFits, AtChange, Opening, Settled, Freeing
<1>8. Gave(t)' <=> Gave(t)
  BY <1>1, <1>4, AskedIs DEF Gave
<1>9. NothingStaleIsUsed'
  BY <1>1 DEF IInv, NothingStaleIsUsed
<1>. QED
  BY <1>1, <1>4, <1>5, <1>6, <1>7, <1>8, <1>9, FileStays, Moves

(* A close that has succeeded goes on with the handle.                     *)
LEMMA CloseBackKeeps ==
  ASSUME IInv, NEW t \in Threads, CloseBack(t) \/ Closed(t)
  PROVE  IInv'
<1>1. /\ UNCHANGED <<objects, names, library, loose, volume, handle, file, lock, frame, calls, stale>>
      /\ \/ pc[t] = "back" /\ frame[t].result = "ok" /\ frame[t].op \in {"close", "dealloc"}
         \/ pc[t] = "closed"
      /\ gil' = NoThread \/ gil' = gil
  BY DEF CloseBack, Closed, Back, Has, clibrary
<1>2. Running(t) /\ frame[t].op # "drop" /\ (InCall(t) <=> ~Freeing(t))
  BY <1>1, InCallOrFreeing DEF Running
<1>3. /\ frame[t].op \in {"close", "dealloc"} /\ (Freeing(t) <=> frame[t].op = "dealloc")
      /\ Freeing(t) => frame[t].self = 1 /\ frame[t].target = 1 /\ objects[1].kind \notin Sequential
      /\ Changing(t) /\ AtChange(t)
  <2>1. frame[t].op \in {"close", "dealloc"}
    BY <1>1, <1>2, InCallOrFreeing DEF CallFrame, Freeing
  <2>2. Freeing(t) => frame[t].self = 1 /\ frame[t].target = 1 /\ Changing(t) /\ objects[1].kind \notin Sequential
    BY <1>1, <1>2, InCallOrFreeing DEF Inner
  <2>3. Freeing(t) <=> frame[t].op = "dealloc"
    BY <1>2 DEF Freeing
  <2>4. Changing(t)
    BY <1>2, <2>1, <2>2, <2>3 DEF Changing, Changes
  <2>. QED
    BY <2>1, <2>2, <2>3, <2>4 DEF IInv, VolumeFits
<1>4. PICK step \in {"hfree", "cfree", "decref"} :
        /\ Goto(t, step)
        /\ step = "hfree" <=> (pc[t] = "back" /\ handle)
        /\ step = "cfree" <=> (step # "hfree" /\ frame[t].op = "dealloc")
  <2>1. CASE CloseBack(t)
    <3>1. pc[t] = "back"
      BY <2>1 DEF CloseBack, Back, Has
    <3>2. Goto(t, IF handle THEN "hfree" ELSE IF frame[t].op = "dealloc" THEN "cfree" ELSE "decref")
      BY <2>1 DEF CloseBack
    <3>3. CASE handle
      BY <3>1, <3>2, <3>3
    <3>4. CASE ~handle
      BY <3>1, <3>2, <3>4
    <3>. QED
      BY <3>3, <3>4
  <2>2. CASE Closed(t)
    <3>1. pc[t] = "closed"
      BY <2>2 DEF Closed, Has
    <3>2. IF frame[t].op = "dealloc" THEN Goto(t, "cfree") ELSE Goto(t, "decref")
      BY <2>2 DEF Closed
    <3>. QED
      BY <3>1, <3>2
  <2>. QED
    BY <2>1, <2>2
<1>5. pc'[t] = step /\ GoesOn(t) /\ Running(t)'
  BY <1>1, <1>2, <1>4, GotoIs DEF Running, GoesOn, OthersStay
<1>6. TypeOK'
  <2>1. gil' \in Threads \cup {NoThread} /\ lock' \in [Ids -> Threads \cup {NoThread}] /\ step \in Steps
    BY <1>1 DEF IInv, TypeOK, Steps, PythonSteps
  <2>. QED
    BY <1>1, <1>4, <2>1, TypeMoves
<1>7. Framed(t)'
  BY <1>1, <1>2, <1>3, <1>4, <1>5, FrameMoves DEF Inner
<1>8. AtChange(t)'
  <2>1. AtChange(t) /\ frame'[t] = frame[t] /\ handle' = handle /\ volume' = volume
    BY <1>1, <1>3
  <2>2. volume = "closed" /\ (pc[t] = "closed" => ~handle)
    BY <1>1, <1>3, <2>1 DEF AtChange
  <2>3. step # "hfree" => ~handle
    BY <1>1, <1>4, <2>2
  <2>4. step = "hfree" => handle
    BY <1>4
  <2>5. frame'[t].op \in {"close", "dealloc"} /\ pc'[t] \in {"hfree", "cfree", "decref"}
    BY <1>3, <1>5, <2>1
  <2>6. Settled' <=> ~handle
    BY <2>1, <2>2 DEF Settled
  <2>. QED
    BY <1>5, <2>1, <2>2, <2>3, <2>4, <2>5, <2>6 DEF AtChange
<1>9. (Gave(t)' <=> Gave(t)) /\ NothingStaleIsUsed'
  <2>1. Asked(frame[t]) = "none"
    BY <1>3, AskedIs
  <2>. QED
    BY <1>1, <1>4, <1>5, <2>1 DEF Gave, IInv, NothingStaleIsUsed
<1>. QED
  BY <1>1, <1>4, <1>5, <1>6, <1>7, <1>8, <1>9, FileStays, Moves

(* Freeing an object of the library begins.                                *)
LEMMA FreeBegins ==
  ASSUME IInv, NEW t \in Threads, EntryFree(t) \/ VolumeFree(t)
  PROVE  IInv'
<1>1. /\ UNCHANGED <<objects, names, library, loose, volume, handle, file, lock, calls, stale>>
      /\ pc[t] = "dealloc" /\ gil' = NoThread
      /\ objects[frame[t].self].kind \in {"entry", "attribute", "volume"}
      /\ frame' = frame \/ frame' = [frame EXCEPT ![t].target = frame[t].self]
  BY DEF EntryFree, VolumeFree, Has, clibrary
<1>2. Running(t) /\ Freeing(t) /\ frame[t].self \in Live /\ frame[t].self \in Ids
  BY <1>1, RunningIs, InCallOrFreeing DEF Running, CallFrame, Inner
<1>3. PICK step \in {"library", "cfree"} :
        /\ Goto(t, step)
        /\ step = "library" => handle /\ frame[t].self = 1 /\ frame'[t].target = 1
        /\ frame[t].self = 1 /\ step = "cfree" => ~handle
  <2>1. CASE EntryFree(t)
    <3>1. Goto(t, "cfree") /\ frame[t].self # 1
      BY <1>2, <2>1, ParentsAre DEF EntryFree
    <3>. QED
      BY <3>1
  <2>2. CASE VolumeFree(t)
    <3>1. /\ frame[t].self = 1 /\ frame' = [frame EXCEPT ![t].target = frame[t].self]
          /\ IF handle THEN Goto(t, "library") ELSE Goto(t, "cfree")
      BY <1>2, <2>2, ParentsAre DEF VolumeFree
    <3>2. frame'[t].target = 1
      BY <3>1 DEF IInv, TypeOK, Frame
    <3>. QED
      BY <3>1, <3>2
  <2>. QED
    BY <2>1, <2>2
<1>4. /\ pc'[t] = step /\ frame'[t].op = "dealloc" /\ frame'[t].self = frame[t].self
      /\ \A u \in Threads \ {t} : pc'[u] = pc[u] /\ frame'[u] = frame[u]
  <2>1. /\ frame'[t].op = frame[t].op /\ frame'[t].self = frame[t].self
        /\ \A u \in Threads \ {t} : frame'[u] = frame[u]
    BY <1>1 DEF IInv, TypeOK, Frame
  <2>. QED
    BY <1>2, <1>3, <2>1, GotoIs DEF Freeing
<1>5. GoesOn(t) /\ Running(t)' /\ Freeing(t)' /\ ~InCall(t)'
  BY <1>2, <1>3, <1>4 DEF Running, GoesOn, OthersStay, Freeing, InCall
<1>6. TypeOK'
  <2>1. gil' \in Threads \cup {NoThread} /\ lock' \in [Ids -> Threads \cup {NoThread}] /\ step \in Steps
    BY <1>1 DEF IInv, TypeOK, Steps, PythonSteps
  <2>. QED
    BY <1>1, <1>2, <1>3, <2>1, TypeMoves
<1>7. Framed(t)'
  <2>1. frame[t].self \in Live'
    BY <1>1, <1>2 DEF Live
  <2>2. FreeFrame(t)'
    BY <1>1, <1>3, <1>4 DEF FreeFrame, Inner, Sequential
  <2>. QED
    BY <1>3, <1>4, <1>5, <2>1, <2>2 DEF Framed
<1>8. Changing(t) => AtChange(t)'
  <2>1. Changing(t) => frame[t].self = 1 /\ AtChange(t) /\ frame[t].op = "dealloc"
    BY <1>2, InCallOrFreeing, <1>1 DEF Changing, IInv, VolumeFits, Freeing
  <2>2. Changing(t) => Settled
    BY <1>1, <2>1 DEF AtChange
  <2>3. Changing(t) => Settled'
    BY <1>1, <2>2 DEF Settled
  <2>4. step = "cfree" /\ Changing(t) => ~handle'
    BY <1>1, <1>3, <2>1
  <2>5. step = "library" => handle'
    BY <1>1, <1>3
  <2>6. pc'[t] \in {"library", "cfree"} /\ pc'[t] = step
    BY <1>4
  <2>. QED
    BY <1>4, <2>3, <2>4, <2>5, <2>6 DEF AtChange
<1>9. (Gave(t)' <=> Gave(t)) /\ NothingStaleIsUsed'
  BY <1>1, <1>3, <1>4 DEF Gave, IInv, NothingStaleIsUsed
<1>. QED
  BY <1>1, <1>3, <1>4, <1>5, <1>6, <1>7, <1>8, <1>9, FileStays, Moves

------------------------------------------------------------------------------
(* Steps that change the volume, its handle or what the library has        *)

LEMMA Changed ==
  ASSUME IInv, NEW t \in Threads, GoesOn(t), TypeOK', UNCHANGED <<objects, names>>,
         UNCHANGED <<volume, handle>> \/ Changing(t),
         InLibrary', LooseAreGiven',
         Framed(t)', Changing(t) => AtChange(t)',
         FileCounted', NothingStaleIsUsed'
  PROVE  IInv'
<1>1. OthersStay(t) /\ \A o \in Live : SameObject(o)
  BY DEF GoesOn, SameObject
<1>2. Unreferenced' /\ Alone' /\ Family'
  <2>1. \A o \in Live \ {1} : volume' # "closed"
    BY ChangingIsAlone DEF IInv, Family
  <2>. QED
    BY <2>1, ObjectsStay
<1>3. \A u \in Threads : Framed(u)'
  BY <1>1, OthersFramed
<1>4. VolumeFits'
  BY VolumeStays, VolumeChanges
<1>5. ReferencesAreCounted'
  BY CountsStay, CountedNext
<1>. QED
  BY <1>2, <1>3, <1>4, <1>5 DEF IInv

(* The handle of the volume and with it the file object goes.              *)
LEMMA HandleGoes ==
  ASSUME IInv, NEW t \in Threads, handle, handle' = FALSE, file' = [file EXCEPT !.refs = @ - 1]
  PROVE  FileCounted' /\ file' \in [named : BOOLEAN, refs : Nat]
  BY CountedIs DEF IInv, FileCounted, TypeOK

LEMMA HandleFreeKeeps ==
  ASSUME IInv, NEW t \in Threads, HandleFree(t)
  PROVE  IInv'
<1>1. /\ UNCHANGED <<objects, names, library, loose, volume, lock, frame, calls, stale>>
      /\ pc[t] = "hfree" /\ gil' = NoThread /\ Goto(t, "closed")
      /\ handle' = FALSE /\ file' = [file EXCEPT !.refs = @ - 1]
  BY DEF HandleFree, Has, clibrary
<1>2. pc'[t] = "closed" /\ Running(t) /\ Running(t)' /\ GoesOn(t)
  BY <1>1, GotoIs DEF Running, GoesOn, OthersStay
<1>3. /\ frame[t].op \in {"close", "dealloc"} /\ Changing(t) /\ frame[t].op # "drop"
      /\ InCall(t) => frame[t].op = "close"
      /\ Freeing(t) => frame[t].self = 1 /\ frame[t].target = 1 /\ objects[1].kind \notin Sequential
  <2>1. /\ frame[t].op # "drop" /\ (InCall(t) <=> ~Freeing(t)) /\ (InCall(t) => CallFrame(t))
        /\ Freeing(t) => frame[t].self = 1 /\ frame[t].target = 1 /\ Changing(t) /\ objects[1].kind \notin Sequential
    BY <1>1, <1>2, InCallOrFreeing DEF Inner
  <2>2. InCall(t) => frame[t].op = "close"
    BY <1>1, <2>1 DEF CallFrame
  <2>3. Freeing(t) => frame[t].op = "dealloc"
    BY DEF Freeing
  <2>. QED
    BY <2>1, <2>2, <2>3 DEF Changing, Changes
<1>4. handle /\ volume = "closed"
  BY <1>1, <1>3 DEF IInv, VolumeFits, AtChange
<1>5. FileCounted' /\ file' \in [named : BOOLEAN, refs : Nat]
  BY <1>1, <1>4, HandleGoes
<1>6. TypeOK'
  <2>1. pc' \in [Threads -> PythonSteps \cup {"ended", "library", "inside", "cfree"}]
    BY <1>1 DEF IInv, TypeOK, Goto, PythonSteps
  <2>. QED
    BY <1>1, <1>5, <2>1 DEF IInv, TypeOK
<1>7. Framed(t)'
  BY <1>1, <1>2, <1>3, FrameMoves DEF Inner
<1>8. AtChange(t)'
  BY <1>1, <1>2, <1>3, <1>4 DEF AtChange
<1>9. InLibrary' /\ LooseAreGiven' /\ NothingStaleIsUsed'
  <2>1. OthersStay(t) /\ (\A o \in Live : SameObject(o)) /\ loose' \in Int
    BY <1>1, <1>2 DEF GoesOn, SameObject, IInv, TypeOK
  <2>2. ~Gave(t) /\ ~Gave(t)'
    BY <1>1, <1>2 DEF Gave
  <2>3. LooseAreGiven'
    BY <1>1, <2>1, <2>2, LooseMoves
  <2>4. InLibrary'
    BY <1>1, <1>2, <2>1, LibraryStays
  <2>. QED
    BY <1>1, <2>3, <2>4 DEF IInv, NothingStaleIsUsed
<1>. QED
  BY <1>1, <1>2, <1>3, <1>5, <1>6, <1>7, <1>8, <1>9, Changed

LEMMA OpenFileObjectFailsKeeps ==
  ASSUME IInv, NEW t \in Threads, OpenFileObjectFails(t)
  PROVE  IInv'
<1>1. /\ UNCHANGED <<gil, objects, names, library, loose, volume, lock, frame, calls, stale>>
      /\ pc[t] = "back" /\ frame[t].op = "openfile" /\ frame[t].result = "failed" /\ Goto(t, "decref")
  BY DEF OpenFileObjectFails, Back, Has, clibrary
<1>2. pc'[t] = "decref" /\ Running(t) /\ Running(t)' /\ GoesOn(t)
  BY <1>1, GotoIs DEF Running, GoesOn, OthersStay
<1>3. Changing(t) /\ InCall(t) /\ ~Freeing(t)
  BY <1>1, <1>2 DEF Changing, InCall, Running, Changes, Freeing
<1>4. handle /\ volume # "file"
  <2>1. AtChange(t) /\ Opening(t)
    BY <1>1, <1>3 DEF IInv, VolumeFits, Opening
  <2>. QED
    BY <1>1, <2>1 DEF AtChange
<1>5. handle' = FALSE /\ file' = [file EXCEPT !.refs = @ - 1]
  BY <1>4 DEF OpenFileObjectFails
<1>6. FileCounted' /\ file' \in [named : BOOLEAN, refs : Nat]
  BY <1>4, <1>5, HandleGoes
<1>7. TypeOK'
  <2>1. pc' \in [Threads -> PythonSteps \cup {"ended", "library", "inside", "cfree"}]
    BY <1>1 DEF IInv, TypeOK, Goto, PythonSteps
  <2>. QED
    BY <1>1, <1>5, <1>6, <2>1 DEF IInv, TypeOK
<1>8. Framed(t)'
  BY <1>1, <1>2, <1>3, FrameMoves DEF Inner
<1>9. AtChange(t)'
  BY <1>1, <1>2, <1>4, <1>5 DEF AtChange, Settled, Opening
<1>10. InLibrary' /\ LooseAreGiven' /\ NothingStaleIsUsed'
  <2>1. OthersStay(t) /\ (\A o \in Live : SameObject(o)) /\ loose' \in Int
    BY <1>1, <1>2 DEF GoesOn, SameObject, IInv, TypeOK
  <2>2. ~Gave(t) /\ ~Gave(t)'
    BY <1>1, <1>2 DEF Gave
  <2>3. LooseAreGiven'
    BY <1>1, <2>1, <2>2, LooseMoves
  <2>4. InLibrary'
    BY <1>1, <1>2, <2>1, LibraryStays
  <2>. QED
    BY <1>1, <2>3, <2>4 DEF IInv, NothingStaleIsUsed
<1>. QED
  BY <1>1, <1>2, <1>3, <1>6, <1>7, <1>8, <1>9, <1>10, Changed

(* The library leaves: what it did to the volume, what it gave.            *)
LEMMA LeaveLibraryIs ==
  ASSUME IInv, NEW t \in Threads, Leave(t)
  PROVE  \E ok \in BOOLEAN :
           LET f == frame[t]
           IN  /\ f.op \in {"open", "openfile"} /\ ok => volume = "closed"
               /\ f.op \in {"close", "dealloc"} => (ok <=> volume # "closed")
               /\ Asked(f) # "none" /\ ok => volume # "closed"
               /\ f.op = "open" /\ ok => volume' = "name"
               /\ f.op = "openfile" /\ ok => volume' = "file"
               /\ f.op \in {"close", "dealloc"} /\ ok => volume' = "closed"
               /\ ~ok \/ f.op \notin Changes \cup {"dealloc"} => volume' = volume
               /\ loose' = IF ok /\ Asked(f) # "none" THEN loose + 1 ELSE loose
               /\ frame' = [frame EXCEPT ![t].result = IF ok THEN "ok" ELSE "failed"]
<1> DEFINE f == frame[t]
           closes == f.op \in {"close", "dealloc"}
<1>1. PICK ok \in BOOLEAN :
           /\ f.op \in {"open", "openfile"} /\ ok => volume = "closed"
           /\ closes => (ok <=> volume # "closed")
           /\ Asked(f) # "none" /\ ok => volume # "closed"
           /\ volume' = IF ~ok THEN volume
                        ELSE IF f.op \in {"open", "openfile"} THEN (IF f.op = "open" THEN "name" ELSE "file")
                        ELSE IF closes THEN "closed" ELSE volume
           /\ loose' = IF ok /\ Asked(f) # "none" THEN loose + 1 ELSE loose
           /\ frame' = [frame EXCEPT ![t].result = IF ok THEN "ok" ELSE "failed"]
  BY Zenon DEF Leave
<1>2. ~ok \/ f.op \notin Changes \cup {"dealloc"} => volume' = volume
  BY <1>1 DEF Changes
<1>. QED
  BY <1>1, <1>2

LEMMA LeaveLibraryKeeps ==
  ASSUME IInv, NEW t \in Threads, Leave(t)
  PROVE  IInv'
<1> DEFINE f == frame[t]
<1>1. /\ UNCHANGED <<gil, objects, names, library, handle, file, calls, stale>>
      /\ pc[t] = "inside" /\ Goto(t, "back") /\ lock' = [lock EXCEPT ![f.target] = NoThread]
  BY DEF Leave, Has
<1>2. PICK ok \in BOOLEAN :
               /\ f.op \in {"open", "openfile"} /\ ok => volume = "closed"
               /\ f.op \in {"close", "dealloc"} => (ok <=> volume # "closed")
               /\ Asked(f) # "none" /\ ok => volume # "closed"
               /\ f.op = "open" /\ ok => volume' = "name"
               /\ f.op = "openfile" /\ ok => volume' = "file"
               /\ f.op \in {"close", "dealloc"} /\ ok => volume' = "closed"
               /\ ~ok \/ f.op \notin Changes \cup {"dealloc"} => volume' = volume
               /\ loose' = IF ok /\ Asked(f) # "none" THEN loose + 1 ELSE loose
               /\ frame' = [frame EXCEPT ![t].result = IF ok THEN "ok" ELSE "failed"]
  BY LeaveLibraryIs
<1>3. /\ frame'[t] = [f EXCEPT !.result = IF ok THEN "ok" ELSE "failed"]
      /\ \A u \in Threads \ {t} : frame'[u] = frame[u]
  BY <1>2 DEF IInv, TypeOK
<1>4. /\ frame'[t].op = f.op /\ frame'[t].self = f.self /\ frame'[t].target = f.target
      /\ frame'[t].result = IF ok THEN "ok" ELSE "failed"
      /\ frame'[t] \in Frame
  BY <1>3 DEF IInv, TypeOK, Frame
<1>5. pc'[t] = "back" /\ \A u \in Threads \ {t} : pc'[u] = pc[u]
  BY <1>1, GotoIs
<1>6. Running(t) /\ Running(t)' /\ GoesOn(t)
  BY <1>1, <1>3, <1>4, <1>5 DEF Running, GoesOn, OthersStay
<1>7. /\ f.op # "drop" /\ (InCall(t) <=> ~Freeing(t)) /\ (InCall(t) => CallFrame(t))
      /\ Freeing(t) => f.self = 1 /\ f.target = 1 /\ Changing(t) /\ f.op = "dealloc"
      /\ Changing(t) <=> f.op \in Changes \cup {"dealloc"}
  <2>1. /\ f.op # "drop" /\ (InCall(t) <=> ~Freeing(t)) /\ (InCall(t) => CallFrame(t))
        /\ Freeing(t) => f.self = 1 /\ f.target = 1 /\ Changing(t)
    BY <1>1, <1>6, InCallOrFreeing DEF Inner
  <2>2. Freeing(t) <=> f.op = "dealloc"
    BY <1>6 DEF Freeing
  <2>. QED
    BY <2>1, <2>2 DEF Changing, Changes
<1>8. Changing(t) => AtChange(t)
  BY DEF IInv, VolumeFits
<1>9. f.op = "dealloc" => ok
  BY <1>1, <1>2, <1>7, <1>8 DEF AtChange, Settled
<1>10. UNCHANGED <<volume, handle>> \/ Changing(t)
  BY <1>1, <1>2, <1>7
<1>11. Changing(t) => AtChange(t)'
  <2>1. CASE f.op = "open"
    <3>1. Settled
      BY <1>7, <1>8, <2>1 DEF AtChange, Changes
    <3>2. Settled'
      BY <1>1, <1>2, <2>1, <3>1 DEF Settled
    <3>. QED
      BY <1>4, <2>1, <3>2 DEF AtChange
  <2>2. CASE f.op = "openfile"
    <3>1. handle /\ volume # "file"
      BY <1>1, <1>7, <1>8, <2>2 DEF AtChange, Changes, Opening
    <3>2. CASE ok
      <4>1. Settled'
        BY <1>1, <1>2, <2>2, <3>1, <3>2 DEF Settled
      <4>2. ~Opening(t)'
        BY <1>4, <1>5, <3>2 DEF Opening
      <4>. QED
        BY <1>4, <2>2, <4>1, <4>2 DEF AtChange
    <3>3. CASE ~ok
      <4>1. handle' /\ volume' # "file" /\ Opening(t)'
        BY <1>1, <1>2, <1>4, <1>5, <3>1, <3>3 DEF Opening
      <4>. QED
        BY <1>4, <2>2, <4>1 DEF AtChange
    <3>. QED
      BY <3>2, <3>3
  <2>3. CASE f.op \in {"close", "dealloc"}
    <3>1. Settled
      BY <1>1, <1>7, <1>8, <2>3 DEF AtChange, Changes
    <3>2. ok => volume' = "closed"
      BY <1>2, <2>3
    <3>3. ~ok => Settled'
      BY <1>1, <1>2, <3>1 DEF Settled
    <3>. QED
      BY <1>4, <1>5, <2>3, <3>2, <3>3 DEF AtChange
  <2>. QED
    BY <1>7, <2>1, <2>2, <2>3 DEF Changes
<1>12. Asked(frame[t])' = Asked(f)
  BY <1>1, <1>4 DEF Asked
<1>13. Framed(t)'
  <2>1. (InCall(t)' <=> InCall(t)) /\ (Freeing(t)' <=> Freeing(t)) /\ f.self \in Live' /\ f.op # "none"
    BY <1>1, <1>6, RunningIs DEF GoesOn, InCall, Freeing, Running, Live, IInv, Framed
  <2>2. InCall(t) => CallFrame(t)'
    <3>1. Asked(f) # "none" => f.op \notin Changes \cup {"dealloc"}
      BY AskedIs DEF Changes
    <3>2. ok /\ Asked(f) # "none" => volume' # "closed"
      BY <1>2, <3>1
    <3>. QED
      BY <1>1, <1>4, <1>5, <1>7, <1>12, <3>2 DEF CallFrame, Callee, Inner
  <2>3. Freeing(t) => FreeFrame(t)'
    BY <1>4, <1>5, <1>7, <1>9 DEF FreeFrame, Inner
  <2>. QED
    BY <1>4, <1>5, <1>7, <2>1, <2>2, <2>3 DEF Framed
<1>14. OthersStay(t) /\ (\A o \in Live : SameObject(o)) /\ loose' \in Int
  BY <1>1, <1>2, <1>6 DEF GoesOn, SameObject, IInv, TypeOK
<1>15. LooseAreGiven' /\ loose' \in Nat
  <2>1. ~Gave(t)
    BY <1>1 DEF Gave
  <2>2. Gave(t)' <=> ok /\ Asked(f) # "none"
    BY <1>4, <1>5, <1>12 DEF Gave
  <2>. QED
    BY <1>2, <1>14, <2>1, <2>2, LooseMoves
<1>16. TypeOK'
  <2>1. pc' \in [Threads -> PythonSteps \cup {"ended", "library", "inside", "cfree"}]
    BY <1>1 DEF IInv, TypeOK, Goto, PythonSteps
  <2>2. frame' \in [Threads -> Frame]
    BY <1>2 DEF IInv, TypeOK, Frame
  <2>3. lock' \in [Ids -> Threads \cup {NoThread}]
    BY <1>1 DEF IInv, TypeOK
  <2>4. volume' \in {"closed", "name", "file"}
    <3>1. volume \in {"closed", "name", "file"}
      BY DEF IInv, TypeOK
    <3>. QED
      BY <1>2, <3>1 DEF Changes
  <2>. QED
    BY <1>1, <1>15, <2>1, <2>2, <2>3, <2>4 DEF IInv, TypeOK
<1>17. InLibrary' /\ FileCounted' /\ NothingStaleIsUsed'
  <2>1. InLibrary'
    BY <1>1, <1>5, <1>14, LibraryStays
  <2>. QED
    BY <1>1, <2>1, FileStays DEF IInv, NothingStaleIsUsed
<1>. QED
  BY <1>1, <1>6, <1>10, <1>11, <1>13, <1>15, <1>16, <1>17, Changed

(* What was freed in the library; the Python object is still there.        *)
LEMMA LibraryFreeKeeps ==
  ASSUME IInv, NEW t \in Threads, LibraryFree(t)
  PROVE  IInv'
<1> DEFINE f == frame[t]
<1>1. /\ UNCHANGED <<gil, objects, names, loose, handle, file, lock, frame, calls, stale>>
      /\ pc[t] = "cfree" /\ Goto(t, "freed") /\ library' = library \ {f.self}
      /\ volume' = IF objects[f.self].kind = "volume" THEN "closed" ELSE volume
  BY DEF LibraryFree, Has
<1>2. pc'[t] = "freed" /\ (\A u \in Threads \ {t} : pc'[u] = pc[u]) /\ Running(t) /\ Running(t)' /\ GoesOn(t)
  BY <1>1, GotoIs DEF Running, GoesOn, OthersStay
<1>3. f.op # "drop" /\ Freeing(t) /\ ~InCall(t) /\ FreeFrame(t)
  BY <1>1, <1>2, InCallOrFreeing DEF CallFrame, Inner
<1>4. f.op = "dealloc" /\ f.self \in Live /\ f.self \in Ids /\ objects[f.self].kind \notin Sequential
  BY <1>1, <1>2, <1>3, RunningIs DEF Freeing, FreeFrame
<1>5. objects[f.self].kind = "volume" <=> f.self = 1
  BY <1>4, ParentsAre
<1>6. Changing(t) <=> f.self = 1
  BY <1>3, <1>4 DEF Changing
<1>7. UNCHANGED <<volume, handle>> \/ Changing(t)
  BY <1>1, <1>5, <1>6
<1>8. Changing(t) => AtChange(t)'
  <2>1. Changing(t) => ~handle /\ volume' = "closed"
    BY <1>1, <1>4, <1>5, <1>6 DEF IInv, VolumeFits, AtChange
  <2>. QED
    BY <1>1, <1>2, <1>4, <2>1 DEF AtChange
<1>9. Framed(t)'
  <2>1. FreeFrame(t)' /\ ~InCall(t)' /\ f.self \in Live'
    BY <1>1, <1>2, <1>3, <1>4 DEF FreeFrame, Inner, InCall, Live
  <2>. QED
    BY <1>1, <1>2, <1>4, <2>1 DEF Framed
<1>10. InLibrary'
  <2>1. Live' = Live
    BY <1>1 DEF Live
  <2>2. \A o \in Ids \ {f.self} : HasLibraryObject(o)' <=> HasLibraryObject(o)
    BY <1>1, <1>2, <2>1 DEF HasLibraryObject
  <2>3. ~HasLibraryObject(f.self)'
    BY <1>1, <1>2 DEF HasLibraryObject
  <2>. QED
    BY <1>1, <2>2, <2>3 DEF IInv, InLibrary
<1>11. LooseAreGiven'
  <2>1. OthersStay(t) /\ (\A o \in Live : SameObject(o)) /\ loose' \in Int
    BY <1>1, <1>2 DEF GoesOn, SameObject, IInv, TypeOK
  <2>2. ~Gave(t) /\ ~Gave(t)'
    BY <1>1, <1>2 DEF Gave
  <2>. QED
    BY <1>1, <2>1, <2>2, LooseMoves
<1>12. TypeOK'
  <2>1. pc' \in [Threads -> PythonSteps \cup {"ended", "library", "inside", "cfree"}]
    BY <1>1 DEF IInv, TypeOK, Goto, PythonSteps
  <2>2. volume' \in {"closed", "name", "file"} /\ library' \subseteq Ids
    BY <1>1 DEF IInv, TypeOK
  <2>. QED
    BY <1>1, <2>1, <2>2 DEF IInv, TypeOK
<1>13. FileCounted' /\ NothingStaleIsUsed'
  BY <1>1, FileStays DEF IInv, NothingStaleIsUsed
<1>. QED
  BY <1>1, <1>2, <1>7, <1>8, <1>9, <1>10, <1>11, <1>12, <1>13, Changed

(* What the library gave is freed again.                                   *)
LEMMA MakeFailsKeeps ==
  ASSUME IInv, NEW t \in Threads, MakeFails(t)
  PROVE  IInv'
<1> DEFINE f == frame[t]
<1>1. /\ UNCHANGED <<gil, objects, names, library, volume, handle, file, lock, frame, calls, stale>>
      /\ pc[t] = "back" /\ f.op \in {"entry", "attribute", "next", "item"} \cup Sequential /\ f.result = "ok"
      /\ loose' = (IF Asked(f) = "none" THEN loose ELSE loose - 1)
      /\ Goto(t, "decref")
  BY DEF MakeFails, Back, Has
<1>2. pc'[t] = "decref" /\ Running(t) /\ Running(t)' /\ GoesOn(t)
  BY <1>1, GotoIs DEF Running, GoesOn, OthersStay
<1>3. InCall(t) /\ ~Freeing(t) /\ ~Changing(t) /\ f.op # "drop"
  BY <1>1, <1>2 DEF InCall, Freeing, Changing, Running, Changes, Sequential
<1>4. LooseAreGiven' /\ loose' \in Nat
  <2>1. OthersStay(t) /\ (\A o \in Live : SameObject(o)) /\ loose' \in Int
    BY <1>1, <1>2 DEF GoesOn, SameObject, IInv, TypeOK
  <2>2. ~Gave(t)' /\ (Gave(t) <=> Asked(f) # "none")
    BY <1>1, <1>2 DEF Gave
  <2>. QED
    BY <1>1, <2>1, <2>2, LooseMoves
<1>5. TypeOK'
  <2>1. pc' \in [Threads -> PythonSteps \cup {"ended", "library", "inside", "cfree"}]
    BY <1>1 DEF IInv, TypeOK, Goto, PythonSteps
  <2>. QED
    BY <1>1, <1>4, <2>1 DEF IInv, TypeOK
<1>6. Framed(t)'
  BY <1>1, <1>2, <1>3, FrameMoves
<1>7. InLibrary'
  BY <1>1, <1>2, LibraryStays DEF GoesOn
<1>8. FileCounted' /\ NothingStaleIsUsed'
  BY <1>1, FileStays DEF IInv, NothingStaleIsUsed
<1>. QED
  BY <1>1, <1>2, <1>3, <1>4, <1>5, <1>6, <1>7, <1>8, Changed

------------------------------------------------------------------------------
(* Steps that change what references an object                             *)

LEMMA OthersAre ==
  ASSUME NEW t \in Threads, OthersStay(t), NEW u \in Threads \ {t}
  PROVE  /\ pc'[u] = pc[u] /\ frame'[u] = frame[u]
         /\ (Running(u)' <=> Running(u)) /\ (InCall(u)' <=> InCall(u))
         /\ (Freeing(u)' <=> Freeing(u)) /\ (Holding(u)' <=> Holding(u))
         /\ (Changing(u)' <=> Changing(u))
  BY DEF OthersStay, Running, InCall, Freeing, Holding, Changing

(* A thread that ends no change of the volume, or ends one that is done.   *)
LEMMA VolumeKept ==
  ASSUME IInv, NEW t \in Threads, OthersStay(t), UNCHANGED <<volume, handle>>,
         ~Changing(t)', Changing(t) => Settled,
         1 \notin Live' => volume = "closed" /\ ~handle
  PROVE  VolumeFits'
<1>1. ASSUME NEW u \in Threads \ {t}, Changing(u) PROVE AtChange(u)'
  <2>1. AtChange(u) /\ pc'[u] = pc[u] /\ frame'[u] = frame[u]
    BY <1>1, OthersAre DEF IInv, VolumeFits
  <2>. QED
    BY <2>1 DEF AtChange, Opening, Settled
<1>2. ASSUME \A u \in Threads : ~Changing(u)' PROVE Settled'
  <2>1. \A u \in Threads \ {t} : ~Changing(u)
    BY <1>2, OthersAre
  <2>2. Settled
    BY <2>1 DEF IInv, VolumeFits
  <2>. QED
    BY <2>2 DEF Settled
<1>. QED
  BY <1>1, <1>2, OthersAre DEF VolumeFits

LEMMA AloneKept ==
  ASSUME IInv, NEW t \in Threads, OthersStay(t), ~Changing(t)',
         \A u \in Threads \ {t} : Changing(u) => Live' = {1} /\ ~InCall(t)'
  PROVE  Alone'
<1>1. ASSUME NEW u \in Threads, Changing(u)'
      PROVE  Live' = {1} /\ \A v \in Threads \ {u} : ~InCall(v)' /\ ~Changing(v)'
  <2>1. u # t /\ Changing(u)
    BY <1>1, OthersAre
  <2>2. Live' = {1} /\ ~InCall(t)' /\ \A v \in Threads \ {u} : ~InCall(v) /\ ~Changing(v)
    BY <2>1, ChangingIsAlone
  <2>. QED
    BY <2>2, OthersAre
<1>. QED
  BY <1>1 DEF Alone

(* No object loses its last reference, none that has none gets one.        *)
LEMMA UnreferencedKept ==
  ASSUME IInv, NEW t \in Threads, OthersStay(t), ~Freeing(t), ~Freeing(t)',
         \A o \in Live' : objects'[o].refs = 0 => o \in Live /\ objects[o].refs = 0,
         \A o \in Live : objects[o].refs = 0 => o \in Live' /\ objects'[o].refs = 0
  PROVE  Unreferenced'
<1>1. \A u \in Threads : (Freeing(u)' <=> Freeing(u)) /\ (Freeing(u) => frame'[u] = frame[u])
  BY OthersAre
<1>. QED
  BY <1>1 DEF IInv, Unreferenced

LEMMA LiveStay ==
  ASSUME \A o \in Ids : SameObject(o)
  PROVE  Live' = Live
  BY DEF Live, SameObject

LEMMA FamilyKept ==
  ASSUME IInv, \A o \in Ids : SameObject(o), names' \subseteq Live, UNCHANGED volume
  PROVE  Family'
<1>1. Live' = Live
  BY LiveStay
<1>2. \A o \in Live : /\ objects'[o].kind = objects[o].kind /\ objects'[o].parent = objects[o].parent
                      /\ objects'[o].of = objects[o].of
  BY DEF SameObject, Live
<1>. QED
  BY <1>1, <1>2 DEF IInv, Family

LEMMA LibraryKept ==
  ASSUME IInv, NEW t \in Threads, OthersStay(t), \A o \in Ids : SameObject(o), UNCHANGED library,
         pc[t] # "freed", pc'[t] # "freed"
  PROVE  InLibrary'
<1>1. Live' = Live
  BY LiveStay
<1>2. \A o \in Ids : HasLibraryObject(o)' <=> HasLibraryObject(o)
  BY <1>1 DEF HasLibraryObject, OthersStay, SameObject
<1>. QED
  BY <1>2 DEF IInv, InLibrary

(* What the thread holds and what has a name changes for one object.       *)
Holds(t, o) == IF Holding(t) /\ frame[t].self = o THEN 1 ELSE 0

LEMMA CountsMove ==
  ASSUME IInv, NEW t \in Threads, OthersStay(t), \A o \in Ids : SameObject(o), NEW x \in Ids,
         \A o \in Ids \ {x} : /\ objects'[o].refs = objects[o].refs
                              /\ o \in names' <=> o \in names
                              /\ Holds(t, o)' = Holds(t, o),
         objects'[x].refs = objects[x].refs + (Named(x)' - Named(x)) + (Holds(t, x)' - Holds(t, x))
  PROVE  \A o \in Live' : Counted(o)'
<1>1. Live' = Live
  BY LiveStay
<1>2. TAKE o \in Live'
<1>3. o \in Live /\ o \in Ids /\ Counted(o)
  BY <1>1, CountedIs DEF IInv, Live
<1>4. Children(o)' = Children(o)
  BY <1>1 DEF Children, SameObject, Live
<1>5. /\ IsFiniteSet(Holders(o)) /\ Cardinality(Holders(o)) \in Nat /\ Cardinality(Children(o)) \in Nat
      /\ Named(o) \in {0, 1}
  BY <1>3, CountsAreNumbers DEF IInv
<1>6. Cardinality(Holders(o)') = Cardinality(Holders(o)) + (Holds(t, o)' - Holds(t, o))
  <2>1. (t \in Holders(o) <=> Holds(t, o) = 1) /\ Holds(t, o) \in {0, 1}
    BY DEF Holders, Holds
  <2>2. (t \in Holders(o)' <=> Holds(t, o)' = 1) /\ Holds(t, o)' \in {0, 1}
    BY DEF Holders, Holds
  <2>3. /\ Cardinality(Holders(o)) \in Nat /\ Cardinality(Holders(o)') \in Nat
        /\ t \in Holders(o) <=> t \in Holders(o)' => Cardinality(Holders(o)') = Cardinality(Holders(o))
        /\ t \in Holders(o)' /\ t \notin Holders(o) => Cardinality(Holders(o)') = Cardinality(Holders(o)) + 1
        /\ t \in Holders(o) /\ t \notin Holders(o)' => Cardinality(Holders(o)) = Cardinality(Holders(o)') + 1
    BY <1>3, HoldersMove
  <2>. QED
    BY <2>1, <2>2, <2>3
<1>7. Named(o)' \in {0, 1} /\ objects[o].refs \in Nat
  BY <1>3 DEF Named, IInv, TypeOK, Object
<1>8. CASE o # x
  <2>1. Named(o)' = Named(o) /\ objects'[o].refs = objects[o].refs /\ Holds(t, o)' = Holds(t, o)
    BY <1>3, <1>8 DEF Named
  <2>2. Holds(t, o) \in {0, 1}
    BY DEF Holds
  <2>. QED
    BY <1>3, <1>4, <1>5, <1>6, <1>7, <2>1, <2>2 DEF Counted
<1>9. CASE o = x
  <2>1. Holds(t, o) \in {0, 1} /\ Holds(t, o)' \in {0, 1}
    BY DEF Holds
  <2>. QED
    BY <1>3, <1>4, <1>5, <1>6, <1>7, <1>9, <2>1 DEF Counted
<1>. QED
  BY <1>8, <1>9

(* The program forgets an object: its name becomes the thread's reference. *)
LEMMA DropKeeps ==
  ASSUME IInv, NEW t \in Threads, Drop(t)
  PROVE  IInv'
<1>1. /\ UNCHANGED <<gil, objects, library, loose, volume, handle, file, lock, calls, stale>>
      /\ pc[t] = "python" /\ Goto(t, "decref")
  BY DEF Drop, Has, clibrary
<1>2. PICK o \in names : /\ names' = names \ {o}
                         /\ frame' = [frame EXCEPT ![t] = [NoFrame EXCEPT !.op = "drop", !.self = o]]
  BY DEF Drop
<1>3. /\ frame'[t].op = "drop" /\ frame'[t].self = o
      /\ \A u \in Threads \ {t} : frame'[u] = frame[u]
      /\ frame' \in [Threads -> Frame] /\ o \in Live /\ o \in Ids
  BY <1>2 DEF IInv, TypeOK, Frame, NoFrame, Operation, Family, Live
<1>4. pc'[t] = "decref" /\ \A u \in Threads \ {t} : pc'[u] = pc[u]
  BY <1>1, GotoIs
<1>5. OthersStay(t) /\ (\A q \in Ids : SameObject(q)) /\ Live' = Live
  BY <1>1, <1>3, <1>4, LiveStay DEF OthersStay, SameObject
<1>6. /\ ~Running(t) /\ ~Holding(t) /\ ~InCall(t) /\ ~Freeing(t) /\ ~Changing(t)
      /\ Running(t)' /\ Holding(t)' /\ ~InCall(t)' /\ ~Freeing(t)' /\ ~Changing(t)'
  BY <1>1, <1>3, <1>4 DEF Running, Holding, InCall, Freeing, Changing
<1>7. Unreferenced' /\ Family' /\ InLibrary'
  <2>1. \A q \in Live' : objects'[q].refs = 0 => q \in Live /\ objects[q].refs = 0
    BY <1>1, <1>5
  <2>2. \A q \in Live : objects[q].refs = 0 => q \in Live' /\ objects'[q].refs = 0
    BY <1>1, <1>5
  <2>3. names' \subseteq Live
    BY <1>2 DEF IInv, Family
  <2>4. Unreferenced'
    BY <1>5, <1>6, <2>1, <2>2, UnreferencedKept
  <2>5. Family'
    BY <1>1, <1>5, <2>3, FamilyKept
  <2>6. InLibrary'
    BY <1>1, <1>4, <1>5, LibraryKept
  <2>. QED
    BY <2>4, <2>5, <2>6
<1>8. Alone' /\ VolumeFits'
  <2>1. Alone'
    BY <1>5, <1>6, ChangingIsAlone, AloneKept
  <2>2. 1 \notin Live' => volume = "closed" /\ ~handle
    BY <1>5 DEF IInv, VolumeFits
  <2>3. VolumeFits'
    BY <1>1, <1>5, <1>6, <2>2, VolumeKept
  <2>. QED
    BY <2>1, <2>3
<1>9. \A u \in Threads : Framed(u)'
  <2>1. Framed(t)'
    BY <1>3, <1>4, <1>5, <1>6 DEF Framed
  <2>2. \A u \in Threads \ {t} : Framed(u)'
    BY <1>1, <1>5, OthersFramed DEF Live
  <2>. QED
    BY <2>1, <2>2
<1>10. LooseAreGiven'
  <2>1. ~Gave(t) /\ ~Gave(t)' /\ loose' \in Int /\ \A q \in Live : SameObject(q)
    BY <1>1, <1>4, <1>5 DEF Gave, IInv, TypeOK, Live
  <2>. QED
    BY <1>1, <1>5, <2>1, LooseMoves
<1>11. ReferencesAreCounted'
  <2>1. \A q \in Ids \ {o} : /\ objects'[q].refs = objects[q].refs
                             /\ q \in names' <=> q \in names
                             /\ Holds(t, q)' = Holds(t, q)
    BY <1>1, <1>2, <1>3, <1>6 DEF Holds
  <2>2. Named(o) = 1 /\ Named(o)' = 0 /\ Holds(t, o) = 0 /\ Holds(t, o)' = 1
    BY <1>2, <1>3, <1>6 DEF Named, Holds
  <2>3. objects'[o].refs = objects[o].refs /\ objects[o].refs \in Nat
    BY <1>1, <1>3 DEF IInv, TypeOK, Object
  <2>4. objects'[o].refs = objects[o].refs + (Named(o)' - Named(o)) + (Holds(t, o)' - Holds(t, o))
    BY <2>2, <2>3
  <2>5. \A q \in Live' : Counted(q)'
    BY <1>3, <1>5, <2>1, <2>4, CountsMove
  <2>. QED
    BY <1>1, <2>5, FileStays, CountedNext
<1>12. TypeOK'
  <2>1. pc' \in [Threads -> PythonSteps \cup {"ended", "library", "inside", "cfree"}]
    BY <1>1 DEF IInv, TypeOK, Goto, PythonSteps
  <2>. QED
    BY <1>1, <1>2, <1>3, <2>1 DEF IInv, TypeOK
<1>13. NothingStaleIsUsed'
  BY <1>1 DEF IInv, NothingStaleIsUsed
<1>. QED
  BY <1>7, <1>8, <1>9, <1>10, <1>11, <1>12, <1>13 DEF IInv

(* Nobody but the one who has the last reference is left with the volume.  *)
LEMMA LastReference ==
  ASSUME IInv, NEW t \in Threads, Holding(t), frame[t].self = 1, objects[1].refs = 1
  PROVE  /\ Live = {1}
         /\ \A u \in Threads \ {t} : ~InCall(u) /\ ~Changing(u)
<1>1. 1 \in Live /\ 1 \in Ids /\ Counted(1)
  BY RunningIs, CountedIs DEF IInv
<1>2. /\ IsFiniteSet(Holders(1)) /\ IsFiniteSet(Children(1))
      /\ Cardinality(Holders(1)) \in Nat /\ Cardinality(Children(1)) \in Nat
      /\ Named(1) \in {0, 1}
  BY <1>1, CountsAreNumbers DEF IInv
<1>3. t \in Holders(1)
  BY DEF Holders
<1>4. Cardinality(Holders(1)) # 0
  BY <1>2, <1>3, FS_EmptySet
<1>5. Cardinality(Children(1)) = 0 /\ Cardinality(Holders(1)) = 1
  BY <1>1, <1>2, <1>4 DEF Counted
<1>6. Children(1) = {}
  BY <1>2, <1>5, FS_EmptySet
<1>7. Live = {1}
  BY <1>1, <1>6, VolumeIsLast DEF Children
<1>8. \A u \in Holders(1) : u = t
  <2>1. Holders(1) \subseteq {t}
    <3>1. PICK x : Holders(1) = {x}
      BY <1>2, <1>5, FS_Singleton
    <3>. QED
      BY <1>3, <3>1
  <2>. QED
    BY <2>1
<1>9. \A u \in Threads \ {t} : ~Holding(u)
  BY <1>7, <1>8, RunningIs DEF Holders
<1>10. \A u \in Threads : ~(Freeing(u) /\ frame[u].self = 1)
  BY RunningIs
<1>. QED
  BY <1>7, <1>9, <1>10, RunningIs DEF Changing

LEMMA DecRefKeeps ==
  ASSUME IInv, NEW t \in Threads, DecRef(t)
  PROVE  IInv'
<1>0. PICK o \in Ids : o = frame[t].self
  BY RunningIs DEF DecRef, Has, Running
<1> DEFINE last == objects[o].refs = 1
<1>1. /\ UNCHANGED <<gil, names, library, loose, volume, handle, file, lock, calls, stale>>
      /\ pc[t] = "decref" /\ objects' = [objects EXCEPT ![o].refs = @ - 1]
  BY <1>0 DEF DecRef, Has, clibrary
<1>2. /\ last => Goto(t, "dealloc") /\ frame' = [frame EXCEPT ![t] = [NoFrame EXCEPT !.op = "dealloc", !.self = o]]
      /\ ~last => Goto(t, "python") /\ frame' = [frame EXCEPT ![t] = NoFrame]
  BY <1>0 DEF DecRef
<1>3. Running(t) /\ Holding(t) /\ ~Freeing(t) /\ o \in Live /\ o \in Ids /\ objects[o].refs >= 1
  <2>1. Running(t) /\ Framed(t)
    BY <1>1 DEF Running, IInv
  <2>2. ~Freeing(t)
    BY <1>1, <2>1 DEF Framed, FreeFrame, Inner
  <2>. QED
    BY <1>0, <2>1, <2>2, RunningIs
<1>4. /\ \A u \in Threads \ {t} : frame'[u] = frame[u]
      /\ last => frame'[t].op = "dealloc" /\ frame'[t].self = o
      /\ frame' \in [Threads -> Frame]
  <2>1. [NoFrame EXCEPT !.op = "dealloc", !.self = o] \in Frame /\ NoFrame \in Frame
    BY DEF Frame, NoFrame, Operation
  <2>2. [NoFrame EXCEPT !.op = "dealloc", !.self = o].op = "dealloc"
        /\ [NoFrame EXCEPT !.op = "dealloc", !.self = o].self = o
    BY DEF NoFrame
  <2>3. PICK f \in Frame : frame' = [frame EXCEPT ![t] = f] /\ (last => f.op = "dealloc" /\ f.self = o)
    BY <1>2, <2>1, <2>2
  <2>. QED
    BY <2>3 DEF IInv, TypeOK
<1>5. /\ pc'[t] = IF last THEN "dealloc" ELSE "python"
      /\ \A u \in Threads \ {t} : pc'[u] = pc[u]
      /\ pc' \in [Threads -> PythonSteps \cup {"ended", "library", "inside", "cfree"}]
  BY <1>2 DEF IInv, TypeOK, Goto, PythonSteps
<1>6. /\ objects' \in [Ids -> Object]
      /\ \A q \in Ids \ {o} : objects'[q] = objects[q]
      /\ objects'[o].refs = objects[o].refs - 1
      /\ \A q \in Ids : SameObject(q)
  BY <1>1, <1>3 DEF IInv, TypeOK, Object, SameObject
<1>7. OthersStay(t) /\ Live' = Live
  BY <1>4, <1>5, <1>6, LiveStay DEF OthersStay
<1>8. /\ ~InCall(t)' /\ ~Holding(t)' /\ (Freeing(t)' <=> last) /\ (Running(t)' <=> last)
      /\ Changing(t)' <=> last /\ o = 1
  BY <1>4, <1>5 DEF InCall, Holding, Freeing, Running, Changing
<1>9. Changing(t) => Settled
  <2>1. Changing(t) => AtChange(t) /\ frame[t].op \in Changes
    BY <1>3 DEF IInv, VolumeFits, Changing
  <2>. QED
    BY <1>1, <2>1 DEF AtChange, Changes, Opening
<1>10. last /\ o = 1 => Live = {1} /\ \A u \in Threads \ {t} : ~InCall(u) /\ ~Changing(u)
  BY <1>0, <1>3, LastReference
<1>11. Alone'
  <2>1. CASE last /\ o = 1
    <3>1. \A u \in Threads : Changing(u)' => u = t
      BY <1>7, <1>10, <2>1, OthersAre
    <3>2. \A u \in Threads \ {t} : ~InCall(u)'
      BY <1>7, <1>10, <2>1, OthersAre
    <3>3. Live' = {1}
      BY <1>7, <1>10, <2>1
    <3>. QED
      BY <3>1, <3>2, <3>3 DEF Alone
  <2>2. CASE ~(last /\ o = 1)
    BY <1>7, <1>8, <2>2, ChangingIsAlone, AloneKept
  <2>. QED
    BY <2>1, <2>2
<1>12. VolumeFits'
  <2>1. CASE last /\ o = 1
    <3>1. Settled
      <4>1. (\A u \in Threads : ~Changing(u)) => Settled
        BY DEF IInv, VolumeFits
      <4>. QED
        BY <1>9, <1>10, <2>1, <4>1
    <3>2. Settled'
      BY <1>1, <3>1 DEF Settled
    <3>3. AtChange(t)'
      BY <1>4, <1>5, <2>1, <3>2 DEF AtChange
    <3>4. \A u \in Threads : Changing(u)' <=> u = t
      BY <1>7, <1>8, <1>10, <2>1, OthersAre
    <3>. QED
      BY <1>3, <1>7, <2>1, <3>3, <3>4 DEF VolumeFits
  <2>2. CASE ~(last /\ o = 1)
    <3>1. 1 \notin Live' => volume = "closed" /\ ~handle
      BY <1>7 DEF IInv, VolumeFits
    <3>. QED
      BY <1>1, <1>7, <1>8, <1>9, <2>2, <3>1, VolumeKept
  <2>. QED
    BY <2>1, <2>2
<1>13. Unreferenced'
  <2>1. \A u \in Threads \ {t} : (Freeing(u)' <=> Freeing(u)) /\ frame'[u] = frame[u]
    BY <1>7, OthersAre
  <2>2. \A u \in Threads : Freeing(u) => frame[u].self # o
    BY <1>3, RunningIs
  <2>3. CASE last
    <3>1. objects'[o].refs = 0
      BY <1>6, <2>3
    <3>2. \A u \in Threads : Freeing(u)' => frame'[u].self \in Live' /\ objects'[frame'[u].self].refs = 0
      BY <1>3, <1>4, <1>6, <1>7, <2>1, <2>2, <2>3, <3>1 DEF IInv, Unreferenced, Live
    <3>3. ASSUME NEW q \in Live', objects'[q].refs = 0 PROVE \E u \in Threads : Freeing(u)' /\ frame'[u].self = q
      <4>1. CASE q = o
        BY <1>4, <1>8, <2>3, <4>1
      <4>2. CASE q # o
        <5>1. q \in Live /\ objects[q].refs = 0
          BY <1>6, <1>7, <3>3, <4>2 DEF Live
        <5>2. PICK u \in Threads : Freeing(u) /\ frame[u].self = q
          BY <5>1 DEF IInv, Unreferenced
        <5>. QED
          BY <1>3, <2>1, <5>2
      <4>. QED
        BY <4>1, <4>2
    <3>4. ASSUME NEW u \in Threads, NEW v \in Threads, Freeing(u)', Freeing(v)', frame'[u].self = frame'[v].self
          PROVE  u = v
      BY <1>4, <2>1, <2>2, <2>3, <3>4 DEF IInv, Unreferenced
    <3>. QED
      BY <3>2, <3>3, <3>4 DEF Unreferenced
  <2>4. CASE ~last
    <3>1. objects'[o].refs # 0 /\ objects[o].refs # 0
      BY <1>3, <1>6, <2>4 DEF IInv, TypeOK, Object
    <3>2. \A q \in Live' : objects'[q].refs = 0 => q \in Live /\ objects[q].refs = 0
      BY <1>6, <1>7, <3>1 DEF Live
    <3>3. \A q \in Live : objects[q].refs = 0 => q \in Live' /\ objects'[q].refs = 0
      BY <1>6, <1>7, <3>1 DEF Live
    <3>. QED
      BY <1>3, <1>7, <1>8, <2>4, <3>2, <3>3, UnreferencedKept
  <2>. QED
    BY <2>3, <2>4
<1>14. Family' /\ InLibrary'
  <2>1. names' \subseteq Live /\ UNCHANGED volume
    BY <1>1 DEF IInv, Family
  <2>2. pc[t] # "freed" /\ pc'[t] # "freed" /\ UNCHANGED library
    BY <1>1, <1>5
  <2>. QED
    BY <1>6, <1>7, <2>1, <2>2, FamilyKept, LibraryKept
<1>15. \A u \in Threads : Framed(u)'
  <2>1. Framed(t)'
    BY <1>3, <1>4, <1>5, <1>7, <1>8 DEF Framed, FreeFrame, Inner
  <2>2. \A u \in Threads \ {t} : Framed(u)'
    BY <1>1, <1>6, <1>7, OthersFramed DEF Live
  <2>. QED
    BY <2>1, <2>2
<1>16. LooseAreGiven'
  <2>1. ~Gave(t) /\ ~Gave(t)' /\ loose' \in Int /\ \A q \in Live : SameObject(q)
    BY <1>1, <1>5, <1>6 DEF Gave, IInv, TypeOK, Live
  <2>. QED
    BY <1>1, <1>7, <2>1, LooseMoves
<1>17. ReferencesAreCounted'
  <2>1. \A q \in Ids \ {o} : /\ objects'[q].refs = objects[q].refs
                             /\ q \in names' <=> q \in names
                             /\ Holds(t, q)' = Holds(t, q)
    BY <1>0, <1>1, <1>6, <1>8 DEF Holds
  <2>2. Named(o) \in {0, 1} /\ Named(o)' = Named(o) /\ Holds(t, o) = 1 /\ Holds(t, o)' = 0
    BY <1>0, <1>1, <1>3, <1>8 DEF Named, Holds
  <2>3. objects[o].refs \in Nat
    BY <1>3 DEF IInv, TypeOK, Object
  <2>4. objects'[o].refs = objects[o].refs + (Named(o)' - Named(o)) + (Holds(t, o)' - Holds(t, o))
    BY <1>6, <2>2, <2>3
  <2>5. \A q \in Live' : Counted(q)'
    BY <1>3, <1>6, <1>7, <2>1, <2>4, CountsMove
  <2>. QED
    BY <1>1, <2>5, FileStays, CountedNext
<1>18. TypeOK' /\ NothingStaleIsUsed'
  BY <1>1, <1>4, <1>5, <1>6 DEF IInv, TypeOK, NothingStaleIsUsed
<1>. QED
  BY <1>11, <1>12, <1>13, <1>14, <1>15, <1>16, <1>17, <1>18 DEF IInv

------------------------------------------------------------------------------
(* Calls begin                                                             *)

LEMMA IncRefIs ==
  ASSUME NEW table \in [Ids -> Object], NEW o \in Ids
  PROVE  /\ IncRef(table, o) \in [Ids -> Object]
         /\ IncRef(table, o)[o].refs = table[o].refs + 1
         /\ \A q \in Ids \ {o} : IncRef(table, o)[q] = table[q]
         /\ \A q \in Ids : /\ IncRef(table, o)[q].kind = table[q].kind
                           /\ IncRef(table, o)[q].parent = table[q].parent
                           /\ IncRef(table, o)[q].of = table[q].of
                           /\ IncRef(table, o)[q].index = table[q].index
  BY Parameters DEF IncRef, Object

(* What a disciplined program waits for leaves nobody at the volume.       *)
LEMMA NobodyChanges ==
  ASSUME IInv, Disciplined, NEW o \in names, NEW op, May(op)
  PROVE  /\ \A u \in Threads : ~Changing(u)
         /\ Settled
         /\ op \in Changes => Live = {1} /\ \A u \in Threads : ~InCall(u)
<1>1. o \in Live /\ objects[o].refs >= 1
  BY ReferencedHasCount DEF IInv, Family
<1>2. ASSUME NEW u \in Threads, Changing(u) PROVE FALSE
  <2>1. Live = {1} /\ o = 1
    BY <1>1, <1>2, ChangingIsAlone
  <2>2. ~Freeing(u)
    BY <1>1, <1>2, <2>1, ChangingIsAlone, RunningIs
  <2>. QED
    BY <1>2, <2>2 DEF Changing, May
<1>. QED
  BY <1>2 DEF May, IInv, VolumeFits

LEMMA BeginKeeps ==
  ASSUME IInv, Disciplined, NEW t \in Threads, NEW o \in names,
         NEW op \in Operation \ {"none", "drop", "dealloc"}, NEW target, NEW index \in Nat,
         BeginCall(t, op, o, target, index),
         objects' = IncRef(objects, o), UNCHANGED <<names, clibrary>>,
         Callee(op, objects[o].kind),
         target = IF op \in {"next", "item"} THEN objects[o].parent ELSE o,
         op = "openfile" => ~handle /\ handle' = TRUE /\ file' = [file EXCEPT !.refs = @ + 1],
         op # "openfile" => UNCHANGED <<handle, file>>
  PROVE  IInv'
<1> DEFINE g == [op |-> op, self |-> o, target |-> target, index |-> index, result |-> "none"]
<1>1. /\ UNCHANGED <<names, library, loose, volume, lock, stale>>
      /\ pc[t] = "python" /\ calls < MaxCalls /\ May(op) /\ calls' = calls + 1
      /\ frame' = [frame EXCEPT ![t] = g] /\ gil' = NoThread /\ Goto(t, "library")
  BY DEF BeginCall, Has, clibrary
<1>2. o \in Live /\ o \in Ids /\ objects[o].refs >= 1
  BY ReferencedHasCount DEF IInv, Family, Live
<1>3. /\ objects' \in [Ids -> Object]
      /\ objects'[o].refs = objects[o].refs + 1
      /\ \A q \in Ids \ {o} : objects'[q] = objects[q]
      /\ \A q \in Ids : SameObject(q)
  BY <1>2, IncRefIs DEF IInv, TypeOK, SameObject
<1>4. pc'[t] = "library" /\ \A u \in Threads \ {t} : pc'[u] = pc[u]
  BY <1>1, GotoIs
<1>5. frame'[t] = g /\ (\A u \in Threads \ {t} : frame'[u] = frame[u]) /\ frame' \in [Threads -> Frame]
  <2>1. objects[o].parent \in Ids \cup {0}
    BY <1>2 DEF IInv, TypeOK, Object
  <2>2. g \in Frame
    BY <1>2, <2>1 DEF Frame
  <2>. QED
    BY <1>1, <2>2 DEF IInv, TypeOK
<1>6. OthersStay(t) /\ Live' = Live
  BY <1>3, <1>4, <1>5, LiveStay DEF OthersStay
<1>7. /\ ~Running(t) /\ ~Holding(t) /\ ~InCall(t) /\ ~Freeing(t) /\ ~Changing(t)
      /\ Running(t)' /\ Holding(t)' /\ InCall(t)' /\ ~Freeing(t)'
      /\ Changing(t)' <=> op \in Changes
  BY <1>1, <1>4, <1>5 DEF Running, Holding, InCall, Freeing, Changing
<1>8. /\ \A u \in Threads : ~Changing(u)
      /\ Settled
      /\ op \in Changes => Live = {1} /\ \A u \in Threads : ~InCall(u)
  BY <1>1, NobodyChanges
<1>9. \A u \in Threads \ {t} : ~Changing(u)'
  BY <1>6, <1>8, OthersAre
<1>10. Alone'
  <2>1. ASSUME op \in Changes PROVE Live' = {1} /\ \A u \in Threads \ {t} : ~InCall(u)'
    BY <1>6, <1>8, <2>1, OthersAre
  <2>. QED
    BY <1>7, <1>9, <2>1 DEF Alone
<1>11. VolumeFits'
  <2>1. Changing(t)' => AtChange(t)'
    <3>1. CASE op = "openfile"
      <4>1. handle' /\ volume' # "file"
        BY <1>1, <1>8, <3>1 DEF Settled
      <4>. QED
        BY <1>4, <1>5, <3>1, <4>1 DEF AtChange, Opening
    <3>2. CASE op # "openfile"
      <4>1. Settled'
        BY <1>1, <1>8, <3>2 DEF Settled
      <4>2. pc'[t] = "library" /\ frame'[t].op = op
        BY <1>4, <1>5
      <4>3. op \notin {"openfile", "dealloc"}
        BY <3>2
      <4>. QED
        BY <4>1, <4>2, <4>3 DEF AtChange
    <3>. QED
      BY <3>1, <3>2
  <2>2. ~Changing(t)' => Settled'
    BY <1>1, <1>7, <1>8 DEF Settled, Changes
  <2>3. 1 \in Live'
    BY <1>2, <1>6, ParentsAre
  <2>. QED
    BY <1>9, <2>1, <2>2, <2>3 DEF VolumeFits
<1>12. Unreferenced' /\ Family' /\ InLibrary'
  <2>1. objects'[o].refs # 0 /\ objects[o].refs # 0
    BY <1>2, <1>3 DEF IInv, TypeOK, Object
  <2>2. \A q \in Live' : objects'[q].refs = 0 => q \in Live /\ objects[q].refs = 0
    BY <1>3, <1>6, <2>1 DEF Live
  <2>3. \A q \in Live : objects[q].refs = 0 => q \in Live' /\ objects'[q].refs = 0
    BY <1>3, <1>6, <2>1 DEF Live
  <2>4. Unreferenced'
    BY <1>6, <1>7, <2>2, <2>3, UnreferencedKept
  <2>5. Family'
    <3>1. names' \subseteq Live /\ UNCHANGED volume
      BY <1>1 DEF IInv, Family
    <3>. QED
      BY <1>3, <3>1, FamilyKept
  <2>6. InLibrary'
    BY <1>1, <1>3, <1>4, <1>6, LibraryKept
  <2>. QED
    BY <2>4, <2>5, <2>6
<1>13. \A u \in Threads : Framed(u)'
  <2>1. CallFrame(t)'
    <3>1. Callee(op, objects'[o].kind) /\ objects'[o].parent = objects[o].parent
      BY <1>2, <1>3 DEF SameObject, Callee
    <3>. QED
      BY <1>4, <1>5, <3>1 DEF CallFrame, Inner, Callee
  <2>2. Framed(t)'
    BY <1>2, <1>4, <1>5, <1>6, <1>7, <2>1 DEF Framed
  <2>3. ASSUME NEW u \in Threads \ {t} PROVE Framed(u)'
    <3>1. Framed(u) /\ pc'[u] = pc[u] /\ frame'[u] = frame[u]
      BY <1>4, <1>5 DEF IInv
    <3>2. Running(u) => SameObject(frame[u].self)
      BY <1>3, RunningIs
    <3>3. (handle => handle') /\ volume' = volume
      BY <1>1
    <3>. QED
      BY <3>1, <3>2, <3>3, FramedKept
  <2>. QED
    BY <2>2, <2>3
<1>14. LooseAreGiven'
  <2>1. ~Gave(t) /\ ~Gave(t)' /\ loose' \in Int /\ \A q \in Live : SameObject(q)
    BY <1>1, <1>3, <1>4 DEF Gave, IInv, TypeOK, Live
  <2>. QED
    BY <1>1, <1>6, <2>1, LooseMoves
<1>15. FileCounted' /\ file' \in [named : BOOLEAN, refs : Nat]
  BY CountedIs DEF IInv, FileCounted, TypeOK
<1>16. ReferencesAreCounted'
  <2>1. \A q \in Ids \ {o} : /\ objects'[q].refs = objects[q].refs
                             /\ q \in names' <=> q \in names
                             /\ Holds(t, q)' = Holds(t, q)
    BY <1>1, <1>3, <1>5, <1>7 DEF Holds
  <2>2. Named(o) \in {0, 1} /\ Named(o)' = Named(o) /\ Holds(t, o) = 0 /\ Holds(t, o)' = 1
    BY <1>1, <1>5, <1>7 DEF Named, Holds
  <2>3. objects[o].refs \in Nat
    BY <1>2 DEF IInv, TypeOK, Object
  <2>4. objects'[o].refs = objects[o].refs + (Named(o)' - Named(o)) + (Holds(t, o)' - Holds(t, o))
    BY <1>3, <2>2, <2>3
  <2>5. \A q \in Live' : Counted(q)'
    BY <1>2, <1>3, <1>6, <2>1, <2>4, CountsMove
  <2>. QED
    BY <1>15, <2>5, CountedNext
<1>17. TypeOK' /\ NothingStaleIsUsed'
  <2>1. pc' \in [Threads -> PythonSteps \cup {"ended", "library", "inside", "cfree"}]
    BY <1>1 DEF IInv, TypeOK, Goto, PythonSteps
  <2>2. calls' \in 0 .. MaxCalls
    BY <1>1, PyfsxfsAssumption DEF IInv, TypeOK
  <2>3. handle' \in BOOLEAN
    BY DEF IInv, TypeOK
  <2>. QED
    BY <1>1, <1>3, <1>5, <1>15, <2>1, <2>2, <2>3 DEF IInv, TypeOK, NothingStaleIsUsed
<1>. QED
  BY <1>10, <1>11, <1>12, <1>13, <1>14, <1>16, <1>17 DEF IInv

LEMMA CallsKeep ==
  ASSUME IInv, Disciplined, NEW t \in Threads,
         CallObject(t) \/ Open(t) \/ OpenFileObject(t) \/ IterNext(t) \/ GetItem(t)
  PROVE  IInv'
<1>1. CASE CallObject(t)
  <2>0. PICK o \in names : \E op \in Operations(objects[o].kind) :
          /\ BeginCall(t, op, o, o, 0)
          /\ objects' = IncRef(objects, o)
          /\ UNCHANGED <<names, clibrary, handle, file>>
    BY <1>1 DEF CallObject
  <2>1. PICK op \in Operations(objects[o].kind) :
          /\ BeginCall(t, op, o, o, 0)
          /\ objects' = IncRef(objects, o)
          /\ UNCHANGED <<names, clibrary, handle, file>>
    BY <2>0
  <2>2. op \in Operation \ {"none", "drop", "dealloc", "openfile", "next", "item"}
    BY DEF Operations, Operation
  <2>3. Callee(op, objects[o].kind)
    BY DEF Operations, Callee, Changes, Sequential
  <2>4. UNCHANGED <<names, clibrary>> /\ UNCHANGED <<handle, file>> /\ 0 \in Nat
    BY <2>1
  <2>. QED
    BY <2>1, <2>2, <2>3, <2>4, BeginKeeps
<1>2. CASE Open(t)
  <2>1. PICK o \in names :
          /\ objects[o].kind = "volume" /\ BeginCall(t, "open", o, o, 0)
          /\ objects' = IncRef(objects, o)
          /\ UNCHANGED <<names, clibrary, handle, file>>
    BY <1>2 DEF Open
  <2>2. Callee("open", objects[o].kind) /\ "open" \in Operation \ {"none", "drop", "dealloc"}
    BY <2>1 DEF Callee, Changes, Sequential, Operation
  <2>3. UNCHANGED <<names, clibrary>> /\ UNCHANGED <<handle, file>> /\ 0 \in Nat
    BY <2>1
  <2>. QED
    BY <2>1, <2>2, <2>3, BeginKeeps
<1>3. CASE OpenFileObject(t)
  <2>1. PICK o \in names :
          /\ objects[o].kind = "volume" /\ ~handle /\ BeginCall(t, "openfile", o, o, 0)
          /\ objects' = IncRef(objects, o)
          /\ handle' = TRUE /\ file' = [file EXCEPT !.refs = @ + 1]
          /\ UNCHANGED <<names, clibrary>>
    BY <1>3 DEF OpenFileObject
  <2>2. Callee("openfile", objects[o].kind) /\ "openfile" \in Operation \ {"none", "drop", "dealloc"}
    BY <2>1 DEF Callee, Changes, Sequential, Operation
  <2>. QED
    BY <2>1, <2>2, BeginKeeps
<1>4. ASSUME NEW o \in names, NEW op \in {"next", "item"}, NEW k \in Nat,
             objects[o].kind \in Sequential, BeginCall(t, op, o, objects[o].parent, k),
             objects' = IncRef(objects, o), UNCHANGED <<names, clibrary, handle, file>>
      PROVE  IInv'
  <2>1. Callee(op, objects[o].kind) /\ op \in Operation \ {"none", "drop", "dealloc"}
    BY <1>4 DEF Callee, Changes, Sequential, Operation
  <2>2. UNCHANGED <<names, clibrary>> /\ UNCHANGED <<handle, file>>
    BY <1>4
  <2>. QED
    BY <1>4, <2>1, <2>2, BeginKeeps
<1>5. CASE IterNext(t)
  <2>1. PICK o \in names :
          /\ objects[o].kind \in Sequential
          /\ BeginCall(t, "next", o, objects[o].parent, objects[o].index)
          /\ objects' = IncRef(objects, o)
          /\ UNCHANGED <<names, clibrary, handle, file>>
    BY <1>5 DEF IterNext
  <2>2. objects[o].index \in Nat
    BY DEF IInv, TypeOK, Object, Family, Live
  <2>. QED
    BY <1>4, <2>1, <2>2
<1>6. CASE GetItem(t)
  <2>1. PICK o \in names, k \in 0 .. NumberOfItems - 1 :
          /\ objects[o].kind \in Sequential
          /\ BeginCall(t, "item", o, objects[o].parent, k)
          /\ objects' = IncRef(objects, o)
          /\ UNCHANGED <<names, clibrary, handle, file>>
    BY <1>6 DEF GetItem
  <2>2. k \in Nat
    BY PyfsxfsAssumption
  <2>. QED
    BY <1>4, <2>1, <2>2
<1>. QED
  BY <1>1, <1>2, <1>3, <1>5, <1>6

------------------------------------------------------------------------------
(* An object is gone                                                       *)

LEMMA FinishIs ==
  ASSUME IInv, NEW t \in Threads, NEW o \in Live, Finish(t, o), frame[t].self = o, Freeing(t),
         UNCHANGED <<names, library, loose, volume, handle, file>>
  PROVE  /\ objects' \in [Ids -> Object] /\ frame' \in [Threads -> Frame]
         /\ \A q \in Ids \ {o} : objects'[q] = objects[q]
         /\ Live' = Live \ {o}
         /\ \A u \in Threads \ {t} : pc'[u] = pc[u] /\ frame'[u] = frame[u]
         /\ pc' \in [Threads -> Steps]
         /\ \/ o = 1 /\ Live = {1} /\ pc'[t] = "python"
            \/ /\ o # 1 /\ 1 \in Live /\ objects[o].parent \in Live \ {o}
               /\ pc'[t] = "decref" /\ frame'[t].op = "drop" /\ frame'[t].self = objects[o].parent
<1>1. o \in Ids /\ objects[o].refs = 0
  BY RunningIs DEF Live
<1>2. \A q \in Live : objects[q].parent # o
  BY <1>1, WithoutCount
<1>3. /\ objects' \in [Ids -> Object]
      /\ \A q \in Ids \ {o} : objects'[q] = objects[q]
      /\ objects'[o].kind = "gone"
  BY <1>1 DEF Finish, IInv, TypeOK, Object
<1>4. Live' = Live \ {o}
  BY <1>3 DEF Live
<1>5. CASE o = 1
  <2>1. objects[o].parent = 0
    BY <1>5, ParentsAre DEF IInv, Family
  <2>2. Goto(t, "python") /\ frame' = [frame EXCEPT ![t] = NoFrame]
    BY <2>1 DEF Finish
  <2>3. NoFrame \in Frame
    BY DEF NoFrame, Frame, Operation
  <2>4. Live = {1}
    BY <1>2, <1>5, VolumeIsLast
  <2>. QED
    BY <1>3, <1>4, <1>5, <2>2, <2>3, <2>4 DEF Goto, IInv, TypeOK, Steps, PythonSteps
<1>6. CASE o # 1
  <2>1. objects[o].parent \in Live \ {o} /\ 1 \in Live
    BY <1>2, <1>6, ParentsAre
  <2>2. objects[o].parent \in Ids /\ objects[o].parent # 0
    BY <2>1, Parameters DEF Live
  <2>3. /\ Goto(t, "decref")
        /\ frame' = [frame EXCEPT ![t] = [NoFrame EXCEPT !.op = "drop", !.self = objects[o].parent]]
    BY <2>2 DEF Finish
  <2>4. /\ [NoFrame EXCEPT !.op = "drop", !.self = objects[o].parent] \in Frame
        /\ [NoFrame EXCEPT !.op = "drop", !.self = objects[o].parent].op = "drop"
        /\ [NoFrame EXCEPT !.op = "drop", !.self = objects[o].parent].self = objects[o].parent
    BY <2>2 DEF NoFrame, Frame, Operation
  <2>5. PICK g \in Frame : /\ frame' = [frame EXCEPT ![t] = g]
                           /\ g.op = "drop" /\ g.self = objects[o].parent
    BY <2>3, <2>4
  <2>6. frame'[t] = g /\ frame' \in [Threads -> Frame] /\ \A u \in Threads \ {t} : frame'[u] = frame[u]
    BY <2>5 DEF IInv, TypeOK
  <2>7. pc'[t] = "decref" /\ pc' \in [Threads -> Steps] /\ \A u \in Threads \ {t} : pc'[u] = pc[u]
    BY <2>3 DEF Goto, IInv, TypeOK, Steps, PythonSteps
  <2>. QED
    BY <1>3, <1>4, <1>6, <2>1, <2>5, <2>6, <2>7
<1>. QED
  BY <1>5, <1>6

LEMMA FinishKeeps ==
  ASSUME IInv, NEW t \in Threads, NEW o \in Live, Finish(t, o), frame[t].self = o,
         UNCHANGED <<gil, names, clibrary, handle, file, calls>>,
         o \notin library,
         (pc[t] = "dealloc" /\ o # 1) \/ pc[t] = "freed"
  PROVE  IInv'
<1>1. UNCHANGED <<gil, names, library, loose, volume, handle, file, lock, calls, stale>>
  BY DEF clibrary
<1>2. Running(t) /\ Freeing(t) /\ ~InCall(t) /\ ~Holding(t)
  BY InCallOrFreeing, RunningIs DEF Running, CallFrame, Inner
<1>3. /\ objects' \in [Ids -> Object] /\ frame' \in [Threads -> Frame]
      /\ \A q \in Ids \ {o} : objects'[q] = objects[q]
      /\ Live' = Live \ {o}
      /\ \A u \in Threads \ {t} : pc'[u] = pc[u] /\ frame'[u] = frame[u]
      /\ pc' \in [Threads -> Steps]
      /\ \/ o = 1 /\ Live = {1} /\ pc'[t] = "python"
         \/ /\ o # 1 /\ 1 \in Live /\ objects[o].parent \in Live \ {o}
            /\ pc'[t] = "decref" /\ frame'[t].op = "drop" /\ frame'[t].self = objects[o].parent
  BY <1>1, <1>2, FinishIs
<1>4. OthersStay(t) /\ \A q \in Live' : SameObject(q)
  BY <1>3 DEF OthersStay, SameObject, Live
<1>5. /\ ~InCall(t)' /\ ~Freeing(t)' /\ ~Changing(t)' /\ (Holding(t)' <=> o # 1)
      /\ Changing(t) <=> o = 1
  BY <1>2, <1>3 DEF InCall, Freeing, Changing, Holding, Running
<1>6. o \in Ids /\ objects[o].refs = 0
  BY <1>2, RunningIs DEF Live
<1>7. o \notin names /\ \A q \in Live : objects[q].parent # o
  BY <1>6, WithoutCount
<1>8. \A u \in Threads \ {t} : Running(u) => frame[u].self \in Live'
  <2>1. \A u \in Threads \ {t} : Freeing(u) => frame[u].self # o
    BY <1>2 DEF IInv, Unreferenced
  <2>2. \A u \in Threads : Holding(u) => frame[u].self # o
    BY <1>6, WithoutCount
  <2>. QED
    BY <1>3, <2>1, <2>2, RunningIs
<1>9. \A u \in Threads \ {t} : ~Changing(u)
  BY <1>2, ChangingIsAlone
<1>10. Family'
  <2>1. names' \subseteq Live'
    BY <1>1, <1>3, <1>7 DEF IInv, Family
  <2>2. ASSUME NEW q \in Live'
        PROVE  /\ objects'[q].kind = objects[q].kind /\ objects'[q].parent = objects[q].parent
               /\ objects'[q].of = objects[q].of /\ q \in Live /\ q \in Ids
    BY <1>3 DEF Live
  <2>3. ASSUME NEW q \in Live', q # 1 PROVE 1 \in Live'
    BY <1>3, <2>2, <2>3
  <2>4. ASSUME NEW q \in Live', objects[q].parent \in Live
        PROVE  /\ objects[q].parent \in Live'
               /\ objects'[objects[q].parent].kind = objects[objects[q].parent].kind
    <3>1. objects[q].parent \in Live'
      BY <1>3, <1>7, <2>2, <2>4
    <3>. QED
      BY <2>2, <3>1
  <2>. QED
    BY <1>1, <2>1, <2>2, <2>3, <2>4 DEF IInv, Family
<1>11. Unreferenced'
  <2>1. \A u \in Threads : Freeing(u)' <=> Freeing(u) /\ u # t
    BY <1>4, <1>5, OthersAre
  <2>2. ASSUME NEW u \in Threads, Freeing(u)'
        PROVE  frame'[u].self \in Live' /\ objects'[frame'[u].self].refs = 0
    <3>1. u # t /\ Freeing(u) /\ Running(u)
      BY <2>1, <2>2 DEF Freeing
    <3>2. frame'[u].self = frame[u].self /\ frame[u].self \in Live' /\ objects[frame[u].self].refs = 0
      BY <1>3, <1>8, <3>1, RunningIs
    <3>. QED
      BY <1>3, <3>2 DEF Live
  <2>3. ASSUME NEW q \in Live', objects'[q].refs = 0 PROVE \E u \in Threads : Freeing(u)' /\ frame'[u].self = q
    <3>1. q \in Live /\ q # o /\ objects[q].refs = 0
      BY <1>3, <2>3 DEF Live
    <3>2. PICK u \in Threads : Freeing(u) /\ frame[u].self = q
      BY <3>1 DEF IInv, Unreferenced
    <3>. QED
      BY <1>3, <2>1, <3>1, <3>2
  <2>4. ASSUME NEW u \in Threads, NEW v \in Threads, Freeing(u)', Freeing(v)', frame'[u].self = frame'[v].self
        PROVE  u = v
    BY <1>3, <2>1, <2>4 DEF IInv, Unreferenced
  <2>. QED
    BY <2>2, <2>3, <2>4 DEF Unreferenced
<1>12. InLibrary'
  <2>1. ASSUME NEW q \in Ids \ {o} PROVE HasLibraryObject(q)' <=> HasLibraryObject(q)
    <3>1. (q \in Live' <=> q \in Live) /\ objects'[q] = objects[q]
      BY <1>3
    <3>2. ~(pc[t] = "freed" /\ frame[t].self = q) /\ pc'[t] # "freed"
      BY <1>3
    <3>. QED
      BY <1>3, <3>1, <3>2 DEF HasLibraryObject
  <2>2. ~HasLibraryObject(o)'
    BY <1>3 DEF HasLibraryObject
  <2>. QED
    BY <1>1, <2>1, <2>2 DEF IInv, InLibrary
<1>13. \A u \in Threads : Framed(u)'
  <2>1. Framed(t)'
    BY <1>3, <1>5 DEF Framed, Running
  <2>2. ASSUME NEW u \in Threads \ {t} PROVE Framed(u)'
    <3>1. Framed(u) /\ pc'[u] = pc[u] /\ frame'[u] = frame[u]
      BY <1>3 DEF IInv
    <3>2. Running(u) => SameObject(frame[u].self)
      BY <1>4, <1>8
    <3>. QED
      BY <1>1, <3>1, <3>2, FramedKept
  <2>. QED
    BY <2>1, <2>2
<1>14. Alone'
  BY <1>4, <1>5, <1>9, AloneKept
<1>15. VolumeFits'
  <2>1. o = 1 => volume = "closed" /\ ~handle
    <3>1. o = 1 => AtChange(t) /\ pc[t] = "freed" /\ frame[t].op = "dealloc"
      BY <1>2, <1>5 DEF IInv, VolumeFits, Freeing
    <3>. QED
      BY <3>1 DEF AtChange
  <2>2. Changing(t) => Settled
    BY <1>5, <2>1 DEF Settled
  <2>3. 1 \notin Live' => volume = "closed" /\ ~handle
    BY <1>3, <2>1
  <2>. QED
    BY <1>1, <1>4, <1>5, <2>2, <2>3, VolumeKept
<1>16. LooseAreGiven'
  <2>1. ~Gave(t) /\ ~Gave(t)' /\ loose' \in Int
    BY <1>1, <1>3 DEF Gave, IInv, TypeOK
  <2>2. \A u \in Threads \ {t} : pc[u] = "back" => SameObject(frame[u].self)
    BY <1>4, <1>8 DEF Running
  <2>. QED
    BY <1>1, <1>4, <2>1, <2>2, GivenMoves
<1>17. ReferencesAreCounted'
  <2>1. ASSUME NEW q \in Live' PROVE Counted(q)'
    <3>1. q \in Live /\ q \in Ids /\ q # o /\ objects'[q] = objects[q] /\ Counted(q)
      BY <1>3, CountedIs DEF IInv, Live
    <3>2. Named(q)' = Named(q) /\ Named(q) \in {0, 1} /\ objects[q].refs \in Nat
      BY <1>1, <3>1 DEF Named, IInv, TypeOK, Object
    <3>3. /\ Cardinality(Holders(q)) \in Nat /\ Cardinality(Holders(q)') \in Nat
          /\ t \in Holders(q) <=> t \in Holders(q)' => Cardinality(Holders(q)') = Cardinality(Holders(q))
          /\ t \in Holders(q)' /\ t \notin Holders(q) => Cardinality(Holders(q)') = Cardinality(Holders(q)) + 1
      BY <1>4, <3>1, HoldersMove
    <3>4. t \notin Holders(q) /\ (t \in Holders(q)' <=> o # 1 /\ q = objects[o].parent)
      BY <1>2, <1>3, <1>5 DEF Holders
    <3>5. /\ Cardinality(Children(q)) \in Nat /\ Cardinality(Children(q)') \in Nat
          /\ o \in Children(q) <=> o \in Children(q)' => Cardinality(Children(q)') = Cardinality(Children(q))
          /\ o \in Children(q) /\ o \notin Children(q)' => Cardinality(Children(q)) = Cardinality(Children(q)') + 1
      <4>1. \A x \in Ids \ {o} : x \in Live <=> x \in Live'
        BY <1>3
      <4>2. \A x \in Live \ {o} : objects'[x].parent = objects[x].parent
        BY <1>3 DEF Live
      <4>. QED
        BY <1>6, <3>1, <4>1, <4>2, ChildrenMove
    <3>6. o \notin Children(q)' /\ (o \in Children(q) <=> o # 1 /\ q = objects[o].parent)
      <4>1. o \in Live /\ o \notin Live' /\ q # 0
        BY <1>3, <3>1, Parameters
      <4>2. o = 1 => objects[o].parent = 0
        BY ParentsAre DEF IInv, Family
      <4>. QED
        BY <4>1, <4>2 DEF Children
    <3>. QED
      BY <3>1, <3>2, <3>3, <3>4, <3>5, <3>6 DEF Counted
  <2>. QED
    BY <1>1, <2>1, FileStays, CountedNext
<1>18. TypeOK' /\ NothingStaleIsUsed'
  BY <1>1, <1>3 DEF IInv, TypeOK, Steps, NothingStaleIsUsed
<1>. QED
  BY <1>10, <1>11, <1>12, <1>13, <1>14, <1>15, <1>16, <1>17, <1>18 DEF IInv

LEMMA GoneKeeps ==
  ASSUME IInv, NEW t \in Threads, SequenceFree(t) \/ Freed(t)
  PROVE  IInv'
<1>1. /\ UNCHANGED <<gil, names, clibrary, handle, file, calls>>
      /\ Finish(t, frame[t].self)
      /\ \/ pc[t] = "dealloc" /\ objects[frame[t].self].kind \in Sequential
         \/ pc[t] = "freed"
  BY DEF SequenceFree, Freed, Has
<1>2. PICK o \in Live : o = frame[t].self
  BY <1>1, RunningIs DEF Running
<1>3. o \in Ids
  BY DEF Live
<1>4. o \notin library
  BY <1>1, <1>2, <1>3 DEF IInv, InLibrary, HasLibraryObject
<1>5. objects[o].kind \in Sequential => o # 1
  BY ParentsAre DEF Sequential
<1>. QED
  BY <1>1, <1>2, <1>4, <1>5, FinishKeeps

------------------------------------------------------------------------------
(* An object is made                                                       *)

(* What a new object must be to have its place.                            *)
Fits(n, kind, parent, of) ==
  /\ kind \in Kinds
  /\ n = 1 <=> kind = "volume"
  /\ n = 1 <=> parent = 0
  /\ kind = "entry" => parent = 1
  /\ kind \in Sequential \cup {"attribute"} => objects[parent].kind = "entry"
  /\ kind = "attribute" => of = parent
  /\ n # 1 => 1 \in Live /\ parent \in Live /\ objects[parent].refs >= 1 /\ volume # "closed"

LEMMA NewKeeps ==
  ASSUME IInv, NEW t \in Threads, OthersStay(t), TypeOK',
         NEW n \in Ids \ Live, NEW kind, NEW parent, NEW of, Fits(n, kind, parent, of),
         objects'[n].kind = kind, objects'[n].parent = parent, objects'[n].of = of, objects'[n].refs = 1,
         \A o \in Live : SameObject(o),
         \A o \in Live \ {parent} : objects'[o].refs = objects[o].refs,
         n # 1 => objects'[parent].refs = objects[parent].refs + 1,
         \A o \in Ids \ (Live \cup {n}) : objects'[o].kind = objects[o].kind,
         names' = names \cup {n},
         library' = IF kind \in Sequential THEN library ELSE library \cup {n},
         UNCHANGED <<volume, handle, file, stale, frame>>,
         \A u \in Threads : ~Changing(u), ~Changing(t)',
         Holding(t)' <=> Holding(t), ~Freeing(t), ~Freeing(t)',
         pc'[t] # "freed", Framed(t)', LooseAreGiven'
  PROVE  IInv'
<1>1. n # 0 /\ 0 \notin Live /\ 0 \notin Live'
  BY Parameters DEF Live
<1>2. Live' = Live \cup {n}
  <2>1. n \in Live'
    BY DEF Live, Fits, Kinds, Sequential
  <2>2. \A o \in Ids \ {n} : o \in Live' <=> o \in Live
    BY DEF Live, SameObject
  <2>. QED
    BY <2>1, <2>2 DEF Live
<1>3. \A u \in Threads : Running(u) => frame[u].self \in Live /\ frame[u].self # n
  BY RunningIs
<1>4. \A o \in Live : objects[o].parent # n
  BY <1>1, ParentsAre DEF IInv, Family
<1>5. Family'
  <2>1. names' \subseteq Live'
    BY <1>2 DEF IInv, Family
  <2>2. ASSUME NEW q \in Live
        PROVE  /\ objects'[q].kind = objects[q].kind /\ objects'[q].parent = objects[q].parent
               /\ objects'[q].of = objects[q].of /\ q # n /\ q \in Live'
    BY <1>2 DEF SameObject
  <2>3. ASSUME NEW q \in Live
        PROVE  /\ objects'[q].kind = "volume" <=> q = 1
               /\ objects'[q].kind = "volume" => objects'[q].parent = 0
               /\ objects'[q].kind = "entry" => objects'[q].parent = 1
               /\ objects'[q].kind \in Sequential \cup {"attribute"} =>
                    objects'[q].parent \in Live' /\ objects'[objects'[q].parent].kind = "entry"
               /\ objects'[q].kind = "attribute" => objects'[q].of = objects'[q].parent
               /\ q # 1 => 1 \in Live' /\ volume' # "closed"
    BY <2>2 DEF IInv, Family
  <2>4. /\ objects'[n].kind = "volume" <=> n = 1
        /\ objects'[n].kind = "volume" => objects'[n].parent = 0
        /\ objects'[n].kind = "entry" => objects'[n].parent = 1
        /\ objects'[n].kind \in Sequential \cup {"attribute"} =>
             objects'[n].parent \in Live' /\ objects'[objects'[n].parent].kind = "entry"
        /\ objects'[n].kind = "attribute" => objects'[n].of = objects'[n].parent
        /\ n # 1 => 1 \in Live' /\ volume' # "closed"
    <3>1. kind \in Sequential \cup {"attribute"} => n # 1
      BY DEF Fits, Sequential
    <3>2. n # 1 => 1 \in Live /\ parent \in Live /\ volume # "closed"
      BY DEF Fits
    <3>. QED
      BY <1>2, <2>2, <3>1, <3>2 DEF Fits
  <2>. QED
    BY <1>2, <2>1, <2>3, <2>4 DEF Family
<1>6. Unreferenced'
  <2>1. ASSUME NEW o \in Live', objects'[o].refs = 0 PROVE o \in Live /\ objects[o].refs = 0
    <3>1. o \in Live /\ o \in Ids
      BY <1>2, <2>1 DEF Live
    <3>2. objects[o].refs \in Nat
      BY <3>1 DEF IInv, TypeOK, Object
    <3>3. o = parent => n # 1
      BY <1>1, <3>1 DEF Fits
    <3>. QED
      BY <2>1, <3>1, <3>2, <3>3
  <2>2. ASSUME NEW o \in Live, objects[o].refs = 0 PROVE o \in Live' /\ objects'[o].refs = 0
    <3>1. o # parent
      BY <1>1, <2>2 DEF Fits
    <3>. QED
      BY <1>2, <2>2, <3>1
  <2>. QED
    BY <2>1, <2>2, UnreferencedKept
<1>7. InLibrary'
  <2>1. ASSUME NEW u \in Threads, NEW o \in Ids
        PROVE  (pc'[u] = "freed" /\ frame'[u].self = o) <=> (pc[u] = "freed" /\ frame[u].self = o)
    <3>1. pc[t] # "freed"
      BY InCallOrFreeing DEF Running, CallFrame, Inner
    <3>. QED
      BY <3>1 DEF OthersStay
  <2>2. ASSUME NEW o \in Ids \ {n} PROVE HasLibraryObject(o)' <=> HasLibraryObject(o)
    BY <1>2, <2>1 DEF HasLibraryObject, SameObject
  <2>3. HasLibraryObject(n)' <=> kind \notin Sequential
    <3>1. \A u \in Threads : ~(pc[u] = "freed" /\ frame[u].self = n)
      BY <1>3 DEF Running
    <3>. QED
      BY <1>2, <2>1, <3>1 DEF HasLibraryObject
  <2>4. n \notin library
    BY DEF IInv, InLibrary, HasLibraryObject
  <2>. QED
    BY <2>2, <2>3, <2>4 DEF IInv, InLibrary
<1>8. \A u \in Threads : Framed(u)'
  <2>1. \A u \in Threads \ {t} : Framed(u)'
    BY OthersFramed
  <2>. QED
    BY <2>1
<1>9. Alone'
  BY AloneKept
<1>10. VolumeFits'
  <2>1. 1 \notin Live' => volume = "closed" /\ ~handle
    BY <1>2 DEF IInv, VolumeFits
  <2>. QED
    BY <2>1, VolumeKept
<1>11. ReferencesAreCounted'
  <2>1. ASSUME NEW o \in Ids PROVE Holders(o)' = Holders(o)
    <3>1. \A u \in Threads : Holding(u)' <=> Holding(u)
      BY OthersAre
    <3>. QED
      BY <3>1 DEF Holders
  <2>2. Counted(n)'
    <3>1. Holders(n) = {}
      BY <1>3, RunningIs DEF Holders
    <3>2. parent # n
      BY <1>1 DEF Fits
    <3>3. Children(n)' = {}
      BY <1>2, <1>4, <3>2 DEF Children, SameObject
    <3>4. Named(n)' = 1
      BY DEF Named
    <3>. QED
      BY <2>1, <3>1, <3>3, <3>4, FS_EmptySet DEF Counted
  <2>3. ASSUME NEW o \in Live PROVE Counted(o)'
    <3>1. o \in Ids /\ o # n /\ Counted(o)
      BY CountedIs DEF IInv, Live
    <3>2. Named(o)' = Named(o) /\ Named(o) \in {0, 1} /\ objects[o].refs \in Nat
      BY <3>1 DEF Named, IInv, TypeOK, Object
    <3>3. Cardinality(Holders(o)) \in Nat /\ Holders(o)' = Holders(o)
      BY <2>1, <3>1, CountsAreNumbers DEF IInv
    <3>4. /\ Cardinality(Children(o)) \in Nat /\ Cardinality(Children(o)') \in Nat
          /\ n \in Children(o) <=> n \in Children(o)' => Cardinality(Children(o)') = Cardinality(Children(o))
          /\ n \in Children(o)' /\ n \notin Children(o) => Cardinality(Children(o)') = Cardinality(Children(o)) + 1
      <4>1. \A q \in Ids \ {n} : q \in Live <=> q \in Live'
        BY <1>2
      <4>2. \A q \in Live \ {n} : objects'[q].parent = objects[q].parent
        BY DEF SameObject
      <4>. QED
        BY <3>1, <4>1, <4>2, ChildrenMove
    <3>5. n \notin Children(o) /\ (n \in Children(o)' <=> parent = o)
      BY <1>2 DEF Children
    <3>6. parent = o => n # 1
      BY <1>1 DEF Fits
    <3>7. parent = o => objects'[o].refs = objects[o].refs + 1
      BY <3>6
    <3>8. parent # o => objects'[o].refs = objects[o].refs
      OBVIOUS
    <3>9. Cardinality(Holders(o)') = Cardinality(Holders(o))
      BY <3>3
    <3>. QED
      BY <3>1, <3>2, <3>3, <3>4, <3>5, <3>7, <3>8, <3>9 DEF Counted
  <2>. QED
    BY <1>2, <2>2, <2>3, FileStays, CountedNext
<1>12. NothingStaleIsUsed'
  BY DEF IInv, NothingStaleIsUsed
<1>. QED
  BY <1>5, <1>6, <1>7, <1>8, <1>9, <1>10, <1>11, <1>12 DEF IInv

LEMMA MakerIs ==
  ASSUME IInv, NEW t \in Threads, pc[t] = "back", frame[t].op \in {"entry", "attribute", "next", "item"} \cup Sequential,
         Goto(t, "decref"), UNCHANGED frame
  PROVE  /\ frame[t].self \in Live /\ frame[t].self \in Ids /\ objects[frame[t].self].refs >= 1
         /\ CallFrame(t)
         /\ \A u \in Threads : ~Changing(u)
         /\ OthersStay(t) /\ pc'[t] = "decref" /\ pc' \in [Threads -> Steps]
         /\ InCall(t) /\ InCall(t)' /\ ~Freeing(t) /\ ~Freeing(t)' /\ Holding(t) /\ Holding(t)' /\ ~Changing(t)'
<1>1. pc'[t] = "decref" /\ OthersStay(t) /\ pc' \in [Threads -> Steps]
  BY GotoIs DEF OthersStay, Goto, IInv, TypeOK, Steps, PythonSteps
<1>2. Running(t) /\ InCall(t) /\ ~Freeing(t) /\ Holding(t) /\ ~Changing(t)
  BY DEF Running, InCall, Freeing, Holding, Changing, Changes, Sequential
<1>3. InCall(t)' /\ ~Freeing(t)' /\ Holding(t)' /\ ~Changing(t)'
  BY <1>1 DEF Running, InCall, Freeing, Holding, Changing, Changes, Sequential
<1>4. \A u \in Threads : ~Changing(u)
  BY <1>2, ChangingIsAlone
<1>5. CallFrame(t)
  BY <1>2 DEF IInv, Framed
<1>. QED
  BY <1>1, <1>2, <1>3, <1>4, <1>5, RunningIs

LEMMA MakerStays ==
  ASSUME IInv, NEW t \in Threads, pc[t] = "back", frame[t].op \in {"entry", "attribute", "next", "item"} \cup Sequential,
         Goto(t, "decref"), UNCHANGED frame, SameObject(frame[t].self)
  PROVE  Framed(t)'
<1>1. /\ frame[t].self \in Live
      /\ CallFrame(t) /\ pc'[t] = "decref" /\ InCall(t)' /\ ~Freeing(t)'
  BY MakerIs
<1>2. frame[t].self \in Live'
  BY <1>1, SameIsLive
<1>3. CallFrame(t)'
  BY <1>1 DEF CallFrame, Callee, SameObject
<1>. QED
  BY <1>1, <1>2, <1>3 DEF Framed, Sequential

(* What was given becomes an object: its parent is the volume, or the file *)
(* entry of the attribute.                                                 *)
LEMMA MadeFits ==
  ASSUME IInv, NEW t \in Threads, Back(t, {"entry", "attribute", "next", "item"}, "ok"),
         Goto(t, "decref"), UNCHANGED frame, NEW n \in Ids \ Live
  PROVE  LET kind == Asked(frame[t])
         IN  kind \in {"entry", "attribute"} /\ Fits(n, kind, Parent(kind, frame[t].target), frame[t].target)
<1> DEFINE f == frame[t]
           kind == Asked(f)
           p == Parent(kind, f.target)
<1>1. pc[t] = "back" /\ f.op \in {"entry", "attribute", "next", "item"} /\ f.result = "ok"
  BY DEF Back, Has
<1>2. f.self \in Live /\ f.self \in Ids /\ objects[f.self].refs >= 1 /\ CallFrame(t)
  BY <1>1, MakerIs
<1>3. kind \in {"entry", "attribute"} /\ volume # "closed"
  <2>1. kind \in {"entry", "attribute"}
    BY <1>1, AskedIs
  <2>. QED
    BY <1>1, <1>2, <2>1 DEF CallFrame
<1>4. f.target \in Live /\ objects[f.target].kind \in {"volume", "entry"} /\ objects[f.target].refs >= 1
      /\ (kind = "attribute" => objects[f.target].kind = "entry")
  <2>1. CASE f.op \in {"next", "item"}
    <3>1. objects[f.self].kind \in Sequential /\ f.target = objects[f.self].parent
      BY <1>2, <2>1 DEF CallFrame, Callee
    <3>2. f.self # 1 /\ objects[f.self].kind # "entry"
      BY <1>2, <3>1, ParentsAre DEF Sequential
    <3>3. f.target \in Live /\ objects[f.target].kind = "entry"
      BY <1>2, <3>1, <3>2, ParentsAre
    <3>. QED
      BY <1>2, <3>1, <3>3, ReferencedHasCount
  <2>2. CASE f.op \in {"entry", "attribute"}
    <3>1. f.target = f.self /\ kind = f.op
      BY <1>2, <2>2, AskedIs DEF CallFrame
    <3>2. f.op = "entry" => objects[f.self].kind \in {"volume", "entry"}
      BY <1>2 DEF CallFrame, Callee
    <3>3. f.op = "attribute" => objects[f.self].kind = "entry"
      BY <1>2 DEF CallFrame, Callee
    <3>. QED
      BY <1>2, <2>2, <3>1, <3>2, <3>3
  <2>. QED
    BY <1>1, <2>1, <2>2
<1>5. 1 \in Live /\ n # 1 /\ n # 0 /\ 1 \in Ids /\ 0 \notin Live
  BY <1>4, ParentsAre, Parameters DEF Live
<1>6. CASE kind = "attribute"
  <2>1. p = f.target
    BY <1>6 DEF Parent
  <2>. QED
    BY <1>3, <1>4, <1>5, <1>6, <2>1 DEF Fits, Kinds, Sequential
<1>7. CASE kind = "entry"
  <2>1. p = 1
    <3>1. CASE objects[f.target].kind = "volume"
      BY <1>4, <1>7, <3>1, ParentsAre DEF Parent
    <3>2. CASE objects[f.target].kind = "entry"
      BY <1>4, <1>7, <3>2, ParentsAre DEF Parent
    <3>. QED
      BY <1>4, <3>1, <3>2
  <2>2. objects[1].refs >= 1
    <3>1. CASE f.target = 1
      BY <1>4, <3>1
    <3>2. CASE f.target # 1
      <4>1. objects[f.target].parent = 1
        BY <1>4, <3>2, ParentsAre
      <4>. QED
        BY <1>4, <1>5, <4>1, ReferencedHasCount
    <3>. QED
      BY <3>1, <3>2
  <2>. QED
    BY <1>3, <1>5, <1>7, <2>1, <2>2 DEF Fits, Kinds, Sequential
<1>. QED
  BY <1>3, <1>6, <1>7

(* The table with a new object, and the reference to its parent.           *)
Grown(table, n, kind, parent, of) ==
  IncRef([table EXCEPT ![n] = [NoObject EXCEPT !.kind = kind, !.parent = parent, !.of = of, !.refs = 1]], parent)

LEMMA GrownIs ==
  ASSUME NEW table \in [Ids -> Object], NEW n \in Ids, NEW kind \in Kinds,
         NEW parent \in Ids \cup {0}, parent # n, NEW of \in Ids \cup {0}
  PROVE  LET new == Grown(table, n, kind, parent, of)
         IN  /\ new \in [Ids -> Object]
             /\ new[n].kind = kind /\ new[n].parent = parent /\ new[n].of = of /\ new[n].refs = 1
             /\ \A q \in Ids \ {n} : /\ new[q].kind = table[q].kind /\ new[q].parent = table[q].parent
                                     /\ new[q].of = table[q].of
                                     /\ q # parent => new[q].refs = table[q].refs
             /\ parent # 0 => new[parent].refs = table[parent].refs + 1
<1> DEFINE row == [NoObject EXCEPT !.kind = kind, !.parent = parent, !.of = of, !.refs = 1]
           wider == [table EXCEPT ![n] = row]
<1>1. /\ row \in Object
      /\ row.kind = kind /\ row.parent = parent /\ row.of = of /\ row.refs = 1
  BY DEF NoObject, Object
<1>2. wider \in [Ids -> Object] /\ wider[n] = row /\ \A q \in Ids \ {n} : wider[q] = table[q]
  BY <1>1
<1> DEFINE grown == Grown(table, n, kind, parent, of)
<1>3. grown = IncRef(wider, parent)
  BY DEF Grown
<1>. SUFFICES
       /\ grown \in [Ids -> Object]
       /\ grown[n].kind = kind /\ grown[n].parent = parent /\ grown[n].of = of /\ grown[n].refs = 1
       /\ \A q \in Ids \ {n} : /\ grown[q].kind = table[q].kind /\ grown[q].parent = table[q].parent
                               /\ grown[q].of = table[q].of
                               /\ q # parent => grown[q].refs = table[q].refs
       /\ parent # 0 => grown[parent].refs = table[parent].refs + 1
  OBVIOUS
<1>. HIDE DEF wider, row, grown
<1>4. CASE parent = 0
  <2>1. grown = wider
    BY <1>3, <1>4 DEF IncRef
  <2>. QED
    BY <1>1, <1>2, <1>4, <2>1
<1>5. CASE parent # 0
  <2>1. parent \in Ids
    BY <1>5
  <2>2. /\ IncRef(wider, parent) \in [Ids -> Object]
        /\ IncRef(wider, parent)[parent].refs = wider[parent].refs + 1
        /\ \A q \in Ids \ {parent} : IncRef(wider, parent)[q] = wider[q]
        /\ \A q \in Ids : /\ IncRef(wider, parent)[q].kind = wider[q].kind
                          /\ IncRef(wider, parent)[q].parent = wider[q].parent
                          /\ IncRef(wider, parent)[q].of = wider[q].of
    BY <1>2, <2>1, IncRefIs
  <2>3. /\ grown \in [Ids -> Object]
        /\ grown[parent].refs = table[parent].refs + 1
        /\ \A q \in Ids \ {parent} : grown[q] = wider[q]
    BY <1>2, <1>3, <2>1, <2>2
  <2>4. \A q \in Ids : grown[q].kind = wider[q].kind /\ grown[q].parent = wider[q].parent /\ grown[q].of = wider[q].of
    BY <1>3, <2>2
  <2>5. grown[n].kind = kind /\ grown[n].parent = parent /\ grown[n].of = of /\ grown[n].refs = 1
    BY <1>1, <1>2, <2>3
  <2>6. \A q \in Ids \ {n} : /\ grown[q].kind = table[q].kind /\ grown[q].parent = table[q].parent
                             /\ grown[q].of = table[q].of
                             /\ q # parent => grown[q].refs = table[q].refs
    BY <1>2, <2>3, <2>4
  <2>. QED
    BY <2>3, <2>5, <2>6
<1>. QED
  BY <1>4, <1>5

LEMMA AdvancedIs ==
  ASSUME NEW table \in [Ids -> Object], NEW f, f.self \in Ids
  PROVE  /\ Advanced(table, f) \in [Ids -> Object]
         /\ \A q \in Ids : /\ Advanced(table, f)[q].kind = table[q].kind
                           /\ Advanced(table, f)[q].parent = table[q].parent
                           /\ Advanced(table, f)[q].of = table[q].of
                           /\ Advanced(table, f)[q].refs = table[q].refs
  BY DEF Advanced, Object

LEMMA NextIsNotLive ==
  ASSUME NEW n, IsNext(n)
  PROVE  n \in Ids \ Live
  BY DEF IsNext, Live

LEMMA MakeKeeps ==
  ASSUME IInv, NEW t \in Threads, Make(t)
  PROVE  IInv'
<1> DEFINE f == frame[t]
<1>1. /\ UNCHANGED <<gil, volume, handle, file, lock, frame, calls, stale>>
      /\ loose' = loose - 1 /\ Goto(t, "decref")
      /\ pc[t] = "back" /\ f.op \in {"entry", "attribute", "next", "item"} /\ f.result = "ok"
      /\ Back(t, {"entry", "attribute", "next", "item"}, "ok")
  BY DEF Make, Back, Has
<1>2. PICK n, kind, parent, of :
        /\ n \in Ids /\ IsNext(n)
        /\ kind = Asked(f) /\ parent = Parent(kind, f.target) /\ of = f.target
        /\ objects' = IncRef(Advanced([objects EXCEPT ![n] =
                        [NoObject EXCEPT !.kind = kind, !.parent = parent, !.of = of, !.refs = 1]], f), parent)
        /\ names' = names \cup {n} /\ library' = library \cup {n}
  BY DEF Make
<1>3. n \in Ids \ Live
  BY <1>2, NextIsNotLive
<1>4. kind \in {"entry", "attribute"} /\ Fits(n, kind, parent, of)
  BY <1>1, <1>2, <1>3, MadeFits
<1>5. /\ f.self \in Live /\ f.self \in Ids /\ CallFrame(t)
      /\ \A u \in Threads : ~Changing(u)
      /\ OthersStay(t) /\ pc'[t] = "decref" /\ pc' \in [Threads -> Steps]
      /\ ~Freeing(t) /\ ~Freeing(t)' /\ Holding(t) /\ Holding(t)' /\ ~Changing(t)'
  BY <1>1, MakerIs
<1>6. n # 1 /\ parent \in Live /\ parent \in Ids /\ parent # n /\ parent # 0 /\ of \in Ids \cup {0} /\ kind \in Kinds
      /\ kind \notin Sequential
  <2>1. n # 1 /\ parent \in Live
    BY <1>4 DEF Fits
  <2>2. of \in Ids \cup {0}
    BY <1>2 DEF IInv, TypeOK, Frame
  <2>. QED
    BY <1>3, <1>4, <2>1, <2>2, Parameters DEF Live, Kinds, Sequential
<1> DEFINE row == [NoObject EXCEPT !.kind = kind, !.parent = parent, !.of = of, !.refs = 1]
           table == Advanced(objects, f)
<1>7. objects' = Grown(table, n, kind, parent, of)
  <2>1. f.self # n
    BY <1>3, <1>5
  <2>2. Advanced([objects EXCEPT ![n] = row], f) = [table EXCEPT ![n] = row]
    BY <1>3, <1>5, <2>1 DEF Advanced, IInv, TypeOK
  <2>. QED
    BY <1>2, <2>2 DEF Grown
<1>8. /\ table \in [Ids -> Object]
      /\ \A q \in Ids : /\ table[q].kind = objects[q].kind /\ table[q].parent = objects[q].parent
                        /\ table[q].of = objects[q].of /\ table[q].refs = objects[q].refs
  BY <1>5, AdvancedIs DEF IInv, TypeOK
<1>. HIDE DEF table
<1>9. /\ objects' \in [Ids -> Object]
      /\ objects'[n].kind = kind /\ objects'[n].parent = parent /\ objects'[n].of = of /\ objects'[n].refs = 1
      /\ \A q \in Ids \ {n} : /\ objects'[q].kind = table[q].kind /\ objects'[q].parent = table[q].parent
                              /\ objects'[q].of = table[q].of
                              /\ q # parent => objects'[q].refs = table[q].refs
      /\ objects'[parent].refs = table[parent].refs + 1
  BY <1>3, <1>6, <1>7, <1>8, GrownIs
<1>10. /\ \A q \in Live : SameObject(q)
       /\ \A q \in Live \ {parent} : objects'[q].refs = objects[q].refs
       /\ objects'[parent].refs = objects[parent].refs + 1
       /\ \A q \in Ids \ (Live \cup {n}) : objects'[q].kind = objects[q].kind
  BY <1>3, <1>6, <1>8, <1>9 DEF SameObject, Live
<1>11. LooseAreGiven' /\ loose' \in Nat
  <2>1. Gave(t) /\ ~Gave(t)'
    BY <1>1, <1>2, <1>4, <1>5 DEF Gave
  <2>2. loose' \in Int
    BY <1>1 DEF IInv, TypeOK
  <2>. QED
    BY <1>1, <1>5, <1>10, <2>1, <2>2, LooseMoves
<1>12. TypeOK'
  BY <1>1, <1>2, <1>5, <1>9, <1>11 DEF IInv, TypeOK, Steps
<1>13. Framed(t)'
  BY <1>1, <1>5, <1>10, MakerStays
<1>14. names' = names \cup {n} /\ library' = IF kind \in Sequential THEN library ELSE library \cup {n}
  BY <1>2, <1>6
<1>15. UNCHANGED <<volume, handle, file, stale, frame>>
  BY <1>1
<1>16. objects'[n].kind = kind /\ objects'[n].parent = parent /\ objects'[n].of = of /\ objects'[n].refs = 1
  BY <1>9
<1>. QED
  BY <1>3, <1>4, <1>5, <1>10, <1>11, <1>12, <1>13, <1>14, <1>15, <1>16, NewKeeps

LEMMA MakeSequenceKeeps ==
  ASSUME IInv, NEW t \in Threads, MakeSequence(t)
  PROVE  IInv'
<1>1. /\ UNCHANGED <<gil, library, loose, volume, handle, file, lock, frame, calls, stale>>
      /\ Goto(t, "decref")
      /\ pc[t] = "back" /\ frame[t].op \in Sequential /\ frame[t].result = "ok"
  BY DEF MakeSequence, Back, Has, clibrary
<1>2. PICK n, kind, parent :
        /\ n \in Ids /\ IsNext(n) /\ kind = frame[t].op /\ parent = frame[t].self
        /\ objects' = IncRef([objects EXCEPT ![n] =
                        [NoObject EXCEPT !.kind = kind, !.parent = parent, !.of = 0, !.refs = 1]], parent)
        /\ names' = names \cup {n}
  BY DEF MakeSequence, New
<1>3. n \in Ids \ Live
  BY <1>2, NextIsNotLive
<1>4. /\ parent \in Live /\ parent \in Ids /\ objects[parent].refs >= 1 /\ CallFrame(t)
      /\ \A u \in Threads : ~Changing(u)
      /\ OthersStay(t) /\ pc'[t] = "decref" /\ pc' \in [Threads -> Steps]
      /\ ~Freeing(t) /\ ~Freeing(t)' /\ Holding(t) /\ Holding(t)' /\ ~Changing(t)'
  BY <1>1, <1>2, MakerIs
<1>5. kind \in Sequential /\ objects[parent].kind = "entry" /\ parent # n
  BY <1>1, <1>2, <1>3, <1>4 DEF CallFrame, Callee
<1>6. Fits(n, kind, parent, 0)
  <2>1. parent # 1
    BY <1>4, <1>5, ParentsAre
  <2>2. 1 \in Live /\ volume # "closed"
    BY <1>4, <2>1 DEF IInv, Family
  <2>. QED
    BY <1>3, <1>4, <1>5, <2>2, Parameters DEF Fits, Kinds, Sequential
<1>7. /\ objects' \in [Ids -> Object]
      /\ objects'[n].kind = kind /\ objects'[n].parent = parent /\ objects'[n].of = 0 /\ objects'[n].refs = 1
      /\ \A q \in Ids \ {n} : /\ objects'[q].kind = objects[q].kind /\ objects'[q].parent = objects[q].parent
                              /\ objects'[q].of = objects[q].of
                              /\ q # parent => objects'[q].refs = objects[q].refs
      /\ objects'[parent].refs = objects[parent].refs + 1
  <2>1. objects \in [Ids -> Object] /\ kind \in Kinds /\ parent # 0
    BY <1>4, <1>5, Parameters DEF IInv, TypeOK, Kinds
  <2>2. objects' = Grown(objects, n, kind, parent, 0)
    BY <1>2 DEF Grown
  <2>. QED
    BY <1>3, <1>4, <1>5, <2>1, <2>2, GrownIs
<1>8. /\ \A q \in Live : SameObject(q)
      /\ \A q \in Live \ {parent} : objects'[q].refs = objects[q].refs
      /\ \A q \in Ids \ (Live \cup {n}) : objects'[q].kind = objects[q].kind
  BY <1>3, <1>7 DEF SameObject, Live
<1>9. LooseAreGiven'
  <2>1. ~Gave(t) /\ ~Gave(t)' /\ loose' \in Int
    BY <1>1, <1>4, AskedIs DEF Gave, Sequential, IInv, TypeOK
  <2>. QED
    BY <1>1, <1>4, <1>8, <2>1, LooseMoves
<1>10. TypeOK'
  BY <1>1, <1>2, <1>4, <1>7 DEF IInv, TypeOK, Steps
<1>11. Framed(t)'
  BY <1>1, <1>2, <1>4, <1>8, MakerStays
<1>12. library' = IF kind \in Sequential THEN library ELSE library \cup {n}
  BY <1>1, <1>5
<1>. QED
  BY <1>1, <1>2, <1>3, <1>4, <1>6, <1>7, <1>8, <1>9, <1>10, <1>11, <1>12, NewKeeps

LEMMA VolumeInitKeeps ==
  ASSUME IInv, NEW t \in Threads, VolumeInit(t)
  PROVE  IInv'
<1>1. /\ UNCHANGED <<gil, loose, volume, handle, file, lock, pc, frame, calls, stale>>
      /\ pc[t] = "python" /\ library' = library \cup {1} /\ IsNext(1) /\ names' = names \cup {1}
      /\ objects' = IncRef([objects EXCEPT ![1] =
                      [NoObject EXCEPT !.kind = "volume", !.parent = 0, !.of = 0, !.refs = 1]], 0)
  BY DEF VolumeInit, New, Has
<1>2. 1 \in Ids \ Live
  BY <1>1, NextIsNotLive
<1>3. Live = {}
  BY <1>2, ParentsAre
<1>4. \A u \in Threads : ~Running(u)
  BY <1>3, RunningIs
<1>5. /\ \A u \in Threads : ~Changing(u) /\ ~Changing(u)' /\ ~Freeing(u) /\ ~Freeing(u)' /\ ~Running(u)'
      /\ Holding(t)' <=> Holding(t)
      /\ OthersStay(t)
  BY <1>1, <1>4 DEF Changing, InCall, Freeing, Running, Holding, OthersStay
<1>6. Fits(1, "volume", 0, 0)
  BY DEF Fits, Kinds, Sequential
<1>7. /\ objects' \in [Ids -> Object]
      /\ objects'[1].kind = "volume" /\ objects'[1].parent = 0 /\ objects'[1].of = 0 /\ objects'[1].refs = 1
      /\ \A q \in Ids \ {1} : objects'[q].kind = objects[q].kind
  <2>1. objects \in [Ids -> Object] /\ "volume" \in Kinds
    BY DEF IInv, TypeOK, Kinds
  <2>2. objects' = Grown(objects, 1, "volume", 0, 0)
    BY <1>1 DEF Grown
  <2>. QED
    BY <1>2, <2>1, <2>2, GrownIs
<1>8. TypeOK' /\ Framed(t)'
  BY <1>1, <1>2, <1>5, <1>7 DEF IInv, TypeOK, Framed
<1>9. LooseAreGiven'
  <2>1. ~Gave(t) /\ ~Gave(t)' /\ loose' \in Int
    BY <1>1 DEF Gave, IInv, TypeOK
  <2>. QED
    BY <1>1, <1>3, <1>5, <2>1, LooseMoves
<1>10. library' = IF "volume" \in Sequential THEN library ELSE library \cup {1}
  BY <1>1 DEF Sequential
<1>. QED
  BY <1>1, <1>2, <1>3, <1>5, <1>6, <1>7, <1>8, <1>9, <1>10, NewKeeps

------------------------------------------------------------------------------
(* The whole program                                                       *)

LEMMA InitInductive == Init => IInv
<1>. SUFFICES ASSUME Init PROVE IInv
  OBVIOUS
<1>1. Live = {} /\ \A t \in Threads : pc[t] = "python"
  BY DEF Init, Live, NoObject
<1>2. TypeOK
  <2>1. objects \in [Ids -> Object]
    BY DEF Init, Object, NoObject
  <2>2. frame \in [Threads -> Frame]
    BY DEF Init, Frame, NoFrame, Operation
  <2>3. calls \in 0 .. MaxCalls
    BY PyfsxfsAssumption DEF Init
  <2>4. lock \in [Ids -> Threads \cup {NoThread}] /\ gil \in Threads \cup {NoThread}
    BY DEF Init
  <2>5. pc \in [Threads -> PythonSteps \cup {"ended", "library", "inside", "cfree"}]
    BY DEF Init, PythonSteps
  <2>. QED
    BY <2>1, <2>2, <2>3, <2>4, <2>5 DEF Init, TypeOK
<1>3. \A t \in Threads : ~Running(t) /\ ~Changing(t) /\ ~Freeing(t)
  BY <1>1 DEF Running, Changing, InCall, Freeing
<1>4. Family /\ Unreferenced /\ Alone
  BY <1>1, <1>3 DEF Init, Family, Unreferenced, Alone
<1>5. InLibrary
  BY <1>1 DEF Init, InLibrary, HasLibraryObject
<1>6. \A t \in Threads : Framed(t)
  BY <1>3 DEF Framed
<1>7. VolumeFits
  BY <1>3 DEF Init, VolumeFits, Settled
<1>8. LooseAreGiven
  <2>1. {t \in Threads : Gave(t)} = {}
    BY <1>1 DEF Gave
  <2>. QED
    BY <2>1, FS_EmptySet DEF Init, LooseAreGiven
<1>9. ReferencesAreCounted /\ NothingStaleIsUsed
  <2>1. FileCounted
    BY DEF Init, FileCounted
  <2>. QED
    BY <1>1, <2>1, CountedIs DEF Init, NothingStaleIsUsed
<1>. QED
  BY <1>2, <1>4, <1>5, <1>6, <1>7, <1>8, <1>9 DEF IInv

LEMMA StutteringKeeps ==
  ASSUME IInv, UNCHANGED vars
  PROVE  IInv'
<1>1. TypeOK' /\ Family' /\ Unreferenced' /\ InLibrary'
  BY DEF IInv, vars, TypeOK, Family, Unreferenced, InLibrary, HasLibraryObject, Live, Freeing, Running
<1>2. \A t \in Threads : Framed(t)'
  BY FramedKept DEF IInv, vars, SameObject
<1>3. Alone' /\ VolumeFits'
  BY DEF IInv, vars, Alone, VolumeFits, Changing, InCall, Freeing, Running, Live, AtChange, Opening, Settled
<1>4. LooseAreGiven' /\ ReferencesAreCounted' /\ NothingStaleIsUsed'
  <2>1. \A t \in Threads : Gave(t)' <=> Gave(t)
    BY DEF vars, Gave, Asked
  <2>2. {t \in Threads : Gave(t)}' = {t \in Threads : Gave(t)}
    BY <2>1
  <2>. QED
    BY <2>2 DEF IInv, vars, LooseAreGiven, ReferencesAreCounted, NothingStaleIsUsed, Live, Holding
<1>. QED
  BY <1>1, <1>2, <1>3, <1>4 DEF IInv

LEMMA NextInductive ==
  ASSUME Disciplined, IInv, [Next]_vars
  PROVE  IInv'
<1>1. CASE UNCHANGED vars
  BY <1>1, StutteringKeeps
<1>2. ASSUME NEW t \in Threads, TakeGil(t) PROVE IInv'
  BY <1>2, TakeGilKeeps
<1>3. ASSUME NEW t \in Threads, Program(t) PROVE IInv'
  BY <1>3, VolumeInitKeeps, DropKeeps, DropFileKeeps, LeaveKeeps, CallsKeep DEF Program
<1>4. ASSUME NEW t \in Threads, Continue(t) PROVE IInv'
  <2>1. CASE SequenceFree(t) \/ EntryFree(t) \/ VolumeFree(t) \/ LibraryFree(t) \/ Freed(t) \/ DecRef(t)
    BY <2>1, DecRefKeeps, GoneKeeps, FreeBegins, LibraryFreeKeeps
  <2>2. CASE Enter(t) \/ Callback(t) \/ Leave(t)
    BY <2>2, EnterKeeps, CallbackKeeps, LeaveLibraryKeeps
  <2>3. CASE Raise(t) \/ GiveValue(t) \/ OpenFileObjectFails(t) \/ Make(t) \/ MakeFails(t) \/ MakeSequence(t)
    BY <2>3, ReturnKeeps, OpenFileObjectFailsKeeps, MakeKeeps, MakeFailsKeeps, MakeSequenceKeeps
  <2>4. CASE CloseBack(t) \/ HandleFree(t) \/ Closed(t)
    BY <2>4, CloseBackKeeps, HandleFreeKeeps
  <2>. QED
    BY <1>4, <2>1, <2>2, <2>3, <2>4 DEF Continue
<1>. QED
  BY <1>1, <1>2, <1>3, <1>4 DEF Next

(* Of any number of threads of a disciplined program, in any order: the    *)
(* invariant of the binding.                                               *)
THEOREM Safety ==
  ASSUME Disciplined
  PROVE  Spec => []IInv
<1>1. Init => IInv
  BY InitInductive
<1>2. IInv /\ [Next]_vars => IInv'
  BY NextInductive
<1>. QED
  BY <1>1, <1>2, PTL DEF Spec

(* Threads, objects, frames and the state of the volume keep their types.  *)
THEOREM TypeCorrect ==
  ASSUME Disciplined
  PROVE  Spec => []TypeOK
<1>1. IInv => TypeOK
  BY DEF IInv
<1>. QED
  BY <1>1, Safety, PTL

(* Every object counts its name, the frames of the calls on it and the     *)
(* objects whose parent it is; the file object counts its name and its     *)
(* handle.                                                                 *)
THEOREM CountsAreRight ==
  ASSUME Disciplined
  PROVE  Spec => []ReferencesAreCounted
<1>1. IInv => ReferencesAreCounted
  BY DEF IInv
<1>. QED
  BY <1>1, Safety, PTL

(* No call of any thread works on an object of the library that was freed, *)
(* on a volume that was closed or through a handle that is gone.           *)
THEOREM NothingStale ==
  ASSUME Disciplined
  PROVE  Spec => []NothingStaleIsUsed
<1>1. IInv => NothingStaleIsUsed
  BY DEF IInv
<1>. QED
  BY <1>1, Safety, PTL

(* Without a name and outside of calls nothing has a reference.            *)
LEMMA NothingIsLeft ==
  ASSUME IInv, names = {}, \A t \in Threads : pc[t] \in {"python", "ended"}
  PROVE  Live = {}
<1>1. \A t \in Threads : ~Running(t)
  BY DEF Running
<1>2. ASSUME NEW o \in Live PROVE \E q \in Live : objects[q].parent = o
  <2>1. o \in Ids /\ Counted(o)
    BY CountedIs DEF IInv, Live
  <2>2. objects[o].refs # 0
    BY <1>1 DEF IInv, Unreferenced, Freeing
  <2>3. Named(o) = 0 /\ Holders(o) = {}
    BY <1>1 DEF Named, Holders, Holding, Running
  <2>4. Children(o) # {}
    BY <2>1, <2>2, <2>3, FS_EmptySet DEF Counted
  <2>. QED
    BY <2>4 DEF Children
<1>3. ASSUME NEW q \in Live, objects[q].parent \in Live
      PROVE  objects[q].parent = 1 \/ objects[objects[q].parent].kind = "entry"
  <2>1. q # 1
    BY <1>3, Parameters DEF IInv, Family, Live
  <2>. QED
    BY <2>1, ParentsAre
<1>4. \A o \in Live : o = 1 \/ objects[o].kind = "entry"
  BY <1>2, <1>3
<1>5. \A o \in Live : objects[o].kind # "entry"
  <2>1. ASSUME NEW o \in Live, objects[o].kind = "entry" PROVE FALSE
    <3>1. PICK q \in Live : objects[q].parent = o
      BY <1>2
    <3>2. o # 1
      BY <2>1, ParentsAre
    <3>3. q # 1
      <4>1. objects[1].parent = 0 \/ 1 \notin Live
        BY DEF IInv, Family
      <4>2. o # 0
        BY Parameters DEF Live
      <4>. QED
        BY <3>1, <4>1, <4>2
    <3>4. objects[q].kind = "entry"
      BY <1>4, <3>3
    <3>. QED
      BY <3>1, <3>2, <3>4, ParentsAre
  <2>. QED
    BY <2>1
<1>6. \A o \in Live : o = 1
  BY <1>4, <1>5
<1>7. ASSUME 1 \in Live PROVE FALSE
  <2>1. objects[1].parent = 1
    BY <1>2, <1>6, <1>7
  <2>2. objects[1].parent = 0
    BY <1>7 DEF IInv, Family
  <2>. QED
    BY <2>1, <2>2
<1>. QED
  BY <1>6, <1>7

(* A program that has dropped its names and runs no call has given back    *)
(* every object, those of the library with them; its volume is closed and  *)
(* the handle of the file object gone.                                     *)
THEOREM GivenBack ==
  ASSUME Disciplined
  PROVE  Spec => []EverythingIsGivenBack
<1>1. ASSUME IInv PROVE EverythingIsGivenBack
  <2>1. loose = Cardinality({t \in Threads : pc[t] = "back" /\ frame[t].result = "ok" /\ Asked(frame[t]) # "none"})
    BY <1>1 DEF IInv, LooseAreGiven, Gave
  <2>2. ASSUME names = {}, \A t \in Threads : pc[t] \in {"python", "ended"}
        PROVE  Live = {} /\ library = {} /\ ~handle /\ volume = "closed"
    <3>1. Live = {}
      BY <1>1, <2>2, NothingIsLeft
    <3>2. library = {}
      BY <1>1, <3>1 DEF IInv, InLibrary, HasLibraryObject, TypeOK
    <3>. QED
      BY <1>1, <3>1, <3>2 DEF IInv, VolumeFits
  <2>. QED
    BY <2>1, <2>2 DEF EverythingIsGivenBack
<1>. QED
  BY <1>1, Safety, PTL

===============================================================================
