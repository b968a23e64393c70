--------------------------- MODULE PathLookup_proofs ---------------------------
(***************************************************************************)
(* What a lookup by path returns and what it gives back, for every path in *)
(* every tree of directories, damaged ones included; and behind it what    *)
(* the read of one directory (module Directory) lists and leaves.          *)
(***************************************************************************)
EXTENDS PathLookup, Directory, Flattening

(* A directory gives one of its own entries or none.                       *)
LEMMA EntryIsListed ==
  ASSUME NEW s \in Seq(Entry), NEW name
  PROVE  EntryOf(s, name) \in Entry \cup {NoEntry}
<1> DEFINE k == SelectInSeq(s, LAMBDA e : e.name = name)
           I == {j \in 1 .. Len(s) : s[j].name = name}
<1>1. I \in SUBSET Nat /\ I \in SUBSET (1 .. Len(s))
  OBVIOUS
<1>2. k = IF I # {} THEN Min(I) ELSE 0
  BY DEF SelectInSeq
<1>3. EntryOf(s, name) = IF k = 0 THEN NoEntry ELSE s[k]
  BY DEF EntryOf
<1>. HIDE DEF k, I
<1>4. k = 0 \/ k \in 1 .. Len(s)
  BY <1>1, <1>2, LeastExists
<1>5. k \in 1 .. Len(s) => s[k] \in Entry
  BY <1>1
<1>. QED
  BY <1>3, <1>4, <1>5
------------------------------------------------------------------------------

(* Where the walk is: what the length of a segment is subtracted from is   *)
(* not smaller, and a directory and an inode are held where they are used. *)
Walk ==
  /\ pc = "directory" => next <= Len(path)
  /\ pc \in {"segment", "lookup"} => length <= next /\ directory \in Inodes
  /\ pc \in {"loop", "directory", "segment", "lookup"} => inode = number
  /\ pc \in {"end", "close", "return"} /\ result # 0 => inode = number
  /\ pc \in {"close", "return"} /\ result # 0 => clone = entry

(* The number is that of the entry, or of the root before the first entry. *)
OneFile == IF entry = NoEntry THEN number = Root ELSE entry.inode = number

(* Memory holds what the pointers point to: a pointer is null where it is  *)
(* assigned, and where the call returns without what it pointed to.        *)
Counted ==
  /\ allocated = [directory |-> HeldBy(directory, NoInode), inode |-> HeldBy(inode, NoInode),
                  clone |-> HeldBy(clone, NoEntry)]
  /\ pc \in {"directory", "return"} \/ Finished => directory = NoInode
  /\ pc \in {"inode", "error", "not found"} => inode = NoInode
  /\ pc \notin {"close", "return", "found"} => clone = NoEntry
  /\ pc \in {"close", "return"} /\ result = 0 => inode = NoInode /\ clone = NoEntry

(* The directory of the last entry is held until the next one is read.     *)
EntryHeld == pc \in {"inode", "loop"} /\ entry # NoEntry => entryLives

(* The input does not change.                                              *)
InputTyped == listing \in Listings /\ path \in Seq(Characters)

(* The inductive invariant.                                                *)
IInv ==
  InputTyped /\ TypeOK /\ Walk /\ OneFile /\ ReturnsOneFile /\ Counted /\ EntryHeld /\ ClonesLiveEntry

(* What a pointer holds is nothing or one.                                 *)
LEMMA HeldIs ==
  ASSUME NEW x, NEW null
  PROVE  /\ HeldBy(x, null) \in {0, 1} /\ HeldBy(null, null) = 0
         /\ x # null => HeldBy(x, null) = 1
  BY DEF HeldBy

LEMMA InitHolds == Init => IInv
<1> SUFFICES ASSUME Init PROVE IInv
  OBVIOUS
<1>. USE DEF Init
<1>1. InputTyped /\ next \in 1 .. Len(path) + 1
  <2>1. path \in Seq(Characters) /\ listing \in Listings
    BY PathLookupAssumption
  <2>2. path # <<>> => Len(path) \in Nat \ {0}
    BY <2>1
  <2>. QED
    BY <2>1, <2>2 DEF InputTyped
<1>2. TypeOK
  <2>1. Len(path) \in Nat
    BY <1>1 DEF InputTyped
  <2>2. allocated \in [directory : Nat, inode : Nat, clone : Nat]
    OBVIOUS
  <2>3. /\ {entry, clone} \subseteq Entry \cup {NoEntry} /\ entryLives \in BOOLEAN
        /\ {directory, inode} \subseteq Inodes \cup {NoInode} /\ number \in Inodes
    BY PathLookupAssumption
  <2>4. /\ next \in 1 .. Len(path) + 1 /\ first \in 0 .. Len(path) /\ length \in 0 .. Len(path) + 1
        /\ result \in {0, 1} /\ pc = "inode"
    BY <1>1, <2>1
  <2>. HIDE DEF Init
  <2>. QED
    BY <2>2, <2>3, <2>4 DEF TypeOK
<1>3. Counted
  BY HeldIs DEF Counted, Finished
<1>. QED
  BY <1>1, <1>2, <1>3
  DEF IInv, Walk, OneFile, ReturnsOneFile, EntryHeld, ClonesLiveEntry

(* The entry of a segment is one of the directory or none.                 *)
LEMMA SegmentTyped ==
  ASSUME IInv, pc = "lookup"
  PROVE  Size \in 0 .. Len(path) + 1 /\ EntryOfSegment \in Entry \cup {NoEntry}
<1>. USE DEF IInv, InputTyped
<1>1. Size \in 0 .. Len(path) + 1
  BY DEF Size, Walk, TypeOK
<1>2. directory \in Inodes
  BY DEF Walk
<1>3. listing[directory] \in Seq(Entry)
  BY <1>2, PathLookupAssumption
<1>. QED
  BY <1>1, <1>3, EntryIsListed DEF EntryOfSegment

(* What the steps do to memory: a pointer that is freed held one object or *)
(* none.                                                                   *)
LEMMA CountedStep ==
  ASSUME IInv, [Next]_vars
  PROVE  Counted'
<1>. USE DEF IInv, InputTyped
<1>1. number \in Inodes /\ NoInode \notin Inodes /\ number # NoInode
  BY PathLookupAssumption DEF TypeOK
<1>2. CASE ReadInode
  <2>1. /\ allocated = [directory |-> HeldBy(directory, NoInode), inode |-> 0,
                        clone |-> HeldBy(clone, NoEntry)]
        /\ clone = NoEntry /\ pc = "inode"
    BY <1>2, HeldIs DEF ReadInode, Counted
  <2>2. /\ allocated' = [allocated EXCEPT !.inode = @ + 1]
        /\ inode' = number /\ UNCHANGED <<directory, clone>> /\ pc' \in {"end", "loop"}
    BY <1>2 DEF ReadInode
  <2>3. HeldBy(inode', NoInode) = 1
    BY <1>1, <2>2, HeldIs
  <2>4. allocated' = [directory |-> HeldBy(directory, NoInode), inode |-> 1,
                      clone |-> HeldBy(clone, NoEntry)]
    BY <2>1, <2>2
  <2>. QED
    BY <2>1, <2>2, <2>3, <2>4 DEF Counted, Finished
<1>3. CASE FreeDirectory
  BY <1>1, <1>3, HeldIs DEF FreeDirectory, Counted, Finished
<1>4. CASE ReadDirectory
  BY <1>1, <1>4, HeldIs DEF ReadDirectory, Counted, Finished, Walk
<1>5. CASE ReadCharacter
  BY <1>5 DEF ReadCharacter, memory, Counted, Finished
<1>6. CASE EndOfPath
  BY <1>6 DEF EndOfPath, memory, Counted, Finished
<1>7. CASE LookUp
  BY <1>7, HeldIs DEF LookUp, Counted, Finished
<1>8. CASE LookUpFails
  BY <1>8 DEF LookUpFails, memory, Counted, Finished
<1>9. CASE EndOfSegments
  BY <1>9 DEF EndOfSegments, memory, Counted, Finished
<1>10. CASE FreeInode
  BY <1>10, HeldIs DEF FreeInode, Counted, Finished
<1>11. CASE CloneEntry
  BY <1>11, HeldIs DEF CloneEntry, Counted, Finished
<1>12. CASE CloseDirectory
  BY <1>12, HeldIs DEF CloseDirectory, Counted, Finished
<1>13. CASE Return
  BY <1>13 DEF Return, memory, Counted, Finished
<1>14. CASE Fail
  <2>1. /\ directory' = NoInode /\ inode' = NoInode /\ clone' = NoEntry /\ pc' = "error"
        /\ allocated' = [directory |-> allocated.directory - HeldBy(directory, NoInode),
                         inode |-> allocated.inode - HeldBy(inode, NoInode),
                         clone |-> allocated.clone - HeldBy(clone, NoEntry)]
    BY <1>14 DEF Fail
  <2>2. allocated' = [directory |-> 0, inode |-> 0, clone |-> 0]
    <3>1. /\ allocated.directory = HeldBy(directory, NoInode)
          /\ allocated.inode = HeldBy(inode, NoInode)
          /\ allocated.clone = HeldBy(clone, NoEntry)
      BY DEF Counted
    <3>2. \A p \in {0, 1} : p - p = 0
      OBVIOUS
    <3>. QED
      BY <2>1, <3>1, <3>2, HeldIs
  <2>3. /\ HeldBy(directory', NoInode) = 0 /\ HeldBy(inode', NoInode) = 0
        /\ HeldBy(clone', NoEntry) = 0
    BY <2>1, HeldIs
  <2>. QED
    BY <2>1, <2>2, <2>3 DEF Counted, Finished
<1>15. CASE UNCHANGED vars
  BY <1>15 DEF vars, memory, Counted, Finished
<1>. QED
  BY <1>2, <1>3, <1>4, <1>5, <1>6, <1>7, <1>8, <1>9, <1>10, <1>11, <1>12, <1>13, <1>14, <1>15
  DEF Next, Step, Returned

(* Where the walk goes on.                                                 *)
LEMMA WalkStep ==
  ASSUME IInv, [Next]_vars, TypeOK'
  PROVE  Walk' /\ OneFile' /\ ReturnsOneFile' /\ EntryHeld' /\ ClonesLiveEntry'
<1>. USE DEF IInv, InputTyped
<1>1. CASE ReadInode
  BY <1>1 DEF ReadInode, input, segment, found, Walk, OneFile, ReturnsOneFile, EntryHeld,
     ClonesLiveEntry
<1>2. CASE FreeDirectory
  BY <1>2 DEF FreeDirectory, input, segment, found, Walk, OneFile, ReturnsOneFile, EntryHeld,
     ClonesLiveEntry
<1>3. CASE ReadDirectory
  BY <1>3 DEF ReadDirectory, input, found, TypeOK, Walk, OneFile, ReturnsOneFile, EntryHeld,
     ClonesLiveEntry
<1>4. CASE ReadCharacter
  BY <1>4 DEF ReadCharacter, input, found, memory, TypeOK, Walk, OneFile, ReturnsOneFile,
     EntryHeld, ClonesLiveEntry
<1>5. CASE EndOfPath
  BY <1>5 DEF EndOfPath, input, segment, found, memory, Walk, OneFile, ReturnsOneFile,
     EntryHeld, ClonesLiveEntry
<1>6. CASE LookUp
  BY <1>6 DEF LookUp, Walk, OneFile, ReturnsOneFile, EntryHeld, ClonesLiveEntry
<1>7. CASE LookUpFails
  BY <1>7 DEF LookUpFails, found, memory, Walk, OneFile, ReturnsOneFile, EntryHeld,
     ClonesLiveEntry
<1>8. CASE EndOfSegments
  BY <1>8 DEF EndOfSegments, input, segment, found, memory, Walk, OneFile, ReturnsOneFile,
     EntryHeld, ClonesLiveEntry
<1>9. CASE FreeInode \/ CloneEntry \/ CloseDirectory
  BY <1>9 DEF FreeInode, CloneEntry, CloseDirectory, input, segment, found, Walk, OneFile,
     ReturnsOneFile, EntryHeld, ClonesLiveEntry
<1>10. CASE Return
  BY <1>10 DEF Return, input, segment, found, memory, Walk, OneFile, ReturnsOneFile, EntryHeld,
     ClonesLiveEntry
<1>11. CASE Fail
  BY <1>11 DEF Fail, input, segment, found, Walk, OneFile, ReturnsOneFile, EntryHeld,
     ClonesLiveEntry
<1>12. CASE UNCHANGED vars
  BY <1>12 DEF vars, input, segment, found, memory, Walk, OneFile, ReturnsOneFile, EntryHeld,
     ClonesLiveEntry
<1>. QED
  BY <1>1, <1>2, <1>3, <1>4, <1>5, <1>6, <1>7, <1>8, <1>9, <1>10, <1>11, <1>12
  DEF Next, Step, Returned

LEMMA TypeStep ==
  ASSUME IInv, [Next]_vars, Counted'
  PROVE  InputTyped' /\ TypeOK'
<1>. USE DEF IInv, InputTyped
<1>1. allocated' \in [directory : Nat, inode : Nat, clone : Nat]
  <2>1. /\ HeldBy(directory', NoInode) \in Nat /\ HeldBy(inode', NoInode) \in Nat
        /\ HeldBy(clone', NoEntry) \in Nat
    BY HeldIs
  <2>. QED
    BY <2>1 DEF Counted
<1>2. CASE ReadInode
  BY <1>1, <1>2 DEF ReadInode, input, segment, found, TypeOK
<1>3. CASE FreeDirectory
  BY <1>1, <1>3 DEF FreeDirectory, input, segment, found, TypeOK
<1>4. CASE ReadDirectory
  BY <1>1, <1>4 DEF ReadDirectory, input, found, TypeOK, Walk
<1>5. CASE ReadCharacter
  BY <1>1, <1>5 DEF ReadCharacter, input, found, memory, TypeOK, Walk
<1>6. CASE EndOfPath
  BY <1>1, <1>6 DEF EndOfPath, input, segment, found, memory, TypeOK
<1>7. CASE LookUp
  <2>1. Size \in 0 .. Len(path) + 1 /\ EntryOfSegment \in Entry
    BY <1>7, SegmentTyped DEF LookUp
  <2>2. EntryOfSegment.inode \in Inodes
    BY <2>1 DEF Entry
  <2>. QED
    BY <1>1, <1>7, <2>1, <2>2 DEF LookUp, input, TypeOK
<1>8. CASE LookUpFails
  <2>1. Size \in 0 .. Len(path) + 1
    BY <1>8, SegmentTyped DEF LookUpFails
  <2>. QED
    BY <1>1, <1>8, <2>1 DEF LookUpFails, input, found, memory, TypeOK
<1>9. CASE EndOfSegments
  BY <1>1, <1>9 DEF EndOfSegments, input, segment, found, memory, TypeOK
<1>10. CASE FreeInode \/ CloneEntry \/ CloseDirectory
  BY <1>1, <1>10 DEF FreeInode, CloneEntry, CloseDirectory, input, segment, found, TypeOK
<1>11. CASE Return
  BY <1>1, <1>11 DEF Return, input, segment, found, memory, TypeOK
<1>12. CASE Fail
  BY <1>1, <1>12 DEF Fail, input, segment, found, TypeOK
<1>13. CASE UNCHANGED vars
  BY <1>13 DEF vars, input, segment, found, memory, TypeOK
<1>. QED
  BY <1>2, <1>3, <1>4, <1>5, <1>6, <1>7, <1>8, <1>9, <1>10, <1>11, <1>12, <1>13
  DEF Next, Step, Returned

LEMMA NextPreserves == IInv /\ [Next]_vars => IInv'
  BY CountedStep, TypeStep, WalkStep DEF IInv

------------------------------------------------------------------------------

(* The inductive invariant of the walk.                                    *)
THEOREM Safety == Spec => []IInv
  BY InitHolds, NextPreserves, PTL DEF Spec

(* The indexes of the walk stay in the path and the length of a segment,   *)
(* which is unsigned in the code, never becomes negative.                  *)
THEOREM TypeCorrect == Spec => []TypeOK
  BY Safety, PTL DEF IInv

(* Number, inode and entry that are returned are of one file, in any tree  *)
(* of directories and whichever calls fail.                                *)
THEOREM OneFileIsReturned == Spec => []ReturnsOneFile
  BY Safety, PTL DEF IInv

(* However many directories, inodes and clones were allocated along the    *)
(* path, and whichever call fails, only the inode and the clone that are   *)
(* returned are left in memory.                                            *)
THEOREM AllIsGivenBack == Spec => []NothingIsLeft
<1>1. IInv => NothingIsLeft
  <2> SUFFICES ASSUME IInv, Finished PROVE NothingIsLeft
    BY DEF NothingIsLeft
  <2>1. directory = NoInode /\ HeldBy(directory, NoInode) = 0
    BY HeldIs DEF IInv, Counted
  <2>2. CASE pc = "found"
    <3>1. inode # NoInode
      BY <2>2, PathLookupAssumption DEF IInv, TypeOK, ReturnsOneFile
    <3>. QED
      BY <2>1, <2>2, <3>1, HeldIs DEF IInv, Counted, NothingIsLeft
  <2>3. CASE pc # "found"
    <3>1. inode = NoInode /\ clone = NoEntry
      BY <2>3 DEF IInv, Counted, Finished
    <3>. QED
      BY <2>1, <2>3, <3>1, HeldIs DEF IInv, Counted, NothingIsLeft
  <2>. QED
    BY <2>2, <2>3
<1>. QED
  BY <1>1, Safety, PTL

(* The pointer that is cloned is one into a directory that is still held.  *)
THEOREM LiveEntryIsCloned == Spec => []ClonesLiveEntry
  BY Safety, PTL DEF IInv
------------------------------------------------------------------------------
(* What a path means                                                       *)

LEMMA CutsAreNumbers ==
  ASSUME NEW p \in Seq(Characters)
  PROVE  Cuts(p) \in SUBSET Nat /\ Cuts(p) \in SUBSET (0 .. Len(p) + 1) /\ 0 \in Cuts(p)
  BY DEF Cuts

(* There is one last cut before every cut but the first.                   *)
LEMMA CutBeforeIs ==
  ASSUME NEW p \in Seq(Characters), NEW c \in Nat, NEW b \in Cuts(p), b < c,
         \A k \in b + 1 .. c - 1 : k \notin Cuts(p)
  PROVE  CutBefore(p, c) = b
<1> DEFINE Nearest(d) == d < c /\ \A k \in d + 1 .. c - 1 : k \notin Cuts(p)
<1>1. b \in Nat /\ Nearest(b)
  BY CutsAreNumbers
<1>2. ASSUME NEW d \in Cuts(p), Nearest(d) PROVE d = b
  <2>1. d \in Nat
    BY CutsAreNumbers
  <2>2. ~(d < b) /\ ~(b < d)
    BY <1>1, <1>2, <2>1
  <2>. QED
    BY <1>1, <2>1, <2>2
<1>. QED
  BY <1>1, <1>2 DEF CutBefore

LEMMA CutBeforeExists ==
  ASSUME NEW p \in Seq(Characters), NEW c \in Nat, c > 0
  PROVE  /\ CutBefore(p, c) \in Cuts(p)
         /\ CutBefore(p, c) \in 0 .. c - 1
         /\ \A k \in CutBefore(p, c) + 1 .. c - 1 : k \notin Cuts(p)
<1> DEFINE I == {d \in Nat \ {0} : c - d \in Cuts(p)}
           m == Min(I)
<1>1. I \in SUBSET Nat /\ c \in I
  BY CutsAreNumbers
<1>2. m \in I /\ \A d \in I : m <= d
  BY <1>1, LeastExists
<1>. HIDE DEF m
<1>3. m \in Nat /\ m > 0 /\ c - m \in Cuts(p) /\ c - m \in Nat
  BY <1>2, CutsAreNumbers
<1>4. ASSUME NEW k \in (c - m) + 1 .. c - 1 PROVE k \notin Cuts(p)
  <2>1. c - k \in Nat \ {0} /\ c - k < m /\ c - (c - k) = k
    BY <1>3
  <2>. HIDE DEF I
  <2>2. c - k \notin I
    BY <1>2, <1>3, <2>1
  <2>. USE DEF I
  <2>. QED
    BY <2>1, <2>2
<1>5. CutBefore(p, c) = c - m
  BY <1>3, <1>4, CutBeforeIs
<1>. QED
  BY <1>3, <1>4, <1>5

(* One step along a path, from the files at the cuts before.               *)
FileAt(l, p, at, c) ==
  IF c <= FirstCut(p) THEN Root
  ELSE LET cut == CutBefore(p, c)
       IN  IF at[cut] = NoInode \/ c = cut + 1 THEN NoInode
           ELSE EntryOf(l[at[cut]], SubSeq(p, cut + 1, c - 1)).inode

LEMMA FirstCutIs ==
  ASSUME NEW p \in Seq(Characters)
  PROVE  /\ FirstCut(p) \in {0, 1} /\ FirstCut(p) <= Len(p) /\ FirstCut(p) \in Cuts(p)
         /\ LastCut(p) \in Cuts(p) /\ FirstCut(p) <= LastCut(p)
         /\ LastCut(p) \in {Len(p), Len(p) + 1}
  BY DEF FirstCut, LastCut, Cuts, Delimits

(* The files at the cuts exist: the first cut where there were none to be  *)
(* found could be reached from the cut before it.                          *)
LEMMA FilesExist ==
  ASSUME NEW l, NEW p \in Seq(Characters), NEW n \in Nat
  PROVE  \E at : at = [c \in 0 .. n |-> FileAt(l, p, at, c)]
<1> DEFINE Along(k, at) == at = [c \in 0 .. k |-> FileAt(l, p, at, c)]
           I == {k \in Nat : ~\E at : Along(k, at)}
           m == Min(I)
<1>1. SUFFICES ASSUME I # {} PROVE FALSE
  OBVIOUS
<1>2. m \in I /\ m \in Nat /\ \A k \in I : m <= k
  BY <1>1, LeastExists
<1>. HIDE DEF m
<1>3. CASE m = 0
  <2> DEFINE at == [c \in 0 .. 0 |-> Root]
  <2>1. \A c \in 0 .. 0 : FileAt(l, p, at, c) = Root
    BY FirstCutIs DEF FileAt
  <2>2. Along(0, at)
    BY <2>1
  <2>. QED
    BY <1>2, <1>3, <2>2
<1>4. CASE m # 0
  <2>1. m - 1 \in Nat /\ m - 1 \notin I
    BY <1>2, <1>4
  <2>2. PICK f : Along(m - 1, f)
    BY <2>1
  <2> DEFINE g == [c \in 0 .. m |-> IF c < m THEN f[c] ELSE FileAt(l, p, f, m)]
  <2>3. ASSUME NEW c \in 0 .. m PROVE FileAt(l, p, g, c) = FileAt(l, p, f, c)
    <3>1. CASE c <= FirstCut(p)
      BY <3>1 DEF FileAt
    <3>2. CASE ~(c <= FirstCut(p))
      <4>1. c \in Nat /\ c > 0
        BY <1>2, <3>2, FirstCutIs
      <4>2. CutBefore(p, c) \in 0 .. c - 1
        BY <4>1, CutBeforeExists
      <4>3. g[CutBefore(p, c)] = f[CutBefore(p, c)]
        BY <1>2, <4>1, <4>2
      <4>. HIDE DEF g
      <4>. QED
        BY <4>3 DEF FileAt
    <3>. QED
      BY <3>1, <3>2
  <2>4. ASSUME NEW c \in 0 .. m PROVE g[c] = FileAt(l, p, f, c)
    <3>1. c = m \/ (c < m /\ c \in 0 .. m - 1)
      BY <1>2
    <3>2. c \in 0 .. m - 1 => f[c] = FileAt(l, p, f, c)
      BY <2>2
    <3>. QED
      BY <1>2, <3>1, <3>2
  <2>. HIDE DEF g
  <2>5. g = [c \in 0 .. m |-> g[c]]
    BY DEF g
  <2>6. Along(m, g)
    BY <2>3, <2>4, <2>5
  <2>. QED
    BY <1>2, <2>6
<1>. QED
  BY <1>3, <1>4

LEMMA FilesAlongIs ==
  ASSUME NEW l, NEW p \in Seq(Characters), NEW c \in 0 .. Len(p) + 1
  PROVE  FilesAlong(l, p)[c] = FileAt(l, p, FilesAlong(l, p), c)
<1> DEFINE Along(at) == at = [k \in 0 .. Len(p) + 1 |-> FileAt(l, p, at, k)]
<1>1. FilesAlong(l, p) = CHOOSE at : Along(at)
  BY DEF FilesAlong, FileAt
<1>2. \E at : Along(at)
  <2>1. Len(p) + 1 \in Nat
    OBVIOUS
  <2>. QED
    BY <2>1, FilesExist
<1>3. Along(FilesAlong(l, p))
  BY <1>1, <1>2
<1>. QED
  BY <1>3

(* Behind a name that leads nowhere no name leads anywhere.                *)
LEMMA NowhereStays ==
  ASSUME NEW l, NEW p \in Seq(Characters), NEW c \in Cuts(p), FirstCut(p) <= c,
         FilesAlong(l, p)[c] = NoInode, NEW d \in Cuts(p), c <= d
  PROVE  FilesAlong(l, p)[d] = NoInode
<1> DEFINE at == FilesAlong(l, p)
           I == {k \in Cuts(p) : c <= k /\ at[k] # NoInode}
           m == Min(I)
<1>1. SUFFICES ASSUME I # {} PROVE FALSE
  OBVIOUS
<1>2. m \in I /\ \A k \in I : m <= k
  BY <1>1, CutsAreNumbers, LeastExists
<1>. HIDE DEF m
<1>3. m \in 0 .. Len(p) + 1 /\ c \in Nat /\ c <= m /\ m # c /\ at[m] # NoInode
  BY <1>2, CutsAreNumbers
<1> DEFINE b == CutBefore(p, m)
<1>4. b \in Cuts(p) /\ b \in 0 .. m - 1 /\ \A k \in b + 1 .. m - 1 : k \notin Cuts(p)
  BY <1>3, CutBeforeExists
<1>. HIDE DEF b
<1>5. c <= b
  BY <1>3, <1>4
<1>6. at[b] = NoInode
  BY <1>2, <1>3, <1>4, <1>5
<1>7. ~(m <= FirstCut(p))
  BY <1>3, FirstCutIs
<1>8. at[m] = FileAt(l, p, at, m)
  BY <1>3, FilesAlongIs
<1>. QED
  BY <1>3, <1>6, <1>7, <1>8 DEF FileAt, b

(* The number that is held is the one of the file at the last cut the walk *)
(* has passed; the segment it is in begins behind that cut.                *)
AtCut(c, i) == c \in Cuts(path) /\ FirstCut(path) <= c /\ i = FilesAlong(listing, path)[c]

InSegment(last, delimiters) ==
  /\ length = first + delimiters
  /\ first \in 1 .. Len(path) /\ first <= last + 1
  /\ AtCut(first - 1, directory)
  /\ \A k \in first .. last : k \notin Cuts(path)

AtDelimiter == next - 1 \in 1 .. Len(path) /\ Delimits(path[next - 1])

Follows ==
  /\ pc \in {"inode", "loop"} =>
       /\ next <= Len(path) => AtCut(next - 1, number)
       /\ next > Len(path) => number = FileOf(listing, path)
       /\ result # 0 \/ (directory = NoInode /\ (next <= Len(path) \/ path = <<>>))
  /\ pc = "loop" => result # 0 \/ next <= Len(path)
  /\ pc = "directory" => AtCut(next - 1, number)
  /\ pc = "segment" => InSegment(next - 1, 0)
  /\ pc = "lookup" =>
       \/ InSegment(next - 1, 0) /\ next = Len(path) + 1
       \/ InSegment(next - 2, 1) /\ AtDelimiter
  /\ pc \in {"end", "close", "return"} =>
       IF result = 0 THEN FileOf(listing, path) = NoInode ELSE number = FileOf(listing, path)
  /\ FindsFileOfPath

(* The path is of more than one character or of none.                      *)
Long == Len(path) > 1 \/ Len(path) < 1

LEMMA LongIs ==
  ASSUME NEW p \in Seq(Characters), Len(p) # 1
  PROVE  Len(p) > 1 \/ Len(p) < 1
<1>1. PICK n \in Nat : n = Len(p)
  OBVIOUS
<1>2. n # 1
  BY <1>1
<1>. QED
  BY <1>1, <1>2

LEMMA InitFollows == Init /\ IInv /\ Long => Follows
<1> SUFFICES ASSUME Init, IInv, Long PROVE Follows
  OBVIOUS
<1>1. path \in Seq(Characters) /\ FirstCut(path) \in 0 .. Len(path) + 1
  BY FirstCutIs DEF IInv, InputTyped
<1>2. FilesAlong(listing, path)[FirstCut(path)] = Root
  BY <1>1, FilesAlongIs DEF FileAt
<1>3. next - 1 = FirstCut(path)
  BY DEF Init, FirstCut
<1>4. AtCut(next - 1, Root)
  BY <1>1, <1>2, <1>3, FirstCutIs DEF AtCut
<1>5. next > Len(path) => path = <<>>
  <2>1. Len(path) \in Nat /\ (Len(path) = 0 => path = <<>>)
    BY <1>1
  <2>2. FirstCut(path) \in {0, 1} /\ FirstCut(path) <= Len(path)
    BY <1>1, FirstCutIs
  <2>3. next = FirstCut(path) + 1
    BY DEF Init, FirstCut
  <2>. QED
    BY <2>1, <2>2, <2>3 DEF Long
<1>6. path = <<>> => FileOf(listing, path) = Root
  BY <1>2 DEF FileOf, LastCut, FirstCut
<1>. QED
  BY <1>1, <1>4, <1>5, <1>6 DEF Init, Follows, FindsFileOfPath, IInv, TypeOK

(* The name that is looked up is the one between the cut the segment began *)
(* behind and the one it ended at.                                         *)
LEMMA LookUpFollows ==
  ASSUME IInv, Follows, LookUp \/ LookUpFails
  PROVE  Follows'
<1> DEFINE size == next - length
           c == first + size
           named == EntryOf(listing[directory], SubSeq(path, first, first + size - 1))
           at == FilesAlong(listing, path)
<1>1. /\ path \in Seq(Characters) /\ directory \in Inodes /\ listing[directory] \in Seq(Entry)
      /\ next \in Nat /\ first \in Nat /\ length \in Nat /\ pc = "lookup"
  <2>1. pc = "lookup"
    BY DEF LookUp, LookUpFails
  <2>. QED
    BY <2>1, PathLookupAssumption DEF IInv, InputTyped, Walk, TypeOK
<1>0. Size = size /\ EntryOfSegment = named
  BY DEF Size, EntryOfSegment
<1>2. /\ first \in 1 .. Len(path) /\ AtCut(first - 1, directory)
      /\ \A k \in first .. c - 1 : k \notin Cuts(path)
      /\ c \in first .. Len(path) + 1 /\ c \in Cuts(path)
      /\ \/ next = c + 1 /\ c <= Len(path) /\ Delimits(path[c])
         \/ next = c /\ c = Len(path) + 1
  <2>1. CASE InSegment(next - 1, 0) /\ next = Len(path) + 1
    <3>1. first \in 1 .. Len(path) /\ AtCut(first - 1, directory)
          /\ \A k \in first .. next - 1 : k \notin Cuts(path)
      BY <2>1 DEF InSegment
    <3>2. size = next - first /\ c = next /\ c \in first .. Len(path) + 1
      BY <1>1, <2>1 DEF InSegment
    <3>3. c \in Cuts(path)
      BY <2>1, <3>2 DEF Cuts
    <3>. HIDE DEF c
    <3>. QED
      BY <2>1, <3>1, <3>2, <3>3
  <2>2. CASE InSegment(next - 2, 1) /\ AtDelimiter
    <3>1. c = next - 1
      BY <1>1, <2>2 DEF InSegment
    <3>. QED
      BY <1>1, <2>2, <3>1 DEF InSegment, AtDelimiter, Cuts
  <2>. QED
    BY <1>1, <2>1, <2>2 DEF Follows
<1>3. CutBefore(path, c) = first - 1
  BY <1>1, <1>2, CutBeforeIs DEF AtCut
<1>4. ~(c <= FirstCut(path)) /\ FirstCut(path) <= c
  BY <1>1, <1>2, FirstCutIs DEF AtCut
<1>5. at[c] = IF size = 0 THEN NoInode ELSE named.inode
  <2>1. at[c] = FileAt(listing, path, at, c)
    BY <1>1, <1>2, FilesAlongIs
  <2>2. at[first - 1] = directory /\ directory # NoInode
    BY <1>1, <1>2, PathLookupAssumption DEF AtCut
  <2>3. (c = (first - 1) + 1 <=> size = 0) /\ (first - 1) + 1 = first
    BY <1>1, <1>2
  <2>. HIDE DEF c, size, named, at
  <2>4. at[c] = IF size = 0 THEN NoInode
                ELSE EntryOf(listing[directory], SubSeq(path, first, c - 1)).inode
    BY <1>3, <1>4, <2>1, <2>2, <2>3 DEF FileAt
  <2>5. c - 1 = first + size - 1
    BY <1>1 DEF c, size
  <2>. QED
    BY <2>4, <2>5 DEF named
<1>6. named \in Entry \cup {NoEntry}
  BY <1>1, EntryIsListed
<1>7. LastCut(path) \in Cuts(path) /\ c <= LastCut(path)
      /\ (next > Len(path) => c = LastCut(path))
  <2>. DEFINE z == Len(path)
  <2>. HIDE DEF c
  <2>1. z \in Nat /\ z # 0 /\ path # <<>> /\ z \in first .. z
    BY <1>1, <1>2
  <2>2. z + 1 \in Cuts(path) /\ (Delimits(path[z]) => z \in Cuts(path))
    BY <2>1 DEF Cuts
  <2>. HIDE DEF z
  <2>3. CASE Delimits(path[z])
    <3>1. LastCut(path) = z
      BY <2>1, <2>3 DEF LastCut, z
    <3>2. c # z + 1
      BY <1>1, <1>2, <2>1, <2>2, <2>3 DEF z
    <3>. QED
      BY <1>1, <1>2, <2>1, <2>2, <2>3, <3>1, <3>2 DEF z
  <2>4. CASE ~Delimits(path[z])
    <3>1. LastCut(path) = z + 1
      BY <2>1, <2>4 DEF LastCut, z
    <3>2. c # z \/ next # c + 1
      BY <1>2, <2>1, <2>4 DEF z
    <3>. QED
      BY <1>1, <1>2, <2>1, <2>2, <3>1, <3>2 DEF z
  <2>. QED
    BY <2>3, <2>4
<1>. HIDE DEF named, at
<1>8. at[c] = NoInode => FileOf(listing, path) = NoInode
  BY <1>1, <1>2, <1>4, <1>7, NowhereStays DEF FileOf, at
<1>9. UNCHANGED <<listing, path, next>>
  BY DEF LookUp, LookUpFails, input
<1>10. CASE size = 0 \/ named = NoEntry
  <2>1. pc' = "end" /\ result' = 0
    BY <1>0, <1>10 DEF LookUp, LookUpFails
  <2>2. FileOf(listing, path) = NoInode
    BY <1>5, <1>8, <1>10 DEF NoEntry
  <2>. QED
    BY <1>9, <2>1, <2>2 DEF Follows, FindsFileOfPath
<1>11. CASE size # 0 /\ named # NoEntry
  <2>0. pc' = "inode" /\ result' = 1 /\ number' = at[c]
    BY <1>0, <1>5, <1>11 DEF LookUp, LookUpFails
  <2>1. pc' = "inode" /\ result' # 0 /\ number' = at[c]
    <3>1. 1 # 0
      OBVIOUS
    <3>. QED
      BY <2>0, <3>1
  <2>2. next <= Len(path) => AtCut(c, at[c]) /\ c = next - 1
    BY <1>1, <1>2, <1>4 DEF AtCut, at
  <2>3. next > Len(path) => at[c] = FileOf(listing, path)
    BY <1>7 DEF FileOf, at
  <2>. QED
    BY <1>9, <2>1, <2>2, <2>3 DEF Follows, FindsFileOfPath, AtCut
<1>. QED
  BY <1>10, <1>11

LEMMA NextFollows == IInv /\ Follows /\ Long /\ [Next]_vars => Follows'
<1> SUFFICES ASSUME IInv, Follows, Long, [Next]_vars PROVE Follows'
  OBVIOUS
<1>0. path \in Seq(Characters) /\ Len(path) \in Nat /\ next \in 1 .. Len(path) + 1
  <2>1. path \in Seq(Characters) /\ next \in 1 .. Len(path) + 1
    BY DEF IInv, InputTyped, TypeOK
  <2>. QED
    BY <2>1
<1>1. CASE ReadInode
  <2>1. path = <<>> <=> Len(path) = 0
    BY <1>0
  <2>0. Len(path) <= 1 <=> Len(path) = 0
    BY <1>0 DEF Long
  <2>2. CASE directory = NoInode /\ Len(path) = 0
    BY <1>0, <1>1, <2>1, <2>2 DEF ReadInode, input, segment, found, Follows, FindsFileOfPath
  <2>3. CASE ~(directory = NoInode /\ Len(path) = 0)
    <3>1. pc = "inode" /\ pc' = "loop"
          /\ UNCHANGED <<listing, path, next, first, length, directory, number, entry, result>>
      BY <1>1, <2>0, <2>3 DEF ReadInode, input, segment, found
    <3>. QED
      BY <1>0, <2>1, <2>3, <3>1 DEF Follows, FindsFileOfPath, AtCut
  <2>. QED
    BY <2>2, <2>3
<1>2. CASE ReadDirectory
  BY <1>0, <1>2
  DEF ReadDirectory, input, found, Follows, FindsFileOfPath, AtCut, InSegment, IInv, Walk
<1>3. CASE ReadCharacter
  BY <1>0, <1>3 DEF ReadCharacter, input, found, memory, Follows, FindsFileOfPath, AtCut,
    InSegment, AtDelimiter, Cuts
<1>4. CASE EndOfPath
  BY <1>0, <1>4 DEF EndOfPath, input, segment, found, memory, Follows, FindsFileOfPath, AtCut,
    InSegment, IInv, TypeOK
<1>5. CASE LookUp \/ LookUpFails
  BY <1>5, LookUpFollows
<1>6. CASE EndOfSegments
  BY <1>0, <1>6 DEF EndOfSegments, input, segment, found, memory, Follows, FindsFileOfPath
<1>7. CASE FreeInode \/ CloneEntry \/ CloseDirectory
  BY <1>7 DEF FreeInode, CloneEntry, CloseDirectory, input, segment, found, Follows,
    FindsFileOfPath
<1>8. CASE FreeDirectory
  BY <1>0, <1>8 DEF FreeDirectory, input, segment, found, Follows, FindsFileOfPath, AtCut
<1>9. CASE Return
  BY <1>9 DEF Return, input, segment, found, memory, Follows, FindsFileOfPath
<1>10. CASE Fail
  BY <1>10 DEF Fail, input, segment, found, Follows, FindsFileOfPath
<1>11. CASE UNCHANGED vars
  BY <1>11 DEF vars, input, segment, found, memory, Follows, FindsFileOfPath, AtCut, InSegment,
    AtDelimiter
<1>. QED
  BY <1>1, <1>2, <1>3, <1>4, <1>5, <1>6, <1>7, <1>8, <1>9, <1>10, <1>11 DEF Next, Step, Returned

(* For every path but those of one character and every tree of directories *)
(* a lookup finds the file the names of the path lead to, and finds none   *)
(* only where they lead nowhere.                                           *)
THEOREM PathsLeadToTheirFile == Spec => []FindsFileOfLongPath
<1> DEFINE Leads == Long => Follows
<1>0. IInv /\ Len(path) # 1 => Long
  BY LongIs DEF IInv, InputTyped, Long
<1>1. Init => Leads
  BY InitHolds, InitFollows
<1>2. IInv /\ Leads /\ [Next]_vars => Leads'
  <2> SUFFICES ASSUME IInv, Leads, [Next]_vars PROVE Leads'
    OBVIOUS
  <2>1. path' = path /\ Long' = Long
    BY DEF Long, Next, Step, ReadInode, FreeDirectory, ReadDirectory, ReadCharacter, EndOfPath,
      LookUp, LookUpFails, EndOfSegments, FreeInode, CloneEntry, CloseDirectory, Return, Fail,
      Returned, vars, input
  <2>. QED
    BY <2>1, NextFollows
<1>3. IInv /\ Leads => FindsFileOfLongPath
  BY <1>0 DEF Follows, FindsFileOfLongPath
<1>. HIDE DEF Leads
<1>. QED
  BY <1>1, <1>2, <1>3, Safety, PTL DEF Spec

------------------------------------------------------------------------------

(* Every extent of a directory is whole directory blocks, and its size is  *)
(* one that extent_size, of 64 bits, can hold.                             *)
WholeExtents ==
  \A d \in Directories : \A x \in Range(d.extents) :
    /\ x.blocks < Wrap
    /\ \E m \in Nat : x.blocks = m * DirBlocks

(* Where the loops are: an item is read in a block of the disk.            *)
Placed ==
  /\ fork \in Directories
  /\ stage = "table" => fork.inline /\ item <= Len(fork.table)
  /\ stage \in {"extent", "block", "item"} => ~fork.inline
  /\ stage = "item" => position \in DOMAIN fork.disk

(* The blocks that are left are the last ones of an extent with items.     *)
InExtent ==
  stage \in {"block", "item"} =>
    /\ \E m \in Nat : left = m * DirBlocks
    /\ 0 < left /\ left < Wrap
    /\ \E x \in Range(fork.extents) :
         /\ x.logical < LeafBlock
         /\ Address(x.physical) <= position
         /\ position + left <= Address(x.physical) + x.blocks

DirectoryInv ==
  /\ DirectoryTypeOK
  /\ Placed
  /\ WholeExtents => InExtent

LEMMA DirectoryIs ==
  ASSUME fork \in Directories
  PROVE  /\ fork.inline \in BOOLEAN
         /\ fork.table \in Seq(Item) /\ fork.count \in Nat /\ fork.size \in Nat
         /\ fork.extents \in Seq(Extent)
         /\ \A p \in DOMAIN fork.disk : p \in Nat /\ fork.disk[p] \in Block
  BY DirectoryAssumption

LEMMA AddressInDisk == ASSUME NEW n \in Nat PROVE Address(n) \in Nat
  <1>1. Relative \in Nat /\ Relative > 0 /\ GroupBlocks \in Nat
    BY DirectoryAssumption
  <1>2. n \div Relative \in Nat /\ n % Relative \in Nat
    BY <1>1
  <1>3. \A a \in Nat : a * GroupBlocks \in Nat
    BY <1>1
  <1>4. (n \div Relative) * GroupBlocks \in Nat
    BY <1>2, <1>3
  <1> QED
    BY <1>2, <1>4 DEF Address

LEMMA ItemIs ==
  ASSUME NEW b \in Block, NEW k \in Nat \ {0}
  PROVE  /\ ItemOf(b, k).size \in Nat
         /\ ItemOf(b, k).name \in Names \cup {NoName}
         /\ ItemOf(b, k).kind \in Kinds
  <1>1. b.items \in Seq(Item)
    BY DEF Block
  <1>2. CASE k <= Len(b.items)
    <2>1. b.items[k] \in Item
      BY <1>1, <1>2
    <2>2. ItemOf(b, k) = b.items[k]
      BY <1>2 DEF ItemOf
    <2> QED
      BY <2>1, <2>2 DEF Item
  <1>3. CASE ~(k <= Len(b.items))
    <2>1. ItemOf(b, k) = [kind |-> "name", size |-> 2, name |-> NoName]
      BY <1>3 DEF ItemOf
    <2> QED
      BY <2>1 DEF Kinds
  <1> QED
    BY <1>2, <1>3

LEMMA DirectoryBegin == DirectoryInit => DirectoryInv
  <1> SUFFICES ASSUME DirectoryInit PROVE DirectoryInv
    OBVIOUS
  <1>1. /\ fork.inline \in BOOLEAN /\ fork.extents \in Seq(Extent) /\ fork.table \in Seq(Item)
    BY DirectoryIs DEF DirectoryInit
  <1>2. BlockUnits \in Nat
    BY DirectoryAssumption
  <1>3. stage = "table" => fork.inline
    BY DEF DirectoryInit
  <1>4. stage \in {"table", "extent"} /\ (stage = "extent" => ~fork.inline)
    BY <1>1 DEF DirectoryInit
  <1> QED
    BY <1>1, <1>2, <1>3, <1>4
    DEF DirectoryInit, DirectoryInv, DirectoryTypeOK, Placed, InExtent

(* The blocks of an extent with items are taken off in directory blocks.   *)
LEMMA BlockIsTaken ==
  ASSUME DirectoryInv, WholeExtents, EndBlock
  PROVE  InExtent'
  <1>1. /\ position \in Nat /\ left \in Nat /\ DirBlocks \in Nat \ {0} /\ Wrap \in Nat \ {0}
        /\ stage = "item" /\ fork.extents \in Seq(Extent)
    BY DirectoryAssumption, DirectoryIs DEF DirectoryInv, DirectoryTypeOK, Placed, EndBlock
  <1>2. PICK m \in Nat : left = m * DirBlocks
    BY <1>1 DEF DirectoryInv, InExtent
  <1>3. PICK x \in Range(fork.extents) :
          /\ x.logical < LeafBlock
          /\ Address(x.physical) <= position
          /\ position + left <= Address(x.physical) + x.blocks
    BY <1>1 DEF DirectoryInv, InExtent
  <1>4. 0 < left /\ left < Wrap
    BY <1>1 DEF DirectoryInv, InExtent
  <1>5. m - 1 \in Nat /\ left - DirBlocks = (m - 1) * DirBlocks
    <2>1. m # 0
      BY <1>1, <1>2, <1>4
    <2>2. (m - 1) * DirBlocks = m * DirBlocks - DirBlocks
      BY <1>1
    <2> QED
      BY <1>2, <2>1, <2>2
  <1>6. left - DirBlocks \in Nat
    <2>1. \A i \in Nat : i * DirBlocks \in Nat
      BY <1>1
    <2> QED
      BY <1>5, <2>1
  <1>7. (left - DirBlocks) % Wrap = left - DirBlocks
    <2>1. left - DirBlocks < Wrap
      BY <1>1, <1>4
    <2> QED
      BY <1>1, <1>6, <2>1
  <1>8. /\ fork' = fork /\ position' = position + DirBlocks /\ left' = left - DirBlocks
        /\ stage' = IF left' > 0 THEN "block" ELSE "extent"
    BY <1>7 DEF EndBlock
  <1>9. x.physical \in Nat /\ x.blocks \in Nat /\ Address(x.physical) \in Nat
    <2>1. x \in Extent
      BY <1>1 DEF Range
    <2> QED
      BY <2>1, AddressInDisk DEF Extent
  <1>10. Address(x.physical) <= position' /\ position' + left' <= Address(x.physical) + x.blocks
    BY <1>1, <1>3, <1>6, <1>8, <1>9
  <1>11. stage' # "extent" => 0 < left'
    BY <1>8
  <1>12. left' < Wrap /\ left' = (m - 1) * DirBlocks
    BY <1>1, <1>4, <1>5, <1>6, <1>8
  <1> QED
    BY <1>3, <1>5, <1>8, <1>10, <1>11, <1>12 DEF InExtent

(* An extent that is begun is left whole.                                  *)
LEMMA ExtentBegins ==
  ASSUME DirectoryInv, NextExtent
  PROVE  /\ fork' = fork /\ ~fork.inline /\ index' \in 0 .. Len(fork.extents)
         /\ position' \in Nat /\ left' \in Nat
         /\ stage' \in {"block", "extent"}
         /\ WholeExtents => InExtent'
  <1> DEFINE x == fork.extents[index + 1]
  <1>1. /\ index \in 0 .. Len(fork.extents) /\ fork.extents \in Seq(Extent)
        /\ fork \in Directories /\ index < Len(fork.extents) /\ ~fork.inline
    BY DirectoryIs DEF DirectoryInv, DirectoryTypeOK, Placed, NextExtent
  <1>2. index + 1 \in 1 .. Len(fork.extents)
    BY <1>1
  <1>3. x \in Extent /\ x \in Range(fork.extents)
    BY <1>1, <1>2 DEF Range
  <1>4. /\ fork' = fork /\ index' = index + 1 /\ x.logical < LeafBlock
        /\ position' = Address(x.physical) /\ left' = x.blocks
        /\ stage' = IF left' > 0 THEN "block" ELSE "extent"
    BY DEF NextExtent
  <1> HIDE DEF x
  <1>5. x.physical \in Nat /\ x.blocks \in Nat /\ Address(x.physical) \in Nat
    BY <1>3, AddressInDisk DEF Extent
  <1>6. ASSUME WholeExtents PROVE InExtent'
    <2>1. x.blocks < Wrap /\ \E m \in Nat : x.blocks = m * DirBlocks
      BY <1>1, <1>3, <1>6 DEF WholeExtents
    <2> QED
      BY <1>3, <1>4, <1>5, <2>1 DEF InExtent
  <1> QED
    BY <1>1, <1>2, <1>4, <1>5, <1>6

LEMMA DirectoryNextPreserves ==
  DirectoryInv /\ [DirectoryNext]_directoryVars => DirectoryInv'
  <1> SUFFICES ASSUME DirectoryInv, [DirectoryNext]_directoryVars PROVE DirectoryInv'
    OBVIOUS
  <1> USE DEF DirectoryInv
  <1>0. /\ fork \in Directories
        /\ entries \in Seq(Names \cup {NoName})
        /\ index \in 0 .. Len(fork.extents)
        /\ position \in Nat /\ left \in Nat
        /\ item \in Nat /\ offset \in Nat /\ end \in 0 .. BlockUnits
        /\ stage = "item" => offset >= HeaderUnits
        /\ stage \in {"table", "extent", "block", "item", "done", "error"}
        /\ BlockUnits \in Nat /\ HeaderUnits \in Nat /\ HeaderUnits <= BlockUnits
        /\ <<>> \in Seq(Names \cup {NoName})
    BY DirectoryAssumption DEF DirectoryTypeOK, Placed
  <1>1. /\ fork.table \in Seq(Item) /\ fork.count \in Nat /\ fork.size \in Nat
        /\ fork.extents \in Seq(Extent) /\ fork.inline \in BOOLEAN
        /\ \A p \in DOMAIN fork.disk : p \in Nat /\ fork.disk[p] \in Block
    BY <1>0, DirectoryIs
  <1>2. CASE ReadFails
    BY <1>0, <1>2 DEF ReadFails, loop, data, DirectoryTypeOK, Placed, InExtent
  <1>3. CASE ReadTableEntry
    <2>1. CASE ~ReadFails
      <3> DEFINE x == fork.table[item + 1]
      <3>1. /\ stage = "table" /\ item # Len(fork.table)
            /\ entries' = Append(entries, x.name) /\ item' = item + 1
            /\ offset' = offset + x.size
            /\ UNCHANGED <<fork, index, position, left, end, stage>>
        BY <1>3, <2>1 DEF ReadTableEntry, loop
      <3>2. item + 1 \in 1 .. Len(fork.table)
        BY <1>0, <1>1, <3>1 DEF Placed
      <3>3. x \in Item
        BY <1>1, <3>2
      <3>4. x.name \in Names \cup {NoName} /\ x.size \in Nat
        BY <3>3 DEF Item
      <3> HIDE DEF x
      <3>5. entries' \in Seq(Names \cup {NoName})
        BY <1>0, <3>1, <3>4
      <3> QED
        BY <1>0, <3>1, <3>2, <3>4, <3>5 DEF DirectoryTypeOK, Placed, InExtent
    <2> QED
      BY <1>2, <2>1
  <1>4. CASE EndTable
    BY <1>0, <1>4 DEF EndTable, loop, data, DirectoryTypeOK, Placed, InExtent
  <1>5. CASE NextExtent
    <2>1. UNCHANGED <<entries, item, offset, end>>
      BY <1>5 DEF NextExtent, data
    <2> QED
      BY <1>0, <1>5, <2>1, ExtentBegins DEF DirectoryTypeOK, Placed
  <1>6. CASE EndDirectory
    BY <1>0, <1>6 DEF EndDirectory, loop, data, DirectoryTypeOK, Placed, InExtent
  <1>7. CASE ReadBlock
    <2>1. CASE ~ReadFails
      <3>1. /\ stage = "block" /\ stage' = "item"
            /\ position \in DOMAIN fork.disk
            /\ Current.signature = "single" => ~(Current.hashes > BlockUnits - 1)
            /\ item' = 0 /\ offset' = HeaderUnits /\ end' = EndOfItems(Current)
            /\ UNCHANGED <<fork, entries, index, position, left>>
        BY <1>7, <2>1 DEF ReadBlock, loop
      <3>2. Current.hashes \in Nat
        <4>1. Current \in Block
          BY <1>1, <3>1 DEF Current
        <4> QED
          BY <4>1 DEF Block
      <3>3. end' \in 0 .. BlockUnits
        BY <1>0, <3>1, <3>2 DEF EndOfItems
      <3> QED
        BY <1>0, <3>1, <3>3 DEF DirectoryTypeOK, Placed, InExtent
    <2> QED
      BY <1>2, <2>1
  <1>8. CASE ReadItem
    <2>1. CASE ~ReadFails
      <3> DEFINE x == ItemOf(Current, item + 1)
      <3>1. /\ stage = "item"
            /\ entries' = IF x.kind = "name" THEN Append(entries, x.name) ELSE entries
            /\ item' = item + 1 /\ offset' = offset + x.size
            /\ UNCHANGED <<fork, index, position, left, end, stage>>
        BY <1>8, <2>1 DEF ReadItem, loop
      <3>2. x.name \in Names \cup {NoName} /\ x.size \in Nat
        <4>1. Current \in Block /\ item + 1 \in Nat \ {0}
          BY <1>0, <1>1, <3>1 DEF Placed, Current
        <4> QED
          BY <4>1, ItemIs
      <3> HIDE DEF x
      <3>3. entries' \in Seq(Names \cup {NoName})
        <4>1. Append(entries, x.name) \in Seq(Names \cup {NoName})
          BY <1>0, <3>2
        <4> QED
          BY <1>0, <3>1, <4>1
      <3> QED
        BY <1>0, <3>1, <3>2, <3>3 DEF DirectoryTypeOK, Placed, InExtent
    <2> QED
      BY <1>2, <2>1
  <1>9. CASE EndBlock
    <2>1. /\ stage = "item" /\ stage' \in {"block", "extent"}
          /\ position' = position + DirBlocks /\ left' = (left - DirBlocks) % Wrap
          /\ UNCHANGED <<fork, entries, index, item, offset, end>>
      BY <1>9 DEF EndBlock, data
    <2>2. position' \in Nat /\ left' \in Nat
      <3>1. DirBlocks \in Nat /\ Wrap \in Nat \ {0}
        BY DirectoryAssumption
      <3>2. left - DirBlocks \in Int
        BY <1>0, <3>1
      <3> QED
        BY <1>0, <2>1, <3>1, <3>2
    <2>3. WholeExtents => InExtent'
      BY <1>9, BlockIsTaken
    <2>4. WholeExtents' = WholeExtents
      BY DEF WholeExtents
    <2> QED
      BY <1>0, <2>1, <2>2, <2>3, <2>4 DEF DirectoryTypeOK, Placed
  <1>10. CASE UNCHANGED directoryVars
    BY <1>0, <1>10 DEF directoryVars, DirectoryTypeOK, Placed, InExtent
  <1> QED
    BY <1>3, <1>4, <1>5, <1>6, <1>7, <1>8, <1>9, <1>10
    DEF DirectoryNext, DirectoryStep, ReadHasReturned

(* Reading a directory keeps the invariant.                                *)
THEOREM DirectorySafety == DirectorySpec => []DirectoryInv
  BY DirectoryBegin, DirectoryNextPreserves, PTL DEF DirectorySpec

(* libfsxfs_block_directory_read_data: every variable stays in its range;  *)
(* the end of the items is in the block, whatever the number of hash       *)
(* values on the disk is.                                                  *)
THEOREM DirectoryTypeCorrect == DirectorySpec => []DirectoryTypeOK
  <1>1. DirectoryInv => DirectoryTypeOK
    BY DEF DirectoryInv
  <1> QED
    BY <1>1, DirectorySafety, PTL

(* A name is appended from an item that ends in its block.                 *)
LEMMA NameIsInBlock ==
  ASSUME DirectoryInv, WholeExtents, DirectoryNext, NEW n \in Names,
         entries' = Append(entries, n)
  PROVE  IF fork.inline THEN offset' <= fork.size
         ELSE offset' <= BlockUnits /\ HasItems(fork, position)
  <1> USE DEF DirectoryInv
  <1>1. /\ entries \in Seq(Names \cup {NoName}) /\ fork \in Directories
        /\ position \in Nat /\ left \in Nat /\ item \in Nat /\ offset \in Nat
        /\ end \in 0 .. BlockUnits /\ BlockUnits \in Nat
        /\ fork.extents \in Seq(Extent) /\ fork.inline \in BOOLEAN
        /\ \A p \in DOMAIN fork.disk : p \in Nat /\ fork.disk[p] \in Block
    BY DirectoryAssumption, DirectoryIs DEF DirectoryTypeOK, Placed
  <1>2. entries' # entries /\ entries' # <<>>
    <2>1. Len(entries) \in Nat /\ n \in Names \cup {NoName}
      BY <1>1
    <2>2. Len(Append(entries, n)) = Len(entries) + 1
      BY <1>1, <2>1
    <2>3. Len(entries') # Len(entries) /\ Len(entries') # 0
      BY <2>1, <2>2
    <2> QED
      BY <2>3
  <1>3. ~ReadFails
    BY <1>2 DEF ReadFails
  <1>4. CASE ReadTableEntry
    <2>1. stage = "table" /\ offset' = offset + fork.table[item + 1].size
          /\ ~(offset + fork.table[item + 1].size > fork.size) /\ item # Len(fork.table)
      BY <1>3, <1>4 DEF ReadTableEntry
    <2>2. fork.inline /\ item <= Len(fork.table) /\ fork.table \in Seq(Item) /\ fork.size \in Nat
      BY <1>1, <2>1, DirectoryIs DEF Placed
    <2>3. fork.table[item + 1].size \in Nat
      <3>1. item + 1 \in 1 .. Len(fork.table)
        BY <1>1, <2>1, <2>2
      <3>2. fork.table[item + 1] \in Item
        BY <2>2, <3>1
      <3> QED
        BY <3>2 DEF Item
    <2> QED
      BY <1>1, <2>1, <2>2, <2>3
  <1>5. CASE ReadItem
    <2> DEFINE x == ItemOf(Current, item + 1)
    <2>1. /\ stage = "item" /\ offset < end
          /\ ~(x.kind # "free" /\ x.size > end - offset)
          /\ entries' = IF x.kind = "name" THEN Append(entries, x.name) ELSE entries
          /\ offset' = offset + x.size
      BY <1>3, <1>5 DEF ReadItem
    <2>2. x.kind = "name"
      BY <1>2, <2>1
    <2>3. x.size \in Nat
      <3>1. Current \in Block /\ item + 1 \in Nat \ {0}
        BY <1>1, <2>1 DEF Placed, Current
      <3> QED
        BY <3>1, ItemIs
    <2> HIDE DEF x
    <2>4. offset' <= BlockUnits
      BY <1>1, <2>1, <2>2, <2>3
    <2>5. ~fork.inline
      BY <2>1 DEF Placed
    <2>6. PICK y \in Range(fork.extents) :
            /\ y.logical < LeafBlock
            /\ Address(y.physical) <= position
            /\ position + left <= Address(y.physical) + y.blocks
      BY <2>1 DEF InExtent
    <2>7. y.physical \in Nat /\ y.blocks \in Nat /\ Address(y.physical) \in Nat
      <3>1. y \in Extent
        BY <1>1 DEF Range
      <3> QED
        BY <3>1, AddressInDisk DEF Extent
    <2>8. 0 < left
      BY <2>1 DEF InExtent
    <2>9. position < Address(y.physical) + y.blocks
      BY <1>1, <2>6, <2>7, <2>8
    <2>10. HasItems(fork, position)
      BY <2>6, <2>9 DEF HasItems
    <2> QED
      BY <2>4, <2>5, <2>10
  <1>6. CASE EndTable \/ NextExtent \/ EndDirectory \/ ReadBlock \/ EndBlock \/ ReadHasReturned
    BY <1>2, <1>3, <1>6
    DEF EndTable, NextExtent, EndDirectory, ReadBlock, EndBlock, ReadHasReturned, directoryVars
  <1> QED
    BY <1>4, <1>5, <1>6 DEF DirectoryNext, DirectoryStep

LEMMA FailureEmpties ==
  ASSUME DirectoryInv, DirectoryNext, stage' = "error", ~UNCHANGED directoryVars
  PROVE  entries' = <<>>
  <1>1. stage \in {"table", "extent", "block", "item", "done", "error"}
    BY DEF DirectoryInv, DirectoryTypeOK
  <1>2. CASE ReadFails
    BY <1>2 DEF ReadFails
  <1>3. CASE ReadTableEntry \/ ReadItem
    <2>1. ReadFails
      BY <1>3 DEF ReadTableEntry, ReadItem
    <2> QED
      BY <1>2, <2>1
  <1>4. CASE ReadBlock
    <2>1. ReadFails
      BY <1>4 DEF ReadBlock
    <2> QED
      BY <1>2, <2>1
  <1>5. CASE EndTable \/ NextExtent \/ EndDirectory \/ EndBlock
    BY <1>5 DEF EndTable, NextExtent, EndDirectory, EndBlock
  <1> QED
    BY <1>3, <1>4, <1>5 DEF DirectoryNext, DirectoryStep, ReadHasReturned

(* libfsxfs_directory_read_file_io_handle: whatever a damaged directory    *)
(* holds, every name that is listed lies within a block of an extent of    *)
(* the directory, and an error leaves no name behind.                      *)
THEOREM NamesAreRead ==
  ASSUME WholeExtents
  PROVE  DirectorySpec => NothingIsMadeUp
  <1>1. DirectoryInv /\ [DirectoryNext]_directoryVars
          => [/\ \A n \in Names :
                   entries' = Append(entries, n) =>
                     IF fork.inline THEN offset' <= fork.size
                     ELSE /\ offset' <= BlockUnits
                          /\ HasItems(fork, position)
              /\ stage' = "error" => entries' = <<>>]_directoryVars
    BY NameIsInBlock, FailureEmpties
  <1> QED
    BY <1>1, DirectorySafety, PTL DEF DirectorySpec, NothingIsMadeUp

--------------------------------------------------------------------------------

(* The size of the items up to each of them.                               *)
SizesUpTo(items, f) == [k \in 0 .. Len(items) |-> IF k = 0 THEN 0 ELSE f[k - 1] + items[k].size]
Sizes(items) == CHOOSE f : f = SizesUpTo(items, f)

(* The sums of the sizes exist, whatever the items are.                    *)
LEMMA SizesExist ==
  ASSUME NEW items, Len(items) \in Nat
  PROVE  \E f : f = SizesUpTo(items, f)
  <1> DEFINE UpTo(n, f) == f = [k \in 0 .. n |-> IF k = 0 THEN 0 ELSE f[k - 1] + items[k].size]
             I == {n \in Nat : ~\E f : UpTo(n, f)}
             m == Min(I)
  <1>1. I = {}
    <2>1. SUFFICES ASSUME I # {} PROVE FALSE
      OBVIOUS
    <2>2. m \in I /\ m \in Nat /\ \A n \in I : m <= n
      BY <2>1, LeastExists
    <2> HIDE DEF m
    <2>3. CASE m = 0
      <3>1. UpTo(0, [k \in 0 .. 0 |-> 0])
        OBVIOUS
      <3> QED
        BY <2>2, <2>3, <3>1
    <2>4. CASE m # 0
      <3>1. m - 1 \in Nat /\ m - 1 \notin I
        <4> HIDE DEF I
        <4> QED
          BY <2>2, <2>4
      <3>2. PICK f : UpTo(m - 1, f)
        BY <3>1
      <3> DEFINE g == [k \in 0 .. m |-> IF k = 0 THEN 0 ELSE f[k - 1] + items[k].size]
      <3>3. ASSUME NEW k \in 0 .. m, k # 0 PROVE g[k - 1] = f[k - 1]
        <4>1. k - 1 \in 0 .. m /\ k - 1 \in 0 .. m - 1
          BY <2>2, <3>3
        <4> QED
          BY <3>2, <4>1
      <3>4. UpTo(m, g)
        BY <3>3
      <3> HIDE DEF g
      <3> QED
        BY <2>2, <3>4
    <2> QED
      BY <2>3, <2>4
  <1>2. \E f : UpTo(Len(items), f)
    BY <1>1
  <1> QED
    BY <1>2 DEF SizesUpTo

(* The recursion of the sums, and SizeOf as the last of them.              *)
LEMMA SizesAre ==
  ASSUME NEW items \in Seq(Item)
  PROVE  /\ SizeOf(items) = Sizes(items)[Len(items)] /\ Sizes(items)[0] = 0
         /\ \A k \in 1 .. Len(items) : Sizes(items)[k] = Sizes(items)[k - 1] + items[k].size
  <1>1. Len(items) \in Nat
    OBVIOUS
  <1>2. Sizes(items) = SizesUpTo(items, Sizes(items))
    BY <1>1, SizesExist DEF Sizes
  <1>3. SizeOf(items) = Sizes(items)[Len(items)]
    BY DEF SizeOf, Sizes, SizesUpTo
  <1>4. ASSUME NEW k \in 0 .. Len(items)
        PROVE  Sizes(items)[k] = IF k = 0 THEN 0 ELSE Sizes(items)[k - 1] + items[k].size
    BY <1>2 DEF SizesUpTo
  <1> QED
    BY <1>1, <1>3, <1>4

(* Sums of sizes are natural numbers.                                      *)
LEMMA SizesAreNumbers ==
  ASSUME NEW items \in Seq(Item), NEW n \in 0 .. Len(items)
  PROVE  Sizes(items)[n] \in Nat
  <1> DEFINE I == {k \in Nat : k <= Len(items) /\ Sizes(items)[k] \notin Nat}
             m == Min(I)
  <1>1. SUFFICES ASSUME I # {} PROVE FALSE
    OBVIOUS
  <1>2. m \in I /\ m \in Nat /\ \A k \in I : m <= k
    BY <1>1, LeastExists
  <1> HIDE DEF m
  <1>3. m # 0
    BY <1>2, SizesAre
  <1>4. m - 1 \in Nat /\ m - 1 \notin I /\ m \in 1 .. Len(items)
    BY <1>2, <1>3
  <1>5. Sizes(items)[m - 1] \in Nat
    BY <1>2, <1>4
  <1>6. items[m].size \in Nat
    <2>1. items[m] \in Item
      BY <1>4
    <2> QED
      BY <2>1 DEF Item
  <1>7. Sizes(items)[m] = Sizes(items)[m - 1] + items[m].size
    BY <1>4, SizesAre
  <1> QED
    BY <1>2, <1>5, <1>6, <1>7

(* The items up to one of them are no larger than all of them, and smaller *)
(* when every item has a size.                                             *)
LEMMA SizesGrow ==
  ASSUME NEW items \in Seq(Item), NEW i \in 0 .. Len(items), NEW n \in i .. Len(items)
  PROVE  /\ Sizes(items)[i] <= Sizes(items)[n]
         /\ (\A k \in 1 .. Len(items) : items[k].size > 0) /\ i < n
              => Sizes(items)[i] < Sizes(items)[n]
  <1> DEFINE Right(j) == /\ Sizes(items)[i] <= Sizes(items)[j]
                         /\ (\A k \in 1 .. Len(items) : items[k].size > 0) /\ i < j
                              => Sizes(items)[i] < Sizes(items)[j]
             I == {j \in Nat : i <= j /\ j <= Len(items) /\ ~Right(j)}
             m == Min(I)
  <1>1. SUFFICES ASSUME I # {} PROVE FALSE
    OBVIOUS
  <1>2. m \in I /\ m \in Nat /\ \A j \in I : m <= j
    BY <1>1, LeastExists
  <1> HIDE DEF m
  <1>3. Sizes(items)[i] \in Nat
    BY SizesAreNumbers
  <1>4. m # i
    BY <1>2, <1>3
  <1>5. m - 1 \in Nat /\ m - 1 \notin I /\ i <= m - 1 /\ m - 1 <= Len(items)
        /\ m \in 1 .. Len(items) /\ m - 1 \in 0 .. Len(items)
    BY <1>2, <1>4
  <1>6. Sizes(items)[i] <= Sizes(items)[m - 1]
    BY <1>5
  <1>7. Sizes(items)[m] = Sizes(items)[m - 1] + items[m].size /\ Sizes(items)[m - 1] \in Nat
    BY <1>5, SizesAre, SizesAreNumbers
  <1>8. items[m].size \in Nat
    <2>1. items[m] \in Item
      BY <1>5
    <2> QED
      BY <2>1 DEF Item
  <1>9. Sizes(items)[i] <= Sizes(items)[m]
    BY <1>3, <1>6, <1>7, <1>8
  <1>10. (\A k \in 1 .. Len(items) : items[k].size > 0) => Sizes(items)[i] < Sizes(items)[m]
    BY <1>3, <1>5, <1>6, <1>7, <1>8
  <1> QED
    BY <1>2, <1>9, <1>10

(* What a directory has, extent by extent and block by block.              *)
AllNames == Names \cup {NoName}
Runs(d) == [i \in 1 .. Len(d.extents) |-> BlocksOf(d.extents[i])]
Parts(d) == [k \in 1 .. Len(Blocks(d)) |-> NamesIn(d.disk[Blocks(d)[k]].items)]
NameParts(items) == [k \in 1 .. Len(items) |-> NameOf(items[k])]
FooterOf(b) == IF b.signature = "single" THEN b.hashes + 1 ELSE 0

(* The blocks with items that were read to their end.                      *)
DoneIn(d, i, n) == Len(Before(Runs(d), i - 1)) + (d.extents[i].blocks - n)

(* What was listed so far is what is stored up to where the loops are.     *)
Complete ==
  WellFormed(fork) =>
    /\ stage # "error"
    /\ stage = "done" => entries = Stored(fork)
    /\ stage = "table" =>
         /\ entries = [k \in 1 .. item |-> fork.table[k].name]
         /\ offset = Sizes(fork.table)[item]
    /\ stage = "extent" => entries = Before(Parts(fork), Len(Before(Runs(fork), index)))
    /\ stage \in {"block", "item"} =>
         /\ index # 0 /\ fork.extents[index].logical < LeafBlock
         /\ left \in 1 .. fork.extents[index].blocks
         /\ position = Address(fork.extents[index].physical) + (fork.extents[index].blocks - left)
    /\ stage = "block" => entries = Before(Parts(fork), DoneIn(fork, index, left))
    /\ stage = "item" =>
         /\ item <= Len(Current.items) /\ end = EndOfItems(Current)
         /\ entries = Before(Parts(fork), DoneIn(fork, index, left))
                        \o Before(NameParts(Current.items), item)
         /\ offset = HeaderUnits + Sizes(Current.items)[item]

(* The blocks of a directory, extent by extent, in their order.            *)
LEMMA RunsAre ==
  ASSUME NEW d, d.extents \in Seq(Extent)
  PROVE  /\ Runs(d) \in Seq(Seq(Nat)) /\ Len(Runs(d)) = Len(d.extents)
         /\ Blocks(d) = Before(Runs(d), Len(d.extents)) /\ Blocks(d) \in Seq(Nat)
         /\ \A i \in 1 .. Len(d.extents) :
              /\ d.extents[i].logical >= LeafBlock => Runs(d)[i] = <<>>
              /\ d.extents[i].logical < LeafBlock =>
                   /\ Len(Runs(d)[i]) = d.extents[i].blocks
                   /\ \A k \in 1 .. d.extents[i].blocks :
                        Runs(d)[i][k] = Address(d.extents[i].physical) + k - 1
  <1>1. ASSUME NEW i \in 1 .. Len(d.extents)
        PROVE  /\ BlocksOf(d.extents[i]) \in Seq(Nat)
               /\ d.extents[i].logical >= LeafBlock => BlocksOf(d.extents[i]) = <<>>
               /\ d.extents[i].logical < LeafBlock =>
                    /\ Len(BlocksOf(d.extents[i])) = d.extents[i].blocks
                    /\ \A k \in 1 .. d.extents[i].blocks :
                         BlocksOf(d.extents[i])[k] = Address(d.extents[i].physical) + k - 1
    <2> DEFINE x == d.extents[i]
               s == [k \in 1 .. x.blocks |-> Address(x.physical) + k - 1]
    <2>1. x \in Extent
      OBVIOUS
    <2>2. x.logical \in Nat /\ x.physical \in Nat /\ x.blocks \in Nat /\ LeafBlock \in Nat
      BY <2>1, DirectoryAssumption DEF Extent
    <2>3. Address(x.physical) \in Nat
      BY <2>2, AddressInDisk
    <2> HIDE DEF x
    <2>4. s \in Seq(Nat) /\ Len(s) = x.blocks
          /\ \A k \in 1 .. x.blocks : s[k] = Address(x.physical) + k - 1
      BY <2>2, <2>3
    <2>5. BlocksOf(x) = IF x.logical < LeafBlock THEN s ELSE <<>>
      BY DEF BlocksOf
    <2> HIDE DEF s
    <2>6. CASE x.logical < LeafBlock
      BY <2>2, <2>4, <2>5, <2>6 DEF x
    <2>7. CASE ~(x.logical < LeafBlock)
      <3>1. BlocksOf(x) = <<>> /\ <<>> \in Seq(Nat)
        BY <2>5, <2>7
      <3> QED
        BY <2>7, <3>1 DEF x
    <2> QED
      BY <2>6, <2>7
  <1>2. Len(d.extents) \in Nat
    OBVIOUS
  <1>3. Runs(d) \in Seq(Seq(Nat)) /\ Len(Runs(d)) = Len(d.extents)
        /\ \A i \in 1 .. Len(d.extents) : Runs(d)[i] = BlocksOf(d.extents[i])
    BY <1>1, <1>2 DEF Runs
  <1>4. Blocks(d) = FlattenSeq(Runs(d))
    BY DEF Blocks, Runs
  <1>5. Blocks(d) = Before(Runs(d), Len(d.extents)) /\ Blocks(d) \in Seq(Nat)
    BY <1>3, <1>4, FlattenIs
  <1> QED
    BY <1>1, <1>3, <1>5

(* The names of a sequence of items, item by item.                         *)
LEMMA NamesAre ==
  ASSUME NEW items \in Seq(Item)
  PROVE  /\ NameParts(items) \in Seq(Seq(AllNames)) /\ Len(NameParts(items)) = Len(items)
         /\ \A k \in 1 .. Len(items) : NameParts(items)[k] = NameOf(items[k])
         /\ NamesIn(items) = Before(NameParts(items), Len(items))
         /\ NamesIn(items) \in Seq(AllNames)
  <1>1. ASSUME NEW k \in 1 .. Len(items) PROVE NameOf(items[k]) \in Seq(AllNames)
    <2>1. items[k] \in Item
      OBVIOUS
    <2>2. items[k].name \in AllNames
      BY <2>1 DEF Item, AllNames
    <2> QED
      BY <2>2 DEF NameOf
  <1>2. Len(items) \in Nat
    OBVIOUS
  <1>3. /\ NameParts(items) \in Seq(Seq(AllNames)) /\ Len(NameParts(items)) = Len(items)
        /\ \A k \in 1 .. Len(items) : NameParts(items)[k] = NameOf(items[k])
    BY <1>1, <1>2 DEF NameParts
  <1>4. NamesIn(items) = FlattenSeq(NameParts(items))
    BY DEF NamesIn, NameParts
  <1>5. NamesIn(items) = Before(NameParts(items), Len(items)) /\ NamesIn(items) \in Seq(AllNames)
    BY <1>3, <1>4, FlattenIs
  <1> QED
    BY <1>3, <1>5

(* A directory block of one file system block that a file system wrote.    *)
Sound(d, p) ==
  /\ p \in DOMAIN d.disk
  /\ d.disk[p].signature # "none"
  /\ HeaderUnits + SizeOf(d.disk[p].items) + FooterOf(d.disk[p]) = BlockUnits
  /\ \A k \in 1 .. Len(d.disk[p].items) : d.disk[p].items[k].size > 0

(* A part of a sequence that is one element long.                          *)
LEMMA OneElement ==
  ASSUME NEW S, NEW s \in Seq(S), NEW g \in 1 .. Len(s)
  PROVE  SubSeq(s, g, g) = <<s[g]>>
  <1> DEFINE a == SubSeq(s, g, g)
             b == <<s[g]>>
  <1>1. a \in Seq(S)
    OBVIOUS
  <1>2. Len(a) = 1
    OBVIOUS
  <1>3. a[1] = s[g]
    OBVIOUS
  <1>4. b \in Seq(S) /\ Len(b) = 1 /\ b[1] = s[g]
    OBVIOUS
  <1> HIDE DEF a, b
  <1>5. Len(a) = Len(b) /\ \A i \in 1 .. Len(a) : a[i] = b[i]
    BY <1>2, <1>3, <1>4
  <1>6. a = b
    BY <1>1, <1>4, <1>5, SeqEqual
  <1> QED
    BY <1>6 DEF a, b

(* In a well-formed directory of one block each, every block is sound.     *)
LEMMA BlocksAreSound ==
  ASSUME DirBlocks = 1, NEW d \in Directories, WellFormed(d), ~d.inline
  PROVE  \A g \in 1 .. Len(Blocks(d)) : Sound(d, Blocks(d)[g])
  <1> DEFINE p == Blocks(d)
  <1>1. p \in Seq(Nat) /\ d.extents \in Seq(Extent)
    BY DirectoryAssumption, RunsAre
  <1> HIDE DEF p
  <1> SUFFICES ASSUME NEW g \in 1 .. Len(p) PROVE Sound(d, p[g])
    BY DEF p
  <1> DEFINE items == ItemsIn(d, SubSeq(p, (g - 1) * DirBlocks + 1, g * DirBlocks))
             b == d.disk[p[g]]
  <1>2. g \in Nat /\ g > 0 /\ Len(p) \in Nat
    BY <1>1
  <1>3. /\ p[g] \in DOMAIN d.disk
        /\ (b.signature = "none") = (g % DirBlocks # 1 % DirBlocks)
    BY DEF WellFormed, p
  <1>4. g % DirBlocks = 0 /\ 1 % DirBlocks = 0 /\ Len(p) \div DirBlocks = Len(p)
    BY <1>2
  <1>5. b.signature # "none"
    BY <1>3, <1>4
  <1>6. b \in Block
    BY <1>3, DirectoryAssumption
  <1>7. g \in 1 .. Len(p) \div DirBlocks /\ g * DirBlocks = g /\ (g - 1) * DirBlocks + 1 = g
    BY <1>2, <1>4
  <1>8. /\ HeaderUnits + SizeOf(items)
             + (IF d.disk[p[(g - 1) * DirBlocks + 1]].signature = "single"
                  THEN d.disk[p[g * DirBlocks]].hashes + 1 ELSE 0)
             = DirBlocks * BlockUnits
        /\ \A k \in 1 .. Len(items) : items[k].size > 0
    BY <1>7 DEF WellFormed, p
  <1>9. items = b.items
    <2>1. SubSeq(p, g, g) = <<p[g]>>
      BY <1>1, OneElement
    <2>2. items = ItemsIn(d, <<p[g]>>)
      BY <1>7, <2>1
    <2> DEFINE ss == [k \in 1 .. Len(<<p[g]>>) |-> d.disk[<<p[g]>>[k]].items]
    <2>3. ss = <<b.items>> /\ b.items \in Seq(Item)
      BY <1>6 DEF Block
    <2>4. items = FlattenSeq(ss)
      BY <2>2 DEF ItemsIn
    <2> HIDE DEF ss, b, items
    <2>5. ss \in Seq(Seq(Item)) /\ Len(ss) = 1 /\ ss[1] = b.items
      BY <2>3
    <2>6. FlattenSeq(ss) = Before(ss, 1)
      BY <2>5, FlattenIs
    <2>7. Before(ss, 0) = <<>> /\ <<>> \in Seq(Item)
      BY DEF Before
    <2>8. 1 \in 1 .. Len(ss) /\ Before(ss, 1 - 1) = Before(ss, 0)
      BY <2>5
    <2>9. Before(ss, 1) = Before(ss, 1 - 1) \o ss[1]
      BY <2>5, <2>7, <2>8, BeforeNext
    <2>10. <<>> \o b.items = b.items
      BY <2>3, EmptyBegins
    <2> QED
      BY <2>4, <2>5, <2>6, <2>7, <2>8, <2>9, <2>10
  <1>10. HeaderUnits + SizeOf(b.items) + FooterOf(b) = BlockUnits
    <2>1. DirBlocks * BlockUnits = BlockUnits
      BY DirectoryAssumption
    <2> QED
      BY <1>7, <1>8, <1>9, <2>1 DEF FooterOf
  <1> QED
    BY <1>3, <1>5, <1>8, <1>9, <1>10 DEF Sound

(* The names of a directory, block by block.                               *)
LEMMA PartsAre ==
  ASSUME DirBlocks = 1, NEW d \in Directories, WellFormed(d), ~d.inline
  PROVE  /\ Parts(d) \in Seq(Seq(AllNames)) /\ Len(Parts(d)) = Len(Blocks(d))
         /\ \A k \in 1 .. Len(Blocks(d)) :
              Parts(d)[k] = NamesIn(d.disk[Blocks(d)[k]].items)
         /\ Stored(d) = Before(Parts(d), Len(Blocks(d)))
  <1>1. Blocks(d) \in Seq(Nat)
    BY DirectoryAssumption, RunsAre
  <1>2. ASSUME NEW k \in 1 .. Len(Blocks(d))
        PROVE  NamesIn(d.disk[Blocks(d)[k]].items) \in Seq(AllNames)
    <2>1. Sound(d, Blocks(d)[k])
      BY BlocksAreSound
    <2>2. d.disk[Blocks(d)[k]] \in Block
      BY <2>1, DirectoryAssumption DEF Sound
    <2>3. d.disk[Blocks(d)[k]].items \in Seq(Item)
      BY <2>2 DEF Block
    <2> QED
      BY <2>3, NamesAre
  <1>3. Len(Blocks(d)) \in Nat
    BY <1>1
  <1>4. /\ Parts(d) \in Seq(Seq(AllNames)) /\ Len(Parts(d)) = Len(Blocks(d))
        /\ \A k \in 1 .. Len(Blocks(d)) :
             Parts(d)[k] = NamesIn(d.disk[Blocks(d)[k]].items)
    BY <1>2, <1>3 DEF Parts
  <1>5. Stored(d) = FlattenSeq(Parts(d))
    BY DEF Stored, Parts
  <1> QED
    BY <1>4, <1>5, FlattenIs

(* The block that is read is the one behind those that were.               *)
LEMMA BlockIsNext ==
  ASSUME DirBlocks = 1, DirectoryInv, Complete, WellFormed(fork), stage \in {"block", "item"}
  PROVE  LET n == DoneIn(fork, index, left)
         IN  /\ index \in 1 .. Len(fork.extents)
             /\ n \in Nat /\ n + 1 \in 1 .. Len(Blocks(fork))
             /\ Blocks(fork)[n + 1] = position
             /\ Sound(fork, position)
  <1> DEFINE n == DoneIn(fork, index, left)
             x == fork.extents[index]
             k == x.blocks - left + 1
             b == Before(Runs(fork), index - 1)
  <1>1. /\ fork \in Directories /\ fork.extents \in Seq(Extent) /\ ~fork.inline
        /\ index \in 1 .. Len(fork.extents)
        /\ x.logical < LeafBlock /\ left \in 1 .. x.blocks
        /\ position = Address(x.physical) + (x.blocks - left)
    <2>1. fork \in Directories /\ ~fork.inline /\ index \in 0 .. Len(fork.extents)
      BY DEF DirectoryInv, DirectoryTypeOK, Placed
    <2>2. index # 0
      BY DEF Complete
    <2> QED
      BY <2>1, <2>2, DirectoryAssumption DEF Complete
  <1>2. x.blocks \in Nat /\ Address(x.physical) \in Nat
    <2>1. x \in Extent
      BY <1>1
    <2> QED
      BY <2>1, AddressInDisk DEF Extent
  <1>3. k \in 1 .. x.blocks /\ k - 1 = x.blocks - left
    BY <1>1, <1>2
  <1>4. /\ Runs(fork) \in Seq(Seq(Nat)) /\ Len(Runs(fork)) = Len(fork.extents)
        /\ Len(Runs(fork)[index]) = x.blocks
        /\ Runs(fork)[index][k] = Address(x.physical) + k - 1
        /\ Blocks(fork) = Before(Runs(fork), Len(fork.extents))
    BY <1>1, <1>3, RunsAre
  <1>5. b \in Seq(Nat) /\ Len(b) \in Nat
    <2>1. index - 1 \in 0 .. Len(Runs(fork))
      <3>1. Len(fork.extents) \in Nat
        BY <1>1
      <3>2. index - 1 \in 0 .. Len(fork.extents)
        BY <1>1, <3>1
      <3> QED
        BY <1>4, <3>2
    <2>2. b \in Seq(Nat)
      BY <1>4, <2>1, BeforeTyped
    <2> QED
      BY <2>2
  <1>6. n = Len(b) + (k - 1)
    BY <1>3 DEF DoneIn
  <1> HIDE DEF n, k, x, b
  <1>7. n + 1 = Len(b) + k /\ n \in Nat
    BY <1>1, <1>2, <1>3, <1>5, <1>6
  <1>8. /\ Len(b) + k \in 1 .. Len(Blocks(fork))
        /\ Blocks(fork)[Len(b) + k] = Runs(fork)[index][k]
    <2>1. k \in 1 .. Len(Runs(fork)[index]) /\ index \in 1 .. Len(Runs(fork))
          /\ Len(Runs(fork)) \in index .. Len(Runs(fork))
      BY <1>1, <1>3, <1>4
    <2> DEFINE ss == Runs(fork)
               z == Len(ss)
    <2>2. Blocks(fork) = Before(ss, z)
      BY <1>4
    <2>3. ss \in Seq(Seq(Nat)) /\ index \in 1 .. z /\ k \in 1 .. Len(ss[index])
          /\ z \in index .. z /\ z = Len(ss)
      BY <1>4, <2>1
    <2> HIDE DEF ss, z
    <2>4. /\ Len(Before(ss, index - 1)) + k \in 1 .. Len(Before(ss, z))
          /\ Before(ss, z)[Len(Before(ss, index - 1)) + k] = ss[index][k]
      BY <2>3, BeforePlace
    <2> QED
      BY <2>2, <2>4 DEF b, ss
  <1>9. Address(x.physical) + k - 1 = position
    BY <1>1, <1>2, <1>3
  <1>10. Sound(fork, position)
    BY <1>1, <1>4, <1>8, <1>9, BlocksAreSound
  <1> QED
    BY <1>1, <1>4, <1>7, <1>8, <1>9, <1>10 DEF n

(* Before anything is read, nothing is missing.                            *)
LEMMA CompleteBegins == DirectoryInit => Complete
  <1> SUFFICES ASSUME DirectoryInit, WellFormed(fork) PROVE Complete
    BY DEF Complete
  <1>1. /\ fork.table \in Seq(Item) /\ stage \in {"table", "extent"}
        /\ index = 0 /\ item = 0 /\ offset = 0 /\ entries = <<>>
    BY DirectoryAssumption DEF DirectoryInit
  <1>2. Sizes(fork.table)[0] = 0
    BY <1>1, SizesAre
  <1>3. entries = [k \in 1 .. item |-> fork.table[k].name]
    BY <1>1
  <1>4. Before(Runs(fork), 0) = <<>> /\ Len(<<>>) = 0 /\ Before(Parts(fork), 0) = <<>>
    BY DEF Before
  <1>5. entries = Before(Parts(fork), Len(Before(Runs(fork), index)))
    BY <1>1, <1>4
  <1> QED
    BY <1>1, <1>2, <1>3, <1>5 DEF Complete

(* A table that is whole is read to its end.                               *)
LEMMA TableStep ==
  ASSUME DirectoryInv, Complete, WellFormed(fork), ReadTableEntry \/ EndTable
  PROVE  Complete'
  <1> DEFINE t == fork.table
  <1>1. /\ fork \in Directories /\ fork.inline /\ stage = "table" /\ item \in Nat
        /\ item <= Len(t) /\ t \in Seq(Item) /\ fork.size \in Nat
    BY DirectoryAssumption
    DEF DirectoryInv, DirectoryTypeOK, Placed, ReadTableEntry, EndTable
  <1>2. fork.count = Len(t) /\ SizeOf(t) = fork.size
    BY <1>1 DEF WellFormed
  <1>3. entries = [k \in 1 .. item |-> t[k].name] /\ offset = Sizes(t)[item]
    BY <1>1 DEF Complete
  <1> HIDE DEF t
  <1>4. CASE ReadTableEntry
    <2>1. item # Len(t) /\ item + 1 \in 1 .. Len(t)
      BY <1>1, <1>2, <1>4 DEF ReadTableEntry
    <2>2. Sizes(t)[item + 1] = Sizes(t)[item] + t[item + 1].size
      BY <1>1, <2>1, SizesAre
    <2>3. Sizes(t)[item + 1] <= Sizes(t)[Len(t)] /\ Sizes(t)[Len(t)] = fork.size
      <3>1. item + 1 \in 0 .. Len(t) /\ Len(t) \in item + 1 .. Len(t)
        BY <1>1, <2>1
      <3> QED
        BY <1>1, <1>2, <3>1, SizesGrow, SizesAre
    <2>4. Sizes(t)[item + 1] \in Nat
      BY <1>1, <2>1, SizesAreNumbers
    <2>5. ~(item = Len(t) \/ offset + t[item + 1].size > fork.size)
      BY <1>1, <1>3, <2>1, <2>2, <2>3, <2>4
    <2>6. /\ entries' = Append(entries, t[item + 1].name) /\ item' = item + 1
          /\ offset' = offset + t[item + 1].size
          /\ UNCHANGED <<fork, stage>>
      BY <1>4, <2>5 DEF ReadTableEntry, t
    <2>7. entries' = [k \in 1 .. item' |-> t[k].name]
      BY <1>1, <1>3, <2>1, <2>6
    <2> QED
      BY <1>1, <1>3, <2>2, <2>6, <2>7 DEF Complete, t
  <1>5. CASE EndTable
    <2>1. stage' = "done" /\ UNCHANGED <<fork, entries>> /\ item = Len(t)
      BY <1>2, <1>5 DEF EndTable
    <2>2. entries = Stored(fork)
      BY <1>1, <1>3, <2>1 DEF Stored, t
    <2> QED
      BY <2>1, <2>2 DEF Complete
  <1> QED
    BY <1>4, <1>5

(* The next extent is begun, skipped as a leaf, or the last one was read.  *)
LEMMA ExtentStep ==
  ASSUME DirBlocks = 1, DirectoryInv, Complete, WellFormed(fork), NextExtent \/ EndDirectory
  PROVE  Complete'
  <1>1. /\ fork \in Directories /\ ~fork.inline /\ stage = "extent"
        /\ fork.extents \in Seq(Extent) /\ index \in 0 .. Len(fork.extents)
    BY DirectoryAssumption
    DEF DirectoryInv, DirectoryTypeOK, Placed, NextExtent, EndDirectory
  <1>2. entries = Before(Parts(fork), Len(Before(Runs(fork), index)))
    BY <1>1 DEF Complete
  <1>3. /\ Runs(fork) \in Seq(Seq(Nat)) /\ Len(Runs(fork)) = Len(fork.extents)
        /\ Blocks(fork) = Before(Runs(fork), Len(fork.extents))
    BY <1>1, RunsAre
  <1>4. Before(Runs(fork), index) \in Seq(Nat) /\ Len(Before(Runs(fork), index)) \in Nat
    <2>1. Before(Runs(fork), index) \in Seq(Nat)
      BY <1>1, <1>3, BeforeTyped
    <2> QED
      BY <2>1
  <1>5. CASE NextExtent
    <2> DEFINE i == index + 1
               x == fork.extents[i]
    <2>1. i \in 1 .. Len(fork.extents) /\ i - 1 = index /\ i # 0
      BY <1>1, <1>5 DEF NextExtent
    <2>2. /\ index' = i /\ x.logical < LeafBlock
          /\ position' = Address(x.physical) /\ left' = x.blocks
          /\ stage' = IF left' > 0 THEN "block" ELSE "extent"
          /\ UNCHANGED <<fork, entries>>
      BY <1>5 DEF NextExtent
    <2>3. x.blocks \in Nat /\ x.physical \in Nat /\ Address(x.physical) \in Nat
      <3>1. x \in Extent
        BY <1>1, <2>1
      <3> QED
        BY <3>1, AddressInDisk DEF Extent
    <2>4. Len(Runs(fork)[i]) = x.blocks /\ Runs(fork)[i] \in Seq(Nat)
      <3>1. Len(Runs(fork)[i]) = x.blocks
        BY <1>1, <2>1, <2>2, RunsAre
      <3>2. i \in 1 .. Len(Runs(fork))
        BY <1>3, <2>1
      <3> HIDE DEF i
      <3>3. Runs(fork)[i] \in Seq(Nat)
        BY <1>3, <3>2
      <3> QED
        BY <3>1, <3>3
    <2>5. Before(Runs(fork), i) = Before(Runs(fork), index) \o Runs(fork)[i]
      BY <1>3, <1>4, <2>1, BeforeNext
    <2> HIDE DEF i, x
    <2>6. CASE x.blocks = 0
      <3>1. Runs(fork)[i] = <<>>
        BY <2>4, <2>6
      <3>2. Before(Runs(fork), i) = Before(Runs(fork), index)
        BY <1>4, <2>5, <3>1
      <3>3. stage' = "extent" /\ index' = i
        BY <2>2, <2>6
      <3> QED
        BY <1>2, <2>2, <3>2, <3>3 DEF Complete
    <2>7. CASE x.blocks # 0
      <3>1. stage' = "block" /\ left' \in 1 .. x.blocks
        BY <2>2, <2>3, <2>7
      <3>2. DoneIn(fork, i, x.blocks) = Len(Before(Runs(fork), index))
        <4>1. x.blocks - x.blocks = 0
          BY <2>3
        <4>2. DoneIn(fork, i, x.blocks) = Len(Before(Runs(fork), i - 1)) + 0
          BY <4>1 DEF DoneIn, x
        <4> QED
          BY <1>4, <2>1, <4>2
      <3>3. position' = Address(x.physical) + (x.blocks - left')
        BY <2>2, <2>3
      <3>4. (DoneIn(fork, index, left))' = DoneIn(fork, i, x.blocks)
        BY <2>2
      <3> QED
        BY <1>2, <2>1, <2>2, <3>1, <3>2, <3>3, <3>4 DEF Complete, x
    <2> QED
      BY <2>6, <2>7
  <1>6. CASE EndDirectory
    <2>1. /\ stage' = "done" /\ UNCHANGED <<fork, entries>>
          /\ index < Len(fork.extents) => fork.extents[index + 1].logical >= LeafBlock
      BY <1>6 DEF EndDirectory
    <2>2. ASSUME NEW j \in index + 1 .. Len(Runs(fork)) PROVE Runs(fork)[j] = <<>>
      <3>1. j \in 1 .. Len(fork.extents) /\ index < Len(fork.extents)
            /\ index + 1 \in 1 .. Len(fork.extents) /\ index + 1 \in Nat /\ j \in Nat
            /\ (j = index + 1 \/ index + 1 < j)
        BY <1>1, <1>3
      <3>2. /\ fork.extents[index + 1].logical \in Nat /\ fork.extents[index + 1].blocks \in Nat
            /\ fork.extents[j].logical \in Nat
        <4>1. fork.extents[index + 1] \in Extent /\ fork.extents[j] \in Extent
          BY <1>1, <3>1
        <4> QED
          BY <4>1 DEF Extent
      <3>3. index + 1 < j => fork.extents[index + 1].logical + fork.extents[index + 1].blocks
                               <= fork.extents[j].logical
        BY <1>1, <3>1 DEF WellFormed
      <3>4. LeafBlock \in Nat
        BY DirectoryAssumption
      <3>5. fork.extents[j].logical >= LeafBlock
        BY <2>1, <3>1, <3>2, <3>3, <3>4
      <3> QED
        BY <1>1, <3>1, <3>5, RunsAre
    <2>3. Before(Runs(fork), Len(Runs(fork))) = Before(Runs(fork), index)
      BY <1>1, <1>3, <2>2, BeforeStays
    <2>4. entries = Stored(fork)
      BY <1>1, <1>2, <1>3, <2>3, PartsAre
    <2> QED
      BY <2>1, <2>4 DEF Complete
  <1> QED
    BY <1>5, <1>6

(* A block that is sound is accepted and read to its end.                  *)
LEMMA BlockBegins ==
  ASSUME DirBlocks = 1, DirectoryInv, Complete, WellFormed(fork), ReadBlock
  PROVE  Complete'
  <1> DEFINE b == fork.disk[position]
  <1>1. stage = "block"
    BY DEF ReadBlock
  <1>2. Sound(fork, position)
    BY <1>1, BlockIsNext
  <1>3. fork \in Directories /\ BlockUnits \in Nat /\ HeaderUnits \in Nat
    BY DirectoryAssumption DEF DirectoryInv, Placed
  <1>4. b \in Block /\ position \in DOMAIN fork.disk /\ b = Current
    BY <1>2, <1>3, DirectoryAssumption DEF Sound, Current
  <1>5. b.items \in Seq(Item) /\ b.hashes \in Nat
    BY <1>4 DEF Block
  <1>6. SizeOf(b.items) \in Nat /\ Sizes(b.items)[0] = 0 /\ Len(b.items) \in Nat
    <2>1. Len(b.items) \in Nat /\ Len(b.items) \in 0 .. Len(b.items)
      BY <1>5
    <2> QED
      BY <1>5, <2>1, SizesAre, SizesAreNumbers
  <1>7. HeaderUnits + SizeOf(b.items) + FooterOf(b) = BlockUnits /\ b.signature # "none"
    BY <1>2 DEF Sound
  <1> HIDE DEF b
  <1>8. b.signature = "single" => ~(b.hashes > BlockUnits - 1)
    BY <1>3, <1>5, <1>6, <1>7 DEF FooterOf
  <1>9. /\ stage' = "item" /\ item' = 0 /\ offset' = HeaderUnits /\ end' = EndOfItems(b)
        /\ UNCHANGED <<fork, entries, index, position, left>>
    BY <1>4, <1>7, <1>8 DEF ReadBlock, loop
  <1>10. /\ index # 0 /\ fork.extents[index].logical < LeafBlock
         /\ left \in 1 .. fork.extents[index].blocks
         /\ position = Address(fork.extents[index].physical) + (fork.extents[index].blocks - left)
         /\ entries = Before(Parts(fork), DoneIn(fork, index, left))
    BY <1>1 DEF Complete
  <1>11. entries \o Before(NameParts(b.items), 0) = entries
    <2>1. Before(NameParts(b.items), 0) = <<>>
      BY DEF Before
    <2>2. entries \in Seq(AllNames)
      BY DEF DirectoryInv, DirectoryTypeOK, AllNames
    <2> QED
      BY <2>1, <2>2
  <1>12. Current' = b /\ HeaderUnits + 0 = HeaderUnits
    BY <1>3, <1>9 DEF Current, b
  <1>13. (DoneIn(fork, index, left))' = DoneIn(fork, index, left)
    BY <1>9
  <1> QED
    BY <1>6, <1>9, <1>10, <1>11, <1>12, <1>13 DEF Complete

(* The items of a sound block end where the read of it ends.               *)
LEMMA EndIs ==
  ASSUME NEW d \in Directories, NEW p, Sound(d, p)
  PROVE  /\ d.disk[p] \in Block /\ d.disk[p].items \in Seq(Item)
         /\ HeaderUnits + Sizes(d.disk[p].items)[Len(d.disk[p].items)] = EndOfItems(d.disk[p])
         /\ HeaderUnits \in Nat
  <1> DEFINE b == d.disk[p]
  <1>1. b \in Block /\ BlockUnits \in Nat /\ HeaderUnits \in Nat
    BY DirectoryAssumption DEF Sound
  <1>2. b.items \in Seq(Item) /\ b.hashes \in Nat
    BY <1>1 DEF Block
  <1>3. HeaderUnits + SizeOf(b.items) + FooterOf(b) = BlockUnits
    BY DEF Sound
  <1>4. SizeOf(b.items) \in Nat /\ SizeOf(b.items) = Sizes(b.items)[Len(b.items)]
    <2>1. Len(b.items) \in 0 .. Len(b.items)
      BY <1>2
    <2> QED
      BY <1>2, <2>1, SizesAre, SizesAreNumbers
  <1> HIDE DEF b
  <1>5. HeaderUnits + SizeOf(b.items) = EndOfItems(b)
    BY <1>1, <1>2, <1>3, <1>4 DEF FooterOf, EndOfItems
  <1> QED
    BY <1>1, <1>2, <1>4, <1>5 DEF b

(* The next item of a sound block is read without an error.                *)
LEMMA ItemStep ==
  ASSUME DirBlocks = 1, DirectoryInv, Complete, WellFormed(fork), ReadItem
  PROVE  Complete'
  <1> DEFINE b == fork.disk[position]
             x == b.items[item + 1]
             s == Sizes(b.items)
             before == Before(Parts(fork), DoneIn(fork, index, left))
  <1>1. stage = "item" /\ offset < end
    BY DEF ReadItem
  <1>2. Sound(fork, position)
    BY <1>1, BlockIsNext
  <1>3. fork \in Directories /\ b = Current /\ ~fork.inline /\ item \in Nat
    BY <1>1 DEF DirectoryInv, DirectoryTypeOK, Placed, Current
  <1>4. /\ b \in Block /\ b.items \in Seq(Item) /\ HeaderUnits \in Nat
        /\ HeaderUnits + s[Len(b.items)] = EndOfItems(b)
    BY <1>2, <1>3, EndIs
  <1>5. /\ index # 0 /\ fork.extents[index].logical < LeafBlock
        /\ left \in 1 .. fork.extents[index].blocks
        /\ position = Address(fork.extents[index].physical) + (fork.extents[index].blocks - left)
        /\ item <= Len(b.items) /\ end = EndOfItems(b)
        /\ entries = before \o Before(NameParts(b.items), item)
        /\ offset = HeaderUnits + s[item]
    BY <1>1, <1>3 DEF Complete
  <1>6. item # Len(b.items)
    <2>1. SUFFICES ASSUME item = Len(b.items) PROVE offset = end
      <3>1. offset \in Nat /\ end \in Nat /\ offset # end
        BY <1>1 DEF DirectoryInv, DirectoryTypeOK
      <3> QED
        BY <3>1
    <2> QED
      BY <1>4, <1>5, <2>1
  <1>7. item + 1 \in 1 .. Len(b.items) /\ item \in 0 .. Len(b.items)
        /\ item + 1 \in 0 .. Len(b.items) /\ Len(b.items) \in item + 1 .. Len(b.items)
    BY <1>3, <1>4, <1>5, <1>6
  <1>8. /\ s[item + 1] = s[item] + x.size /\ s[item + 1] <= s[Len(b.items)]
        /\ s[item] \in Nat /\ s[Len(b.items)] \in Nat
    <2>1. s[item + 1] = s[item] + x.size
      BY <1>4, <1>7, SizesAre
    <2>2. s[item + 1] <= s[Len(b.items)]
      BY <1>4, <1>7, SizesGrow
    <2>3. s[item] \in Nat
      BY <1>4, <1>7, SizesAreNumbers
    <2>4. s[Len(b.items)] \in Nat
      <3>1. Len(b.items) \in 0 .. Len(b.items)
        BY <1>4
      <3> QED
        BY <1>4, <3>1, SizesAreNumbers
    <2> QED
      BY <2>1, <2>2, <2>3, <2>4
  <1>9. ItemOf(b, item + 1) = x
    <2>1. item + 1 <= Len(b.items)
      BY <1>4, <1>7
    <2> QED
      BY <2>1 DEF ItemOf
  <1>10. x \in Item /\ x.size > 0
    BY <1>2, <1>4, <1>7 DEF Sound
  <1>11. x.size \in Nat /\ x.name \in AllNames
    BY <1>10 DEF Item, AllNames
  <1>12. /\ Parts(fork) \in Seq(Seq(AllNames)) /\ before \in Seq(AllNames)
    <2>1. Parts(fork) \in Seq(Seq(AllNames)) /\ Len(Parts(fork)) = Len(Blocks(fork))
      BY <1>3, PartsAre
    <2>2. DoneIn(fork, index, left) \in 0 .. Len(Parts(fork))
      <3>1. /\ DoneIn(fork, index, left) \in Nat
            /\ DoneIn(fork, index, left) + 1 \in 1 .. Len(Blocks(fork))
        BY <1>1, BlockIsNext
      <3> DEFINE n == DoneIn(fork, index, left)
      <3> HIDE DEF n
      <3> QED
        BY <2>1, <3>1 DEF n
    <2> QED
      BY <2>1, <2>2, BeforeTyped
  <1>13. /\ NameParts(b.items) \in Seq(Seq(AllNames)) /\ Len(NameParts(b.items)) = Len(b.items)
         /\ NameParts(b.items)[item + 1] = NameOf(x)
    BY <1>4, <1>7, NamesAre
  <1>14. Before(NameParts(b.items), item) \in Seq(AllNames)
    BY <1>7, <1>13, BeforeTyped
  <1>15. Before(NameParts(b.items), item + 1) = Before(NameParts(b.items), item) \o NameOf(x)
    <2> DEFINE i == item + 1
    <2>1. i - 1 = item /\ i \in 1 .. Len(NameParts(b.items))
      BY <1>3, <1>7, <1>13
    <2> HIDE DEF i, b
    <2>2. Before(NameParts(b.items), i - 1) \in Seq(AllNames)
      BY <1>14, <2>1
    <2>3. Before(NameParts(b.items), i) = Before(NameParts(b.items), i - 1) \o NameParts(b.items)[i]
      BY <1>13, <2>1, <2>2, BeforeNext
    <2>4. NameParts(b.items)[i] = NameOf(x)
      BY <1>13 DEF i
    <2> HIDE DEF x
    <2>5. Before(NameParts(b.items), i) = Before(NameParts(b.items), item) \o NameOf(x)
      BY <2>1, <2>3, <2>4
    <2> QED
      BY <2>5 DEF i
  <1> HIDE DEF b, x, s, before
  <1>16. ~(x.size = 0 \/ (x.kind # "free" /\ x.size > end - offset))
    BY <1>4, <1>5, <1>8, <1>10, <1>11
  <1>17. /\ entries' = IF x.kind = "name" THEN Append(entries, x.name) ELSE entries
         /\ item' = item + 1 /\ offset' = offset + x.size
         /\ UNCHANGED <<fork, index, position, left, end, stage>>
    BY <1>3, <1>9, <1>16 DEF ReadItem, loop
  <1>18. entries' = before \o Before(NameParts(b.items), item + 1)
    <2> DEFINE c == Before(NameParts(b.items), item)
    <2>1. c \in Seq(AllNames) /\ entries = before \o c
      BY <1>5, <1>14
    <2>2. Before(NameParts(b.items), item + 1) = c \o NameOf(x)
      BY <1>15
    <2> HIDE DEF c
    <2>3. CASE x.kind = "name"
      <3>1. NameOf(x) = <<x.name>> /\ entries' = Append(before \o c, x.name)
        BY <1>17, <2>1, <2>3 DEF NameOf
      <3>2. before \o (c \o <<x.name>>) = Append(before \o c, x.name)
        BY <1>11, <1>12, <2>1
      <3> QED
        BY <2>2, <3>1, <3>2
    <2>4. CASE x.kind # "name"
      <3>1. NameOf(x) = <<>> /\ entries' = before \o c
        BY <1>17, <2>1, <2>4 DEF NameOf
      <3>2. c \o <<>> = c
        BY <2>1
      <3> QED
        BY <2>2, <3>1, <3>2
    <2> QED
      BY <2>3, <2>4
  <1>19. offset' = HeaderUnits + s[item + 1]
    BY <1>4, <1>5, <1>8, <1>11, <1>17
  <1>20. Current' = b
    BY <1>3, <1>17 DEF Current
  <1>21. (DoneIn(fork, index, left))' = DoneIn(fork, index, left)
    BY <1>17
  <1>22. item' <= Len(b.items) /\ end' = EndOfItems(b)
    BY <1>4, <1>5, <1>7, <1>17
  <1> QED
    BY <1>1, <1>5, <1>17, <1>18, <1>19, <1>20, <1>21, <1>22 DEF Complete, s, before

(* Behind the last item of a block the next one is begun.                  *)
LEMMA BlockEnds ==
  ASSUME DirBlocks = 1, WholeExtents, DirectoryInv, Complete, WellFormed(fork), EndBlock
  PROVE  Complete'
  <1> DEFINE b == fork.disk[position]
             s == Sizes(b.items)
             n == DoneIn(fork, index, left)
             x == fork.extents[index]
  <1>1. stage = "item" /\ offset >= end
    BY DEF EndBlock
  <1>2. /\ index \in 1 .. Len(fork.extents)
        /\ n \in Nat /\ n + 1 \in 1 .. Len(Blocks(fork))
        /\ Blocks(fork)[n + 1] = position
        /\ Sound(fork, position)
    BY <1>1, BlockIsNext
  <1>3. /\ fork \in Directories /\ b = Current /\ ~fork.inline /\ item \in Nat
        /\ fork.extents \in Seq(Extent) /\ left \in Nat
    BY <1>1, DirectoryAssumption DEF DirectoryInv, DirectoryTypeOK, Placed, Current
  <1>4. /\ b \in Block /\ b.items \in Seq(Item) /\ HeaderUnits \in Nat
        /\ HeaderUnits + s[Len(b.items)] = EndOfItems(b)
    BY <1>2, <1>3, EndIs
  <1>5. /\ index # 0 /\ x.logical < LeafBlock /\ left \in 1 .. x.blocks
        /\ position = Address(x.physical) + (x.blocks - left)
        /\ item <= Len(b.items) /\ end = EndOfItems(b)
        /\ entries = Before(Parts(fork), n) \o Before(NameParts(b.items), item)
        /\ offset = HeaderUnits + s[item]
    BY <1>1, <1>3 DEF Complete
  <1>6. item = Len(b.items)
    <2>1. item \in 0 .. Len(b.items) /\ Len(b.items) \in item .. Len(b.items)
          /\ Len(b.items) \in 0 .. Len(b.items)
      BY <1>3, <1>4, <1>5
    <2>2. item < Len(b.items) => s[item] < s[Len(b.items)]
      BY <1>2, <1>4, <2>1, SizesGrow DEF Sound
    <2>3. s[item] \in Nat /\ s[Len(b.items)] \in Nat
      BY <1>4, <2>1, SizesAreNumbers
    <2>4. HeaderUnits + s[item] >= HeaderUnits + s[Len(b.items)]
      BY <1>1, <1>4, <1>5
    <2> DEFINE last == s[Len(b.items)]
               here == s[item]
               z == Len(b.items)
    <2> HIDE DEF last, here, z, s, b
    <2>5. ~(here < last)
      <3>1. here \in Nat /\ last \in Nat /\ HeaderUnits \in Nat
            /\ HeaderUnits + here >= HeaderUnits + last
        BY <1>4, <2>3, <2>4 DEF last, here
      <3> QED
        BY <3>1
    <2>6. item \in Nat /\ z \in Nat /\ item <= z /\ ~(item < z)
      BY <1>3, <2>1, <2>2, <2>5 DEF last, here, z
    <2>7. item = z
      BY <2>6
    <2> QED
      BY <2>7 DEF z
  <1>7. x.blocks \in Nat /\ Address(x.physical) \in Nat /\ x \in Range(fork.extents)
    <2>1. x \in Extent
      BY <1>2, <1>3
    <2>2. x \in Range(fork.extents)
      BY <1>2, <1>3 DEF Range
    <2>3. x.blocks \in Nat /\ x.physical \in Nat
      BY <2>1 DEF Extent
    <2> QED
      BY <2>2, <2>3, AddressInDisk
  <1>8. /\ Parts(fork) \in Seq(Seq(AllNames)) /\ Len(Parts(fork)) = Len(Blocks(fork))
        /\ Parts(fork)[n + 1] = NamesIn(b.items)
        /\ NamesIn(b.items) = Before(NameParts(b.items), Len(b.items))
    BY <1>2, <1>3, <1>4, PartsAre, NamesAre
  <1>9. entries = Before(Parts(fork), n + 1)
    <2> DEFINE i == n + 1
    <2> HIDE DEF n
    <2>1. i - 1 = n /\ i \in 1 .. Len(Parts(fork)) /\ n \in 0 .. Len(Parts(fork))
      BY <1>2, <1>8
    <2>2. Parts(fork)[i] = NamesIn(b.items)
      BY <1>8
    <2> HIDE DEF i, b
    <2>3. Before(Parts(fork), i - 1) \in Seq(AllNames)
      BY <1>8, <2>1, BeforeTyped
    <2>4. Before(Parts(fork), i) = Before(Parts(fork), i - 1) \o Parts(fork)[i]
      BY <1>8, <2>1, <2>3, BeforeNext
    <2>5. entries = Before(Parts(fork), i)
      BY <1>5, <1>6, <1>8, <2>1, <2>2, <2>4
    <2> QED
      BY <2>5 DEF i
  <1>10. (left - DirBlocks) % Wrap = left - 1
    <2>1. x.blocks < Wrap /\ Wrap \in Nat \ {0}
      BY <1>3, <1>7, DirectoryAssumption DEF WholeExtents
    <2> DEFINE y == x.blocks
    <2>2. left \in 1 .. y /\ y \in Nat /\ y < Wrap /\ Wrap \in Nat
      BY <1>5, <1>7, <2>1
    <2> HIDE DEF x, y
    <2>5. left - 1 \in Nat /\ left - 1 < Wrap
      BY <2>2
    <2>3. left - DirBlocks = left - 1
      OBVIOUS
    <2> DEFINE l == left - 1
    <2> HIDE DEF l
    <2>4. l % Wrap = l
      BY <2>1, <2>5 DEF l
    <2> QED
      BY <2>3, <2>4 DEF l
  <1>11. /\ position' = position + 1 /\ left' = left - 1
         /\ stage' = IF left' > 0 THEN "block" ELSE "extent"
         /\ UNCHANGED <<fork, entries, index>>
    BY <1>10 DEF EndBlock
  <1>12. DoneIn(fork, index, left - 1) = n + 1
    <2>1. Len(Before(Runs(fork), index - 1)) \in Nat
      <3>1. Runs(fork) \in Seq(Seq(Nat)) /\ index - 1 \in 0 .. Len(Runs(fork))
        BY <1>2, <1>3, RunsAre
      <3>2. Before(Runs(fork), index - 1) \in Seq(Nat)
        BY <3>1, BeforeTyped
      <3> QED
        BY <3>2
    <2> DEFINE c == Len(Before(Runs(fork), index - 1))
               z == x.blocks
    <2>2. n = c + (z - left) /\ DoneIn(fork, index, left - 1) = c + (z - (left - 1))
      BY DEF DoneIn
    <2>3. c \in Nat /\ z \in Nat /\ left \in Int
      BY <1>3, <1>5, <1>7, <2>1
    <2> HIDE DEF c, z, n
    <2> QED
      BY <2>2, <2>3
  <1> HIDE DEF b, n, s, x
  <1>13. CASE left' > 0
    <2>1. stage' = "block" /\ left' \in 1 .. x.blocks
          /\ position' = Address(x.physical) + (x.blocks - left')
      BY <1>3, <1>5, <1>7, <1>11, <1>13
    <2>2. (DoneIn(fork, index, left))' = n + 1
      BY <1>11, <1>12
    <2> QED
      BY <1>5, <1>9, <1>11, <2>1, <2>2 DEF Complete, x
  <1>14. CASE ~(left' > 0)
    <2>1. stage' = "extent" /\ left = 1
      BY <1>3, <1>5, <1>7, <1>11, <1>14
    <2>2. Len(Before(Runs(fork), index)) = n + 1
      <3> DEFINE c == Before(Runs(fork), index - 1)
                 r == Runs(fork)[index]
      <3>1. /\ Runs(fork) \in Seq(Seq(Nat)) /\ index \in 1 .. Len(Runs(fork))
            /\ index - 1 \in 0 .. Len(Runs(fork)) /\ Len(r) = x.blocks
        <4>1. /\ Runs(fork) \in Seq(Seq(Nat)) /\ Len(Runs(fork)) = Len(fork.extents)
              /\ Len(r) = x.blocks
          BY <1>2, <1>3, <1>5, RunsAre DEF x
        <4>2. index \in 1 .. Len(fork.extents) /\ index - 1 \in 0 .. Len(fork.extents)
          BY <1>2
        <4> QED
          BY <4>1, <4>2
      <3>2. c \in Seq(Nat) /\ r \in Seq(Nat)
        BY <3>1, BeforeTyped
      <3>3. Before(Runs(fork), index) = c \o r
        BY <3>1, <3>2, BeforeNext
      <3>4. n + 1 = Len(c) + (x.blocks - (left - 1))
        BY <1>12 DEF DoneIn, x
      <3> HIDE DEF c, r
      <3>5. Len(c \o r) = Len(c) + Len(r)
        BY <3>2
      <3> QED
        BY <1>7, <2>1, <3>1, <3>2, <3>3, <3>4, <3>5
    <2> QED
      BY <1>9, <1>11, <2>1, <2>2 DEF Complete
  <1> QED
    BY <1>13, <1>14

(* Every step of the read keeps what was listed complete.                  *)
LEMMA CompleteStep ==
  ASSUME DirBlocks = 1, WholeExtents, DirectoryInv, Complete, [DirectoryNext]_directoryVars
  PROVE  Complete'
  <1>1. fork' = fork
    BY DEF DirectoryNext, DirectoryStep, ReadTableEntry, EndTable, NextExtent, EndDirectory,
           ReadBlock, ReadItem, EndBlock, ReadFails, ReadHasReturned, directoryVars
  <1>2. CASE ~WellFormed(fork)
    BY <1>1, <1>2 DEF Complete
  <1>3. CASE WellFormed(fork)
    <2>1. CASE UNCHANGED directoryVars
      BY <2>1 DEF directoryVars, Complete, Current
    <2> QED
      BY <1>3, <2>1, TableStep, ExtentStep, BlockBegins, ItemStep, BlockEnds
      DEF DirectoryNext, DirectoryStep, ReadHasReturned
  <1> QED
    BY <1>2, <1>3

(* libfsxfs_directory_read_file_io_handle: a directory of any size that a  *)
(* file system wrote in directory blocks of one file system block is read  *)
(* without an error and gives all of its names, each once and in order.    *)
THEOREM EveryEntryIsListed ==
  ASSUME DirBlocks = 1, WholeExtents
  PROVE  DirectorySpec => []ListsEveryEntry
  <1>1. DirectoryInv /\ Complete /\ [DirectoryNext]_directoryVars => Complete'
    BY CompleteStep
  <1>2. Complete => ListsEveryEntry
    BY DEF Complete, ListsEveryEntry
  <1> QED
    BY <1>1, <1>2, CompleteBegins, DirectorySafety, PTL DEF DirectorySpec

================================================================================
