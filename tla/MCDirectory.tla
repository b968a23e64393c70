----------------------------- MODULE MCDirectory -----------------------------
(* Directories of a disk of two allocation groups of 4 blocks (numbers 0   *)
(* to 3 and 8 to 11).  A block is 6 units, its header 1: a short and a     *)
(* long name fill it.                                                      *)
EXTENDS Directory

CONSTANTS a, b

Named(n) == [kind |-> "name", size |-> IF n = a THEN 2 ELSE 3, name |-> n]
Self == [kind |-> "self", size |-> 2, name |-> NoName]
Parent == [kind |-> "parent", size |-> 2, name |-> NoName]
Free(n) == [kind |-> "free", size |-> n, name |-> NoName]

MCItems == {Named(a), Named(b), Self, Free(0), Free(1), Free(7)}

MCBlocks ==
  {[signature |-> "data", items |-> i, hashes |-> 0] : i \in BoundedSeq(MCItems, 2)}
  \cup {[signature |-> "single", items |-> i, hashes |-> h] :
          i \in BoundedSeq(MCItems, 2), h \in {0, 1}}
  \cup {[signature |-> "none", items |-> <<>>, hashes |-> 0],
        [signature |-> "single", items |-> <<Named(a)>>, hashes |-> 6]}

Second ==
  {[signature |-> "data", items |-> i, hashes |-> 0] :
     i \in {<<Named(b), Named(a)>>, <<Named(a), Free(3)>>, <<Named(b)>>}}
  \cup {[signature |-> "none", items |-> <<>>, hashes |-> 0]}

OnDisk(extents, disk) ==
  [inline |-> FALSE, table |-> <<>>, count |-> 0, size |-> 0, extents |-> extents, disk |-> disk]

Inline(table, count, size) ==
  [inline |-> TRUE, table |-> table, count |-> count, size |-> size,
   extents |-> <<>>, disk |-> <<>>]

Leaf == [logical |-> 9, physical |-> 1, blocks |-> 1]

TwoBlocks(x, y) ==
  {OnDisk(<<[logical |-> 0, physical |-> 2, blocks |-> 2]>>, 2 :> x @@ 3 :> y),
   OnDisk(<<[logical |-> 0, physical |-> 8, blocks |-> 1],
            [logical |-> 1, physical |-> 3, blocks |-> 1], Leaf>>, 4 :> x @@ 3 :> y @@ 1 :> x)}

MCDirectories ==
  UNION {TwoBlocks(x, y) : x \in MCBlocks, y \in Second}
  \cup {OnDisk(<<[logical |-> 0, physical |-> 2, blocks |-> 1]>>, 2 :> x) : x \in MCBlocks}
  \cup {Inline(t, n, s) : t \in BoundedSeq({Named(a), Named(b)}, 2), n \in 0 .. 3, s \in 0 .. 5}

(* Directory blocks of two blocks: the names are in the second one too.    *)
First == [signature |-> "data", items |-> <<Self, Parent, Free(1)>>, hashes |-> 0]
Rest == [signature |-> "none", items |-> <<Named(a), Named(b), Free(1)>>, hashes |-> 0]
LargeDirectories == TwoBlocks(First, Rest)
===============================================================================
