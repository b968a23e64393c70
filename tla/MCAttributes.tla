----------------------------- MODULE MCAttributes -----------------------------
(* Attributes forks on a disk of two allocation groups of 4 blocks         *)
(* (numbers 0 to 3 and 8 to 11).  The fork has two extents: its blocks 0   *)
(* and 1 are the blocks 4 and 5 of the disk, its blocks 2 and 3 the blocks *)
(* 1 and 2.  A leaf is 8 units, its header 1.                              *)
EXTENDS Attributes

CONSTANTS a, b

Local(n, at, size) ==
  [name |-> n, prefix |-> "user", nameSize |-> 1, at |-> at, local |-> TRUE,
   valueSize |-> size, block |-> 0]
Remote(n, at, block, size) ==
  [name |-> n, prefix |-> "trusted", nameSize |-> 1, at |-> at, local |-> FALSE,
   valueSize |-> size, block |-> block]
Nameless == [Local(a, 3, 1) EXCEPT !.nameSize = 0]
Strange == [Local(a, 3, 1) EXCEPT !.prefix = "other"]

LeafOf(s, count) == [kind |-> "leaf", count |-> count, entries |-> s]
BranchOf(s, count) == [kind |-> "branch", count |-> count, entries |-> s]
NoBlock == [kind |-> "other", count |-> 0, entries |-> <<>>]

(* The last unit of a leaf is 7: entries that end with it, with their name *)
(* or their data, one behind it, that begin in the entries or behind the   *)
(* leaf.  The leaf is as large as values_offset can say.                   *)
MCEntries == {Local(a, 3, 1), Local(b, 6, 0), Local(b, 6, 1), Local(b, 5, 2), Local(a, 2, 0), Local(b, 8, 0),
              Remote(b, 5, 2, 2), Remote(a, 5, 2, 1), Remote(b, 6, 2, 1), Nameless, Strange}

Leaves == {LeafOf(s, n) : s \in BoundedSeq(MCEntries, 2), n \in 0 .. 2}
            \cup {LeafOf(<<Local(a, 3, 1)>>, 8)}

First == LeafOf(<<Local(a, 3, 1), Remote(b, 5, 2, 2)>>, 2)
Second == LeafOf(<<Local(b, 6, 0)>>, 1)
Damaged == LeafOf(<<Local(a, 3, 1), Local(b, 5, 2)>>, 2)

Branches == {BranchOf(s, Len(s)) : s \in {<<1>>, <<1, 2>>, <<2, 1>>, <<0>>, <<1, 0>>, <<1, 7>>}}
              \cup {BranchOf(<<1, 2>>, 3), BranchOf(<<1>>, 8)}

MCExtents == <<[logical |-> 0, physical |-> 8, blocks |-> 2],
               [logical |-> 2, physical |-> 1, blocks |-> 2]>>

Mapping(disk) ==
  [type |-> "mapped", version |-> 4, count |-> 0, size |-> 1, stated |-> 0,
   entries |-> <<>>, extents |-> MCExtents, disk |-> disk]

InTable(s, count, stated, size) ==
  [type |-> "inline", version |-> 4, count |-> count, size |-> size, stated |-> stated,
   entries |-> s, extents |-> <<>>, disk |-> <<>>]

TableEntries == {Local(a, 0, 1), Local(b, 0, 0), [Local(b, 0, 0) EXCEPT !.nameSize = 4], Strange}

Trees ==
  {Mapping(4 :> x) : x \in Leaves}
  \cup {Mapping(4 :> x @@ 5 :> y @@ 1 :> z) :
          x \in Branches,
          y \in {First, Second, Damaged, NoBlock, BranchOf(<<2>>, 1), BranchOf(<<2, 2>>, 2), BranchOf(<<0>>, 1)},
          z \in {First, Second, BranchOf(<<1>>, 1), BranchOf(<<3>>, 1)}}

MCForks ==
  Trees
  \cup {[Mapping(4 :> First) EXCEPT !.version = 5], [Mapping(4 :> First) EXCEPT !.extents = <<>>],
        [Mapping(4 :> First) EXCEPT !.type = "none"]}
  \cup {InTable(s, n, d, 6) : s \in BoundedSeq(TableEntries, 2), n \in 0 .. 3, d \in {0, 6, 7}}

(* Values that are not at the start of an extent, and in two extents.      *)
RemoteForks ==
  {Mapping(4 :> LeafOf(<<Remote(a, 5, n, k)>>, 1)) : n \in 0 .. 4, k \in 1 .. 3}
===============================================================================
