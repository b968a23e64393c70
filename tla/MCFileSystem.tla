----------------------------- MODULE MCFileSystem -----------------------------
(* Images for TLC: allocation group 1 has any tree of up to three blocks   *)
(* from block 1 on, group 2 a leaf in block 2; every way to damage the     *)
(* first.                                                                  *)
EXTENDS FileSystem

MCRoots == {Leaf(<<0, 2>>)}
  \cup {Branch(<<2>>, <<b>>) : b \in Blocks}
  \cup {Branch(<<0, 2>>, <<b, c>>) : b \in Blocks, c \in Blocks}
MCNodes == {Bad, Leaf(<<>>), Leaf(<<0>>), Leaf(<<2>>), Leaf(<<2, 0>>)}
  \cup {Branch(<<2>>, <<b>>) : b \in Blocks}
  \cup {Branch(<<0, 2>>, <<b, 3>>) : b \in Blocks}

MCFirst ==
  [superblock : {TRUE}, information : BOOLEAN, root : {1},
   node : {<<r, b, c>> : r \in MCRoots, b \in MCNodes, c \in MCNodes}]
MCSecond ==
  [superblock : BOOLEAN, information : {TRUE}, root : {2},
   node : {[b \in Blocks |-> IF b = 2 THEN Leaf(<<0>>) ELSE Bad]}]

MCImages == {<<a, b>> : a \in MCFirst, b \in MCSecond}
===============================================================================
