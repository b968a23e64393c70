---------------------------- MODULE MCPathLookup ----------------------------
(* Paths of up to five characters in trees of a root, a directory that may *)
(* contain itself or the root, and a file.                                 *)
EXTENDS PathLookup

CONSTANTS a, b, root, sub, file

E(name, i) == [name |-> name, inode |-> i]

MCListings ==
  {root :> r @@ sub :> s @@ file :> <<>> :
     r \in {<<E(<<a>>, sub), E(<<b>>, file)>>, <<E(<<a, b>>, sub), E(<<a>>, file)>>,
            <<E(<<a>>, sub), E(<<a>>, file)>>},
     s \in {<<E(<<b>>, file)>>, <<E(<<a>>, sub)>>, <<E(<<b>>, root), E(<<a>>, file)>>}}

MCPaths == BoundedSeq({Separator, a, b}, 5) \cup {<<a, Nul>>, <<a, Nul, b>>}
===============================================================================
