------------------------------ MODULE FileSystem ------------------------------
(***************************************************************************)
(* Inode numbers to inodes: the information of every allocation group is   *)
(* read when the volume is opened, and a lookup walks the inode B+ tree of *)
(* the allocation group the number belongs to.  A step is one allocation   *)
(* group or one block of a tree.  Images are arbitrary: a block may be     *)
(* unreadable, and a tree may lead to itself.                              *)
(***************************************************************************)
EXTENDS Integers, Sequences, FiniteSets

CONSTANTS
  Groups,    \* number of allocation groups
  Blocks,    \* block numbers of an allocation group that a tree may name
  Images,    \* the images considered
  Relative,  \* 2 ^ number_of_relative_inode_number_bits
  ChunkSize, \* inodes of a chunk: 64
  Width,     \* inode numbers of a record are of 32 bits: they wrap at Width
  MaxInode,  \* the largest inode number that is accepted: UINT32_MAX
  MaxDepth   \* LIBFSXFS_MAXIMUM_RECURSION_DEPTH

(* A readable block is a leaf with the first inodes of its chunks or a     *)
(* branch with as many keys as sub blocks.                                 *)
Leaf(chunks) == [kind |-> "leaf", chunks |-> chunks, keys |-> <<>>, subs |-> <<>>]
Branch(keys, subs) == [kind |-> "branch", chunks |-> <<>>, keys |-> keys, subs |-> subs]
Bad == [kind |-> "bad", chunks |-> <<>>, keys |-> <<>>, subs |-> <<>>]

Node ==
  {n \in [kind : {"leaf", "branch", "bad"},
          chunks : Seq(Nat), keys : Seq(Nat), subs : Seq(Blocks)] :
     /\ Len(n.keys) = Len(n.subs)
     /\ n.kind # "leaf" => n.chunks = <<>>
     /\ n.kind # "branch" => n.subs = <<>>}

AllocationGroup ==
  [superblock : BOOLEAN, information : BOOLEAN, root : Blocks, node : [Blocks -> Node]]

ASSUME FileSystemAssumption ==
  /\ Groups \in Nat \ {0}
  /\ Relative \in Nat \ {0}
  /\ ChunkSize \in Nat \ {0}
  /\ Width \in Nat \ {0}
  /\ MaxInode \in Nat
  /\ MaxDepth \in Nat
  /\ Images \subseteq [1 .. Groups -> AllocationGroup]

VARIABLES
  image,  \* what is on disk
  infos,  \* inode_information_array: the group each information was read from
  next,   \* the allocation group that libfsxfs_internal_volume_open_read is at
  phase,     \* "opening", "failed", "ready" or "node": in the tree
  number, \* the inode number looked up
  block,  \* relative_block_number of the block to visit
  depth,  \* recursion_depth
  answer  \* of the last lookup: "none", "found", "missing" or "error"

fileSystemVars == <<image, infos, next, phase, number, block, depth, answer>>

GroupIndex(n) == n \div Relative + 1
RelativeNumber(n) == n % Relative

------------------------------------------------------------------------------

FileSystemInit ==
  /\ image \in Images
  /\ infos = <<>>
  /\ next = 1
  /\ phase = "opening"
  /\ number = 0 /\ depth = 0 /\ answer = "none"
  /\ block = image[1].root

(* One turn of the loop: an unreadable superblock fails the open and frees *)
(* the file system; an unreadable inode information does not, although     *)
(* nothing is appended for it.                                             *)
ReadGroup ==
  /\ phase = "opening" /\ next <= Groups
  /\ IF image[next].superblock
       THEN /\ infos' = IF image[next].information THEN Append(infos, next) ELSE infos
            /\ next' = next + 1
            /\ phase' = phase
       ELSE infos' = <<>> /\ next' = next /\ phase' = "failed"
  /\ UNCHANGED <<image, number, block, depth, answer>>

Opened ==
  /\ phase = "opening" /\ next > Groups
  /\ phase' = "ready"
  /\ UNCHANGED <<image, infos, next, number, block, depth, answer>>

(* A number that is out of bounds, or of a group without an entry in the   *)
(* array, is an error.                                                     *)
Refuse(n) ==
  /\ phase = "ready"
  /\ n = 0 \/ n > MaxInode \/ GroupIndex(n) > Len(infos)
  /\ number' = n
  /\ answer' = "error"
  /\ UNCHANGED <<image, infos, next, phase, block, depth>>

(* The blocks of the tree are looked for in the group of the number, its   *)
(* root is what the information at that index says.                        *)
Tree == image[GroupIndex(number)]
SearchRoot == image[infos[GroupIndex(number)]].root

Begin(n) ==
  /\ phase = "ready"
  /\ n > 0 /\ n <= MaxInode /\ GroupIndex(n) <= Len(infos)
  /\ number' = n
  /\ answer' = "none"
  /\ block' = image[infos[GroupIndex(n)]].root
  /\ depth' = 0
  /\ phase' = "node"
  /\ UNCHANGED <<image, infos, next>>

Answer(a) ==
  /\ answer' = a
  /\ phase' = "ready"
  /\ UNCHANGED <<image, infos, next, number, block, depth>>

VisitBad ==
  /\ phase = "node" /\ Tree.node[block].kind = "bad"
  /\ Answer("error")

InChunkInclusive(n, first) == n >= first /\ n <= (first + ChunkSize) % Width

(* The first record whose chunk has the number ends the search.            *)
InChunk(n, first) == n >= first /\ n < (first + ChunkSize) % Width

VisitLeaf ==
  /\ phase = "node" /\ Tree.node[block].kind = "leaf"
  /\ LET chunks == Tree.node[block].chunks
     IN  Answer(IF \E i \in 1 .. Len(chunks) : InChunk(RelativeNumber(number), chunks[i])
                THEN "found" ELSE "missing")

PositionBefore(keys, n) ==
  Cardinality({i \in 1 .. Len(keys) : \A k \in 1 .. i : keys[k] < n})

(* The number of leading keys that are not larger than the number.         *)
Position(keys, n) ==
  Cardinality({i \in 1 .. Len(keys) : \A k \in 1 .. i : keys[k] <= n})

VisitBranchSameDepth ==
  /\ phase = "node" /\ Tree.node[block].kind = "branch"
  /\ LET node == Tree.node[block]
         i == Position(node.keys, RelativeNumber(number))
     IN  IF depth > MaxDepth THEN Answer("error")
         ELSE IF i = 0 THEN Answer("missing")
         ELSE /\ block' = node.subs[i]
              /\ depth' = depth
              /\ UNCHANGED <<image, infos, next, phase, number, answer>>

VisitBranch ==
  /\ phase = "node" /\ Tree.node[block].kind = "branch"
  /\ LET node == Tree.node[block]
         i == Position(node.keys, RelativeNumber(number))
     IN  IF depth > MaxDepth THEN Answer("error")
         ELSE IF i = 0 THEN Answer("missing")
         ELSE /\ block' = node.subs[i]
              /\ depth' = depth + 1
              /\ UNCHANGED <<image, infos, next, phase, number, answer>>

Visit == VisitBad \/ VisitLeaf \/ VisitBranch

Failed == phase = "failed" /\ UNCHANGED fileSystemVars

FileSystemNext ==
  \/ ReadGroup \/ Opened \/ Failed
  \/ \E n \in 0 .. Groups * Relative : Refuse(n) \/ Begin(n)
  \/ Visit

(* An open or a lookup that has begun runs to its end.                     *)
FileSystemSpec ==
  /\ FileSystemInit
  /\ [][FileSystemNext]_fileSystemVars
  /\ WF_fileSystemVars(ReadGroup \/ Opened \/ Visit)

------------------------------------------------------------------------------

(* What the image says, without a search: a set of blocks is closed when   *)
(* it has the sub blocks of its branches, the blocks reachable from one    *)
(* are in every closed set that has it.                                    *)
Subs(tree, b) == {tree.node[b].subs[i] : i \in 1 .. Len(tree.node[b].subs)}

Closed(tree, S) == \A b \in S : Subs(tree, b) \subseteq S

Reachable(tree, from) ==
  {b \in Blocks : \A S \in SUBSET Blocks : from \in S /\ Closed(tree, S) => b \in S}

(* The inodes in the chunks of the leaves.                                 *)
Stored(tree, from, n) ==
  \E b \in Reachable(tree, from) :
    \E i \in 1 .. Len(tree.node[b].chunks) :
      tree.node[b].chunks[i] <= n /\ n < tree.node[b].chunks[i] + ChunkSize

StoredInodes(tree, from) == {n \in 0 .. Relative - 1 : Stored(tree, from, n)}

(* Levels that descend from every block to what is below it, the root of a *)
(* tree no higher than the limit of the recursion.                         *)
Descends(tree, level) ==
  \A b \in Reachable(tree, tree.root) : \A c \in Subs(tree, b) : level[c] < level[b]

Levels == [Blocks -> 0 .. MaxDepth]

(* An undamaged tree: every block can be read, levels descend, no chunk    *)
(* ends where the numbers wrap, keys ascend and bound what is below them.  *)
SearchTree(tree) ==
  /\ \E level \in Levels : Descends(tree, level)
  /\ \A b \in Reachable(tree, tree.root) :
       LET node == tree.node[b]
           below(i) == StoredInodes(tree, node.subs[i])
       IN  /\ node.kind # "bad"
           /\ \A i \in 1 .. Len(node.chunks) : node.chunks[i] + ChunkSize < Width
           /\ \A i, j \in 1 .. Len(node.keys) :
                i < j => node.keys[i] < node.keys[j] /\ \A n \in below(i) : n < node.keys[j]
           /\ \A i \in 1 .. Len(node.keys) : \A n \in below(i) : node.keys[i] <= n

UndamagedImages ==
  {i \in Images : \A g \in 1 .. Groups :
     i[g].superblock /\ i[g].information /\ SearchTree(i[g])}

(* The type invariant.                                                     *)
FileSystemTypeOK ==
  /\ image \in Images
  /\ infos \in Seq(1 .. Groups)
  /\ next \in 1 .. Groups + 1
  /\ phase \in {"opening", "failed", "ready", "node"}
  /\ number \in 0 .. Groups * Relative
  /\ block \in Blocks
  /\ depth \in Nat
  /\ answer \in {"none", "found", "missing", "error"}

(* The stack of the recursion is bounded whatever the tree looks like.     *)
DepthBounded == depth <= MaxDepth + 1

(* No inode is made up: what a lookup finds is in a chunk of a leaf of its *)
(* own group that is reachable from where the search began, in any image.  *)
FoundIsStored ==
  answer = "found" =>
    /\ GroupIndex(number) \in 1 .. Len(infos)
    /\ RelativeNumber(number) \in StoredInodes(Tree, SearchRoot)

(* The documented meaning of an inode number: it is of the allocation      *)
(* group in its upper bits, so the search begins at the root of that       *)
(* group's tree, also when another group is damaged.                       *)
FoundInOwnGroup ==
  answer = "found" =>
    LET own == image[GroupIndex(number)]
    IN  RelativeNumber(number) \in StoredInodes(own, own.root)

(* On an undamaged image a lookup of a number that is accepted finds every *)
(* inode in a chunk and no other, and there is no error.                   *)
AllocatedIsFound ==
  /\ answer # "none" /\ image \in UndamagedImages
  /\ number \in 1 .. Groups * Relative - 1 /\ number <= MaxInode
  =>
    LET own == image[GroupIndex(number)]
    IN  answer = IF RelativeNumber(number) \in StoredInodes(own, own.root)
                 THEN "found" ELSE "missing"

(* Every open and every lookup ends, in trees with cycles too.             *)
CallsEnd == phase \in {"opening", "node"} ~> phase \in {"ready", "failed"}
===============================================================================
