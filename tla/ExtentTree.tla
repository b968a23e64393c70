----------------------------- MODULE ExtentTree -----------------------------
(***************************************************************************)
(* Where the leaves of module Extents come from: the extent list in an     *)
(* inode, or the leaf blocks of an extent B+ tree that the root node in    *)
(* the inode points to (libfsxfs_extent_btree_get_extents_from_root_node,  *)
(* ..._from_branch_node, ..._from_node).                                   *)
(*                                                                         *)
(* Every action is one of Extents with what the walk adds to it.  Blocks   *)
(* are damaged in any way: out of reach, of another signature, of any      *)
(* level, with more records than they have room for; a root may name a     *)
(* block more than once.  The maximum depth of a tree is never assigned    *)
(* after the tree is cleared: a block that is not a leaf is refused, and a *)
(* walk never goes deeper than one block.                                  *)
(*                                                                         *)
(* What a block holds is chosen when it is first read, and is the same     *)
(* whenever it is read again: the image does not change.                   *)
(***************************************************************************)
EXTENDS Extents, SequencesExt

CONSTANTS
  Blocks,     \* block numbers a root node may name
  ListPlace,  \* the place of an extent list
  Levels,     \* levels a node of a tree may have on disk
  Counts,     \* numbers of records a node, or the inode of a list, may state
  Rooms       \* numbers of records the data of a node or a list has room for

ASSUME ExtentTreeAssumption ==
  /\ Levels \subseteq Nat
  /\ Counts \subseteq Nat
  /\ Rooms \subseteq Nat
  /\ ListPlace \notin Blocks

VARIABLES
  root,       \* the node in the inode: of an extent list, the list itself
  named,      \* the block numbers in the root; of a list, the inode
  contents,   \* the records of every leaf that was read, by its place
  visited,    \* record_index of the root node: leaves begun so far
  left        \* the records of the current leaf that are still to be read

tree == <<root, named, contents, visited, left>>
treeVars == <<vars, tree>>

(* A node as it is stored; sound when its block can be read and has the    *)
(* signature of the format version.  The root is data of the inode.        *)
Node == [sound : BOOLEAN, level : Levels, count : Counts, room : Rooms]

MaximumDepth == 0

IsLeaf(n) == n.level = 0

(* The root node of a tree is a branch; its keys and its block numbers are *)
(* in the data fork of the inode.                                          *)
RootAccepted(n) == n.level # 0 /\ n.count <= n.room

(* An extent list has no header: the inode states the number of records.   *)
ListAccepted(n) == n.count <= n.room /\ n.room > 0

(* A block below the root: a block above the maximum depth is refused, and *)
(* one that is not a leaf would be walked as a branch.                     *)
BlockAccepted(n) ==
  /\ n.sound
  /\ n.level <= MaximumDepth
  /\ IsLeaf(n)
  /\ n.count <= n.room
  /\ n.room > 0

------------------------------------------------------------------------------

TreeInit ==
  /\ Init
  /\ root \in {n \in Node : n.sound}
  /\ named \in IF isBtree THEN [1 .. root.count -> Blocks] ELSE {<<ListPlace>>}
  /\ contents = <<>>
  /\ visited = 0
  /\ left = <<>>

(* A leaf is given to libfsxfs_extents_read_data with all of its records.  *)
BeginLeafAt(place, count) ==
  /\ Len(records) + count <= MaxRecords
  /\ BeginLeaf
  /\ left' \in [1 .. count -> Record]
  /\ place \in DOMAIN contents => left' = contents[place]
  /\ contents' = [p \in DOMAIN contents \cup {place} |-> IF p = place THEN left' ELSE contents[p]]
  /\ visited' = visited + 1
  /\ UNCHANGED <<root, named>>

(* The records of the list in the inode.                                   *)
BeginList ==
  /\ ~isBtree
  /\ ListAccepted(root)
  /\ BeginLeafAt(ListPlace, root.count)

BeginBlockAgain(n) ==
  /\ isBtree
  /\ RootAccepted(root)
  /\ visited < root.count
  /\ BlockAccepted(n)
  /\ BeginLeafAt(named[1], n.count)

(* The next block number of the root node.                                 *)
BeginBlock(n) ==
  /\ isBtree
  /\ RootAccepted(root)
  /\ visited < root.count
  /\ BlockAccepted(n)
  /\ BeginLeafAt(named[visited + 1], n.count)

ReadNext ==
  /\ left # <<>>
  /\ ReadRecord(Head(left))
  /\ left' = Tail(left)
  /\ UNCHANGED <<root, named, contents, visited>>

EndBlock ==
  /\ left = <<>>
  /\ EndLeaf
  /\ UNCHANGED tree

(* Every block of the root node was read, or the list.                     *)
FinishTree ==
  /\ isBtree => RootAccepted(root) /\ visited = root.count
  /\ Finish
  /\ UNCHANGED tree

(* The list, the root node or the next block cannot be used.               *)
RefuseTree ==
  /\ IF isBtree
       THEN \/ ~RootAccepted(root)
            \/ visited < root.count /\ \E n \in Node : ~BlockAccepted(n)
       ELSE ~ListAccepted(root)
  /\ Fail
  /\ UNCHANGED tree

TreeEnded == Ended /\ UNCHANGED tree

TreeNext ==
  \/ BeginList
  \/ \E n \in Node : BeginBlock(n)
  \/ ReadNext
  \/ EndBlock
  \/ FinishTree
  \/ RefuseTree
  \/ TreeEnded

TreeSpec == TreeInit /\ [][TreeNext]_treeVars

------------------------------------------------------------------------------

(* The records of a leaf of the root, of one that was not read none.       *)
RecordsAt(place) == IF place \in DOMAIN contents THEN contents[place] ELSE <<>>
LeavesNamed == [k \in 1 .. Len(named) |-> RecordsAt(named[k])]

(* A fork that was read is the whole fork: the records of the leaves that  *)
(* the root names, of every one of them and in its order.  A block that is *)
(* skipped or taken for another, or a leaf that is left before its end,    *)
(* would leave a file with a hole where it has data, and no error.         *)
WholeForkIsRead ==
  pc = "done" =>
    /\ Range(named) \subseteq DOMAIN contents
    /\ records = FlattenSeq(LeavesNamed)

==============================================================================
