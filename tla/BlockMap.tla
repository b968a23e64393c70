------------------------------- MODULE BlockMap -------------------------------
(***************************************************************************)
(* What reading a fork promises: a map from the blocks of a file to the    *)
(* blocks of the volume that grows extent by extent in the order of the    *)
(* file, holes included, and covers the file when it is complete.  0       *)
(* stands for a hole: block 0 of the volume holds the superblock.          *)
(***************************************************************************)
EXTENDS Integers, FiniteSets

CONSTANTS Gaps,    \* lengths of a hole before an extent
          Counts,  \* lengths of an extent
          Blocks   \* blocks of the volume an extent may start at

VARIABLES size,    \* blocks of the file
          map,     \* [0 .. n - 1 -> blocks of the volume or 0]
          state    \* "reading", "complete" or "failed"

vars == <<size, map, state>>

Length == Cardinality(DOMAIN map)

Init == /\ size \in Nat
        /\ map = <<>>
        /\ state = "reading"

(* An extent of count blocks after gap blocks that are not stored.         *)
Extend(gap, count, block, written) ==
  /\ state = "reading"
  /\ map' = [b \in 0 .. Length + gap + count - 1 |->
               IF b < Length THEN map[b]
               ELSE IF b < Length + gap \/ ~written THEN 0
               ELSE block + (b - Length - gap)]
  /\ UNCHANGED <<size, state>>

Complete ==
  /\ state = "reading"
  /\ map' = [b \in 0 .. (IF Length < size THEN size ELSE Length) - 1 |->
               IF b < Length THEN map[b] ELSE 0]
  /\ state' = "complete"
  /\ UNCHANGED size

Abandon ==
  /\ state = "reading"
  /\ map' = <<>>
  /\ state' = "failed"
  /\ UNCHANGED size

Next ==
  \/ \E gap \in Gaps, count \in Counts, block \in Blocks, written \in BOOLEAN :
       Extend(gap, count, block, written)
  \/ Complete
  \/ Abandon

Spec == Init /\ [][Next]_vars
===============================================================================
