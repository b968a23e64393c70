----------------------------- MODULE MCDataStream -----------------------------
(* Three entries on a disk of two allocation groups of 3 blocks, whose     *)
(* block numbers are 0 to 2 and 4 to 6: one that is fragmented over both   *)
(* groups with a hole, one in a single piece, one with inline data.        *)
EXTENDS DataStream, TLC

CONSTANTS e1, e2, e3

MCExtents ==
  e1 :> << [physical |-> 5, blocks |-> 1, sparse |-> FALSE],
           [physical |-> 0, blocks |-> 1, sparse |-> TRUE],
           [physical |-> 1, blocks |-> 1, sparse |-> FALSE] >>
  @@ e2 :> << [physical |-> 2, blocks |-> 1, sparse |-> FALSE] >>
  @@ e3 :> <<>>

MCInline == e1 :> <<>> @@ e2 :> <<>> @@ e3 :> <<11, 12>>

MCSizes == e1 :> 3 @@ e2 :> 1 @@ e3 :> 2

(* The threads are alike.                                                  *)
MCSymmetry == Permutations(Threads)

===============================================================================
