------------------------------- MODULE MCAVL -------------------------------
(***************************************************************************)
(* AVL and the orders its trees and the indexes are sorted by, for TLC.    *)
(* The least tree from which one removal makes two rotations has twelve    *)
(* nodes.  Comparisons leave no state behind, so that they are tried while *)
(* the tree is empty.                                                      *)
(***************************************************************************)
EXTENDS AVL, Collation

\* A byte above 127, "A", "_" and "a".
Codes == {-1, 65, 95, 97}

MCInit == Init /\ InitOperands

MCNext ==
  \/ Next /\ operands = Nothing /\ UNCHANGED operands
  \/ tree = Empty /\ (Compare \/ Answered) /\ UNCHANGED vars

MCSpec == MCInit /\ [][MCNext]_<<vars, operands>>
=============================================================================
