------------------------------ MODULE MCMoveWait ------------------------------
(***************************************************************************)
(* Instances of MoveWait for TLC: two threads that serve moves and one     *)
(* that serves the other requests.                                         *)
(***************************************************************************)
EXTENDS MoveWait, TLC

CONSTANTS m1, m2, op

TwoMovers == {m1, m2}
OneOperator == {op}
Symmetry == Permutations(TwoMovers)
=============================================================================
