---------------------------- MODULE MCJointUnits ----------------------------
(***************************************************************************)
(* The arm starts at home, which is safe, and is sent to the poses of a    *)
(* pour, which are safe too.                                               *)
(***************************************************************************)
EXTENDS JointUnits

SafePoses == {HomePose}

PourPoses == {SimpleIK(CalibU, CalibV), LiftOf(SimpleIK(CalibU, CalibV)), HomePose}
=============================================================================
