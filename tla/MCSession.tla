------------------------------- MODULE MCSession -------------------------------
(***************************************************************************)
(* An instance of Session for TLC: two processes for one arm, which start  *)
(* again after they have ended, with a stream of their own for the plain   *)
(* reports.                                                                *)
(***************************************************************************)
EXTENDS Session

CONSTANTS c1, c2

TwoControllers == {c1, c2}
=============================================================================
