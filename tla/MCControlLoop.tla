---------------------------- MODULE MCControlLoop ----------------------------
(***************************************************************************)
(* An instance of ControlLoop for TLC: the kinds of trouble at once.       *)
(***************************************************************************)
EXTENDS ControlLoop

AllFaults == {"stop", "error", "read", "write", "lost"}
=============================================================================
