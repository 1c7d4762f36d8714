---------------------------- MODULE MCEndEffector ----------------------------
(***************************************************************************)
(* All the calls.  The xArm gripper may take its time to begin, as long as *)
(* the code allows; the other tools report a motion at once.               *)
(***************************************************************************)
EXTENDS GripperAction

MCLag == [c \in Calls |-> CASE c = "position" -> NoProgress - 1 - Pace
                            [] c = "status"   -> NotStarted
                            [] c = "server"   -> 1
                            [] OTHER          -> 0]
=============================================================================
