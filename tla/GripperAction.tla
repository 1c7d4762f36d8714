---------------------------- MODULE GripperAction ----------------------------
(***************************************************************************)
(* Who calls the tools of EndEffector: the action servers of the driver,   *)
(* one for the xArm gripper and one for the bio gripper, which start a     *)
(* thread for the call and hand it references to their own locals; the     *)
(* gripper_move action server, a client of the driver's services; and      *)
(* whoever calls the other tools without an action.                        *)
(***************************************************************************)
EXTENDS EndEffector

VARIABLES
  goal,     \* what has become of the goal
  is_move,  \* local of the handler that the thread clears
  ok        \* ros::ok()

vars == <<toolVars, goal, is_move, ok>>

WithHandler == job \in {"position", "status", "bio"}

-----------------------------------------------------------------------------
Init ==
  /\ job \in Jobs
  /\ tool \in [phase : {"rest", "fault"}, enabled : {"no", "yes"}, zero : BOOLEAN,
               pos : IF HasPosition THEN {0, 4} ELSE {0}, done : {FALSE}]
  /\ tool.zero => job = "track"
  /\ quiet = 0 /\ pc = "off" /\ ret = "none" /\ wait = Fresh /\ ignored = {}
  /\ goal = "none" /\ is_move = FALSE /\ ok = TRUE

\* Mutant: it is the thread that says first that there is something to wait for.
SetByThread == FALSE

IsMoveAtFirst == TRUE

\* A goal comes in and is accepted; the handler asks for the error, clears that of a bio
\* gripper, and gives the xArm gripper its mode, enabling and speed.  What fails cancels
\* the goal, but an error that is not answered is none.
Accept ==
  /\ WithHandler /\ goal = "none"
  /\ \E answered, error, cleared \in BOOLEAN :
       LET bio   == job = "bio"
           fault == tool.phase = "fault" /\ ~(bio /\ cleared)
           go    == answered /\ ~(fault /\ (bio \/ error))
       IN  /\ tool' = [tool EXCEPT !.phase = IF fault THEN @ ELSE "rest",
                                   !.enabled = IF ~bio /\ answered THEN "yes" ELSE @]
           /\ goal' = IF go THEN "accepted" ELSE "canceled"
           /\ pc' = IF go THEN "born" ELSE pc
           /\ is_move' = (go /\ IsMoveAtFirst)
  /\ UNCHANGED <<job, quiet, ret, wait, ignored, ok>>

\* The thread begins.
Begin ==
  /\ pc = "born"
  /\ is_move' = TRUE
  /\ pc' = IF job = "bio" THEN "check" ELSE "set"
  /\ UNCHANGED <<job, tool, quiet, ret, wait, ignored, goal, ok>>

\* Mutant: the thread keeps quiet about its end when the call has failed.
ToldIfOk == IF ret = "ok" THEN is_move' = FALSE ELSE UNCHANGED is_move

TellEnd == is_move' = FALSE

\* The thread ends.
End ==
  /\ WithHandler /\ pc = "end"
  /\ TellEnd
  /\ pc' = "gone"
  /\ UNCHANGED <<job, tool, quiet, ret, wait, ignored, goal, ok>>

\* The handler's loop ends and with it the handler; whatever the call has returned, the
\* goal has succeeded.
Leave ==
  /\ WithHandler /\ goal = "accepted" /\ (~is_move \/ ~ok)
  /\ goal' = IF ok THEN "succeeded" ELSE "dropped"
  /\ UNCHANGED <<toolVars, is_move, ok>>

Shutdown ==
  /\ ok' = FALSE
  /\ UNCHANGED <<toolVars, goal, is_move>>

\* A call without an action.
Call ==
  /\ ~WithHandler /\ job # "server" /\ pc = "off"
  /\ pc' = IF job = "track" THEN "check" ELSE "set"
  /\ UNCHANGED <<job, tool, quiet, ret, wait, ignored, goal, is_move, ok>>

-----------------------------------------------------------------------------
(* executeCB of the gripper_move action server.                             *)

\* gripper_config and gripper_move; what fails aborts the goal.
ServerStart ==
  /\ job = "server" /\ goal = "none"
  /\ \E configured, moved \in BOOLEAN :
       LET okay == configured /\ moved /\ tool.phase # "fault" IN
         /\ tool' = IF configured THEN [Commanded(TRUE) EXCEPT !.enabled = "yes",
                                          !.phase = IF okay THEN "lag" ELSE tool.phase]
                    ELSE tool
         /\ goal' = IF okay THEN "accepted" ELSE "aborted"
  /\ UNCHANGED <<job, quiet, pc, ret, wait, ignored, is_move, ok>>

\* gripper_state, in a loop that only the target, a failure or the client ends.
ServerPoll(answered) ==
  /\ job = "server" /\ goal = "accepted" /\ MayPoll
  /\ goal' = IF ~answered \/ tool.phase = "fault" THEN "aborted"
             ELSE IF tool.pos = Target THEN "succeeded" ELSE goal
  /\ quiet' = Waited
  /\ UNCHANGED <<job, tool, pc, ret, wait, ignored, is_move, ok>>

\* A preempted goal sends the gripper back to where it was read last.
ServerPreempt ==
  /\ job = "server" /\ goal = "accepted"
  /\ goal' = "preempted"
  /\ tool' = IF tool.phase = "fault" THEN tool ELSE [tool EXCEPT !.phase = "rest"]
  /\ UNCHANGED <<job, quiet, pc, ret, wait, ignored, is_move, ok>>

-----------------------------------------------------------------------------
Sdk ==
  /\ CheckBio \/ CheckTrack \/ Enable \/ Set \/ FirstPosition
     \/ PollAnswered \/ PollLost \/ EnableAfterOrigin
  /\ UNCHANGED <<goal, is_move, ok>>

Time == Expire /\ UNCHANGED <<goal, is_move, ok>>

Motion ==
  /\ ToolStarts \/ ToolMoves \/ ToolStops \/ ToolIsEnabled
  /\ UNCHANGED <<goal, is_move, ok>>

Fault == ToolFails /\ UNCHANGED <<goal, is_move, ok>>

Next ==
  \/ Sdk \/ Time \/ Motion \/ Fault
  \/ Accept \/ Begin \/ End \/ Leave \/ Shutdown \/ Call
  \/ ServerStart \/ ServerPreempt
  \/ \E answered \in BOOLEAN : ServerPoll(answered)

\* Threads run, time passes and a tool that has a command goes on with it; that a poll is
\* lost, which would end the server's goal too, is not promised.
Fairness == /\ WF_vars(Sdk) /\ WF_vars(Time) /\ WF_vars(Motion)
            /\ WF_vars(Begin) /\ WF_vars(End) /\ WF_vars(Leave) /\ WF_vars(ServerPoll(TRUE))

Spec == Init /\ [][Next]_vars /\ Fairness

-----------------------------------------------------------------------------

\* A call that has waited and returns 0 leaves a tool that has carried its command out,
\* to the target or as far as it could, whatever polls were lost and however late the
\* tool began; except where the code has gone on from a failure: the first position or
\* an error code not answered, a tool not enabled, or the return code of enabling put in
\* the place of that of the way to the origin.
ZeroIsDone == ret = "ok" /\ ignored = {} => tool.done

\* While ROS is up the handler stays until the thread that uses its locals has ended.
ThreadEndsFirst == WithHandler /\ goal = "succeeded" => pc \in {"end", "gone"} /\ ret # "none"

\* Every goal ends, however many polls are lost; except that a gripper with a fault is
\* taken for one that moves by those who read its status, and that the gripper_move
\* server waits for ever for a gripper that has closed on something.
GoalEnds ==
  goal = "accepted" ~> \/ goal # "accepted"
                       \/ job = "status" /\ tool.phase = "fault"
                       \/ job = "server" /\ tool.phase = "rest"
=============================================================================
