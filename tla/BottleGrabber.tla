---------------------------- MODULE BottleGrabber ----------------------------
(***************************************************************************)
(* The node of bottle_grabber.py: three threads share one object.          *)
(*   "main"    __init__: bring the robot up, open the gripper, go home;    *)
(*   "bottle"  bottle_callback, one pour per message of /bottle_coords;    *)
(*   "state"   state_callback, one call per message of xarm_states.        *)
(* rospy runs the callbacks of one subscription one after the other, and   *)
(* those of different subscriptions at the same time.  A service call is   *)
(* where threads interleave, so every step below makes at most one.        *)
(* The arm behind the services is kept to what the pour depends on.        *)
(***************************************************************************)
EXTENDS PourPlan, Sequences

CONSTANTS Pixels,   \* pixels a bottle may be reported at, pairs <<u, v>>
          MaxMsgs,  \* bound on the messages of /bottle_coords
          Faults    \* what may go wrong in the run

AllFaults == {"early",     \* a bottle is reported before __init__ is done
              "unsafe",    \* a state message fails the joint check
              "reject",    \* a move is answered with ret # 0
              "call",      \* a service call raises
              "slow",      \* a motion outlasts the sleeps that wait for it
              "halt",      \* the controller stops with an error
              "shutdown"}  \* the node is shut down

ASSUME GrabberAssumption ==
  /\ Pixels \subseteq Int \X Int /\ Pixels # {}
  /\ MaxMsgs \in Nat
  /\ Faults \subseteq AllFaults

Movers  == {"main", "bottle"}
Threads == Movers \cup {"state"}

READY   == 2   \* states of the arm, numbered as RobotMsg.msg numbers them
STOPPED == 4
CHANGED == 5

VARIABLES
  inbox,        \* messages of /bottle_coords not handled yet
  sent,         \* how many were published
  moving,       \* _moving
  inEmergency,  \* _in_emergency
  joints,       \* what the check says of current_joints: "safe" or "unsafe"
  curState,     \* current_state
  stage,        \* where each mover is in its sequence
  step,         \* and inside safe_move_joint_real
  stopping,     \* calls each thread has left in force_stop_robot, 0 outside it
  px,           \* pixel of the bottle being served
  target,       \* the pose bottle_callback computed last
  arm,          \* the robot
  shutdown,     \* rospy.is_shutdown()
  late,         \* history: moves sent since joints became unsafe
  nominal       \* history: nothing has gone wrong so far

thread == <<stage, step, moving, target>>
vars == <<inbox, sent, moving, inEmergency, joints, curState, stage, step,
          stopping, px, target, arm, shutdown, late, nominal>>

Arms == [state : {READY, STOPPED, CHANGED}, err : BOOLEAN,
         goals : Seq([Joints -> Int]), pose : [Joints -> Int],
         gripper : {"open", "closed"}, held : BOOLEAN]

GripperStages == {"open", "grasp", "release"}
ServiceStages == {"setmode", "setstate", "configure"}
Stages == MoveStages \cup GripperStages \cup ServiceStages \cup {"begin", "idle", "dead"}
Steps  == {"check", "recheck", "send", "post", "act"}

-----------------------------------------------------------------------------
(* The order of the stages. *)

FirstStep(s) == IF s \in MoveStages \cup {"begin"} THEN "check" ELSE "act"

\* The sleep after each of these is outside any inner try block.
SleepsInCallback == {"approach", "grasp", "lift", "cup", "pour", "upright", "lower"}

\* Mutants of After: a pour that stops where it lets go, one that never tilts back.
AfterWithoutHome(t, s) ==
  CASE s = "setmode" -> "setstate" [] s = "setstate" -> "configure"
    [] s = "configure" -> "open" [] s = "begin" -> "open"
    [] s = "open" -> IF t = "main" THEN "idle" ELSE "approach"
    [] s = "approach" -> "grasp" [] s = "grasp" -> "lift" [] s = "lift" -> "cup"
    [] s = "cup" -> "pour" [] s = "pour" -> "upright" [] s = "upright" -> "lower"
    [] s = "lower" -> "release" [] OTHER -> "idle"

AfterWithoutUpright(t, s) ==
  CASE s = "pour" -> "release" [] s = "release" -> "home"
    [] OTHER -> AfterWithoutHome(t, s)

After(t, s) ==
  IF t = "main"
  THEN CASE s = "setmode"   -> "setstate"
         [] s = "setstate"  -> "configure"
         [] s = "configure" -> "open"
         [] s = "open"      -> "home"
         [] OTHER           -> "idle"
  ELSE IF shutdown /\ s \in SleepsInCallback
  THEN "release"                       \* rospy.sleep raised: except clause
  ELSE CASE s = "begin"    -> "open"
         [] s = "open"     -> "approach"
         [] s = "approach" -> "grasp"
         [] s = "grasp"    -> "lift"
         [] s = "lift"     -> "cup"
         [] s = "cup"      -> "pour"
         [] s = "pour"     -> "upright"
         [] s = "upright"  -> "lower"
         [] s = "lower"    -> "release"
         [] s = "release"  -> "home"
         [] OTHER          -> "idle"

\* check_before_move says no: only lift and cup open the gripper and go home.
OnCheckFail(s) == IF s \in {"lift", "cup"} THEN "release" ELSE "idle"

\* verify_joint_safety says no: so does approach.
OnVerifyFail(s) == IF s \in {"approach", "lift", "cup"} THEN "release" ELSE "idle"

\* Mutant: no finally clause, _moving stays set.
GotoKeepsMoving(t, s) ==
  /\ stage' = [stage EXCEPT ![t] = s]
  /\ step' = [step EXCEPT ![t] = FirstStep(s)]
  /\ moving' = moving
  /\ target' = IF t = "bottle" THEN Derive(s, target) ELSE target

\* Entering a stage computes its target; the callback that ends, however it ends,
\* clears _moving in its finally clause.
Goto(t, s) ==
  /\ stage' = [stage EXCEPT ![t] = s]
  /\ step' = [step EXCEPT ![t] = FirstStep(s)]
  /\ moving' = IF t = "bottle" THEN s # "idle" ELSE moving
  /\ target' = IF t = "bottle" THEN Derive(s, target) ELSE target

\* What the thread is about to send.
Wanted(t) == IF stage[t] = "home" THEN HomePose ELSE target

\* Mutant: the failed stage is tried again.
RetryFailedCheck(t) == stage[t]

\* The verdict of a failed check is used by "check" and thrown away elsewhere.
AfterFailedCheck(t) ==
  IF step[t] = "check" THEN OnCheckFail(stage[t]) ELSE After(t, stage[t])

-----------------------------------------------------------------------------
(* The arm, as the driver's services command it. *)

Halted(a) == [a EXCEPT !.state = STOPPED, !.goals = <<>>]

\* set_state: 0 starts an arm that has no error; 9 and 5 are commands nothing
\* in the repository defines, the controller ignores them or stops.
ArmSetState(a, cmd) ==
  IF cmd = 0
  THEN {IF a.err THEN a ELSE [a EXCEPT !.state = READY]}
  ELSE {a, Halted(a)}

\* Mutant: set_mode answers with the mode where the state is meant.
ArmTakesMode(a) == {[Halted(a) EXCEPT !.state = 0]}

\* set_mode: the driver stops the arm first, and a mode change stops it too.
ArmSetMode(a) == {[Halted(a) EXCEPT !.state = s] : s \in {STOPPED, CHANGED}}

\* gripper_move: a bottle is held when the gripper closes on the grasp pose.
ArmGrip(a, s) ==
  IF s = "grasp"
  THEN [a EXCEPT !.gripper = "closed",
                 !.held = @ \/ (a.gripper = "open" /\ a.pose = target)]
  ELSE [a EXCEPT !.gripper = "open", !.held = FALSE]

ArmArrives ==
  /\ arm.state = READY
  /\ arm.goals # <<>>
  /\ arm' = [arm EXCEPT !.pose = Head(arm.goals), !.goals = Tail(@)]
  /\ UNCHANGED <<inbox, sent, thread, inEmergency, joints, curState, stopping,
                 px, shutdown, late, nominal>>

ArmFails ==
  /\ "halt" \in Faults
  /\ ~arm.err
  /\ arm' = [Halted(arm) EXCEPT !.err = TRUE]
  /\ nominal' = FALSE
  /\ UNCHANGED <<inbox, sent, thread, inEmergency, joints, curState, stopping,
                 px, shutdown, late>>

-----------------------------------------------------------------------------
(* Messages. *)

Publish(p) ==
  /\ sent < MaxMsgs
  /\ sent' = sent + 1
  /\ inbox' = Append(inbox, p)
  /\ UNCHANGED <<thread, inEmergency, joints, curState, stopping, px, arm,
                 shutdown, late, nominal>>

\* state_callback: cache the message and, when half a second has gone by since
\* the last time (due), check it.  It cannot run while it is in force_stop_robot.
StateCallback(verdict, due) ==
  /\ ~shutdown
  /\ stopping["state"] = 0
  /\ verdict = "unsafe" => "unsafe" \in Faults
  /\ joints' = verdict
  /\ curState' = arm.state
  /\ late' = IF verdict = "safe" THEN 0 ELSE late
  /\ nominal' = (nominal /\ verdict = "safe")
  /\ stopping' = [stopping EXCEPT !["state"] = IF due /\ verdict = "unsafe" THEN 3 ELSE 0]
  /\ UNCHANGED <<inbox, sent, thread, inEmergency, px, arm, shutdown>>

\* Mutant: the arm is not started again.
StopForGood(n) == CASE n = 3 -> 9 [] n = 2 -> 5 [] n = 1 -> 4

\* force_stop_robot: set_state 9, then 5, then 0; a call that raises is skipped.
StopCommand(n) == CASE n = 3 -> 9 [] n = 2 -> 5 [] n = 1 -> 0

\* The calls that are left; after the last the thread goes on where it was checked.
StopGoesOn(t, left) ==
  /\ stopping' = [stopping EXCEPT ![t] = left]
  /\ IF left = 0 /\ t \in Movers THEN Goto(t, AfterFailedCheck(t)) ELSE UNCHANGED thread

\* The second between the stops and the start is slept outside the inner try blocks:
\* at a shutdown that sleep raises, and the start and _in_emergency are left out.
ForceStop(t) ==
  /\ stopping[t] > 0
  /\ \/ arm' \in ArmSetState(arm, StopCommand(stopping[t]))
     \/ "call" \in Faults /\ arm' = arm
  /\ inEmergency' = (inEmergency \/ stopping[t] = 1)
  /\ StopGoesOn(t, IF stopping[t] = 2 /\ shutdown THEN 0 ELSE stopping[t] - 1)
  /\ UNCHANGED <<inbox, sent, joints, curState, px, shutdown, late, nominal>>

\* The same, when the shutdown comes during the sleep.
SkipStart(t) ==
  /\ stopping[t] = 1 /\ shutdown
  /\ StopGoesOn(t, 0)
  /\ UNCHANGED <<inbox, sent, inEmergency, joints, curState, px, arm, shutdown, late, nominal>>

-----------------------------------------------------------------------------
(* Steps of the two threads that move the arm. *)

Running(t) == stopping[t] = 0 /\ stage[t] \notin {"idle", "dead"}

\* bottle_callback takes the next message, and drops it while _moving is set.
BottleCallback ==
  /\ stage["bottle"] = "idle" /\ inbox # <<>> /\ ~shutdown
  /\ stage["main"] = "idle" \/ "early" \in Faults
  /\ inbox' = Tail(inbox)
  /\ IF moving
     THEN UNCHANGED <<thread, px, nominal>>
     ELSE /\ stage' = [stage EXCEPT !["bottle"] = "begin"]
          /\ step' = [step EXCEPT !["bottle"] = "check"]
          /\ moving' = TRUE
          /\ px' = Head(inbox)
          /\ target' = SimpleIK(px'[1], px'[2])
          /\ nominal' = (nominal /\ stage["main"] = "idle")
  /\ UNCHANGED <<sent, inEmergency, joints, curState, stopping, arm, shutdown, late>>

\* verify_joint_safety of the next target, before check_before_move.
Verified(t) ==
  step[t] = "check" /\ stage[t] \in MoveStages \ {"home"}
    => VerifyJointSafety(target)

\* check_current_joints_safety fails: the caller goes through force_stop_robot.
CheckFails(t) ==
  /\ Running(t) /\ step[t] \in {"check", "recheck", "post"}
  /\ Verified(t)
  /\ joints = "unsafe"
  /\ step[t] = "post" => arm.goals = <<>> \/ "slow" \in Faults
  /\ stopping' = [stopping EXCEPT ![t] = 3]
  /\ UNCHANGED <<inbox, sent, thread, inEmergency, joints, curState, px, arm,
                 shutdown, late, nominal>>

\* Mutant: the verdict of the check is not asked for.
CheckIgnored(t) == TRUE

\* check_current_joints_safety passes, or is not reached.
CheckPasses(t) == Verified(t) => joints = "safe"

\* check_before_move, at the callback's level and again in safe_move_joint_real:
\* an arm last reported in state 5 is started; a call that raises is a no, and so is the
\* sleep after it at a shutdown.
CheckBeforeMove(t) ==
  /\ Running(t) /\ step[t] \in {"check", "recheck"}
  /\ CheckPasses(t)
  /\ \/ /\ Verified(t)
        /\ IF curState = CHANGED THEN arm' \in ArmSetState(arm, 0) ELSE arm' = arm
        /\ IF stage[t] = "begin" THEN Goto(t, After(t, "begin"))
           ELSE /\ step' = [step EXCEPT ![t] = IF @ = "check" THEN "recheck" ELSE "send"]
                /\ UNCHANGED <<stage, moving, target>>
        /\ UNCHANGED nominal
     \/ /\ \/ ~Verified(t) /\ Goto(t, OnVerifyFail(stage[t])) /\ arm' = arm
           \/ /\ Verified(t) /\ curState = CHANGED /\ Goto(t, AfterFailedCheck(t))
              /\ \/ "call" \in Faults /\ arm' = arm
                 \/ shutdown /\ arm' \in ArmSetState(arm, 0)
        /\ nominal' = FALSE
  /\ UNCHANGED <<inbox, sent, inEmergency, joints, curState, stopping, px, shutdown, late>>

\* move_srv: taken by an arm that is ready, refused by another; the answer to
\* the caller of safe_move_joint_real is not looked at.
SendMove(t) ==
  /\ Running(t) /\ step[t] = "send"
  /\ late' = IF joints = "unsafe" THEN late + 1 ELSE late
  /\ \/ /\ arm.state = READY
        /\ arm' = [arm EXCEPT !.goals = Append(@, Wanted(t))]
        /\ step' = [step EXCEPT ![t] = "post"]
        /\ UNCHANGED <<stage, moving, target, nominal>>
     \/ /\ arm.state # READY \/ "reject" \in Faults \/ "call" \in Faults
        /\ Goto(t, After(t, stage[t]))
        /\ nominal' = FALSE
        /\ arm' = arm
  /\ UNCHANGED <<inbox, sent, inEmergency, joints, curState, stopping, px, shutdown>>

\* The sleeps of safe_move_joint_real, then its last check, passed, or not reached when
\* a sleep raises at a shutdown.
MoveDone(t) ==
  /\ Running(t) /\ step[t] = "post"
  /\ joints = "safe" \/ shutdown
  /\ arm.goals = <<>> \/ "slow" \in Faults
  /\ nominal' = (nominal /\ arm.goals = <<>>)
  /\ Goto(t, After(t, stage[t]))
  /\ UNCHANGED <<inbox, sent, inEmergency, joints, curState, stopping, px, arm,
                 shutdown, late>>

\* open_gripper and close_gripper_grasp: a call that raises changes nothing.
SetGripper(t) ==
  /\ Running(t) /\ stage[t] \in GripperStages
  /\ \/ arm' = ArmGrip(arm, stage[t]) /\ UNCHANGED nominal
     \/ "call" \in Faults /\ arm' = arm /\ nominal' = FALSE
  /\ Goto(t, After(t, stage[t]))
  /\ UNCHANGED <<inbox, sent, inEmergency, joints, curState, stopping, px,
                 shutdown, late>>

\* initialize_robot: set_mode(0), set_state(0), then motion_ctrl and
\* gripper_config, which change nothing the model keeps.
Initialize ==
  /\ Running("main") /\ stage["main"] \in ServiceStages
  /\ CASE stage["main"] = "setmode"   -> arm' \in ArmSetMode(arm)
       [] stage["main"] = "setstate"  -> arm' \in ArmSetState(arm, 0)
       [] stage["main"] = "configure" -> arm' = arm
  /\ Goto("main", After("main", stage["main"]))
  /\ UNCHANGED <<inbox, sent, inEmergency, joints, curState, stopping, px,
                 shutdown, late, nominal>>

\* A call of initialize_robot raises, or a sleep around it at a shutdown: the
\* constructor fails, the process ends.
InitializeFails ==
  /\ Running("main") /\ stage["main"] \in ServiceStages
  /\ "call" \in Faults \/ shutdown
  /\ Goto("main", "dead")
  /\ shutdown' = TRUE
  /\ nominal' = FALSE
  /\ UNCHANGED <<inbox, sent, inEmergency, joints, curState, stopping, px, arm, late>>

\* rospy shuts down; callbacks that are running go on until the process is gone.
Shutdown ==
  /\ "shutdown" \in Faults
  /\ ~shutdown
  /\ shutdown' = TRUE
  /\ nominal' = FALSE
  /\ UNCHANGED <<inbox, sent, thread, inEmergency, joints, curState, stopping,
                 px, arm, late>>

-----------------------------------------------------------------------------
Init ==
  /\ inbox = <<>> /\ sent = 0
  /\ moving = FALSE /\ inEmergency = FALSE
  /\ joints = "safe" /\ curState = 0
  /\ stage = [t \in Movers |-> IF t = "main" THEN "setmode" ELSE "idle"]
  /\ step = [t \in Movers |-> "act"]
  /\ stopping = [t \in Threads |-> 0]
  /\ px = CHOOSE p \in Pixels : TRUE
  /\ target = HomePose
  /\ arm = [state |-> STOPPED, err |-> FALSE, goals |-> <<>>,
            pose |-> [i \in Joints |-> 0], gripper |-> "closed", held |-> FALSE]
  /\ shutdown = FALSE
  /\ late = 0 /\ nominal = TRUE

Next ==
  \/ \E p \in Pixels : Publish(p)
  \/ \E verdict \in {"safe", "unsafe"}, due \in BOOLEAN : StateCallback(verdict, due)
  \/ \E t \in Threads : ForceStop(t) \/ SkipStart(t)
  \/ BottleCallback
  \/ \E t \in Movers : CheckFails(t)
  \/ \E t \in Movers : CheckBeforeMove(t)
  \/ \E t \in Movers : SendMove(t)
  \/ \E t \in Movers : MoveDone(t)
  \/ \E t \in Movers : SetGripper(t)
  \/ Initialize \/ InitializeFails
  \/ ArmArrives \/ ArmFails \/ Shutdown

Spec == Init /\ [][Next]_vars

\* Each thread runs, services answer and motions end; nothing else has to happen.
MoverStep(t) ==
  \/ CheckFails(t) \/ CheckBeforeMove(t) \/ SendMove(t) \/ MoveDone(t)
  \/ SetGripper(t) \/ ForceStop(t) \/ SkipStart(t)
  \/ t = "main" /\ Initialize
  \/ t = "bottle" /\ BottleCallback

Fairness ==
  /\ WF_vars(ArmArrives)
  /\ WF_vars(ForceStop("state"))
  /\ WF_vars(MoverStep("main"))
  /\ WF_vars(MoverStep("bottle"))

FairSpec == Spec /\ Fairness

-----------------------------------------------------------------------------
(* Properties. *)

TypeOK ==
  /\ inbox \in Seq(Pixels) /\ sent \in 0..MaxMsgs
  /\ moving \in BOOLEAN /\ inEmergency \in BOOLEAN
  /\ joints \in {"safe", "unsafe"}
  /\ curState \in {0, READY, STOPPED, CHANGED}
  /\ stage \in [Movers -> Stages] /\ step \in [Movers -> Steps]
  /\ stopping \in [Threads -> 0..3]
  /\ px \in Pixels /\ target \in [Joints -> Int]
  /\ arm \in Arms
  /\ shutdown \in BOOLEAN /\ nominal \in BOOLEAN
  /\ late \in Nat

\* No target the callback computes is ever turned down by verify_joint_safety:
\* enforce_safe_limits has clamped it, so the branches that open the gripper and
\* go home because of it are never taken, whatever pixel the camera reports.
VerifyNeverFails == \A t \in Movers : Verified(t)

\* The stage named lower puts nothing down: joint 2 of the upright pose is at its
\* safe limit already (CALIB_JOINTS_DEG asks for 80 where 70 is allowed), so the
\* pose asked for is the one the arm is in.
LowerIsNoOp ==
  nominal /\ stage["bottle"] = "lower" => arm.pose = target

\* Between grasp and release the gripper keeps the pitch it grasped the bottle
\* with to one and a half degrees, in every pour in which nothing goes wrong.
BottleKeptLevel ==
  nominal /\ arm.held =>
    LET d == Pitch(arm.pose) - Pitch(SimpleIK(px[1], px[2]))
    IN  d >= -1500 /\ d <= 1500

\* A held bottle is let go only upright and on the cup's side, twelve degrees from
\* where it was grasped, unless something has gone wrong before: a check failed, a
\* call raised, a move was refused or late, or the pour overlapped __init__.
ReleasedOnlyWhenPutDown ==
  [][nominal /\ arm.held /\ ~arm'.held
       => /\ arm.pose[5] = 0
          /\ arm.pose[1] = SimpleIK(px[1], px[2])[1] + 12000]_vars

\* When nothing has gone wrong, the arm waits for the next bottle at home, with an
\* open and empty gripper and no motion left to do.
WaitsAtHome ==
  nominal /\ (\A t \in Movers : stage[t] = "idle")
    => arm.pose = HomePose /\ arm.goals = <<>> /\ arm.gripper = "open" /\ ~arm.held

\* From the moment the cached joints are unsafe, each of the two threads that
\* move the arm gets at most the one move out whose check it had already passed.
LateMoveBound == joints = "unsafe" => late <= 2

\* The software stop is never left standing while ROS is up: each force_stop_robot
\* ends in set_state(0), so however those of several threads overlap, once none is
\* under way the arm is started again, unless the controller holds it with an error.
StopNotLatched ==
  (/\ ~shutdown
   /\ \A t \in Threads : stopping[t] = 0
   /\ stage["main"] \notin {"setmode", "setstate", "dead"})
    => arm.state = READY \/ arm.err

\* Every pour ends: whatever fails, the callback returns and clears _moving.
PourEnds == moving ~> (~moving \/ shutdown)

\* The guard on _moving drops nothing: a message that arrives during a pour waits
\* in the subscription and then starts a pour of its own, however old it is by then.
EveryMessagePours ==
  [][Len(inbox') < Len(inbox) => stage'["bottle"] = "begin"]_vars
=============================================================================
