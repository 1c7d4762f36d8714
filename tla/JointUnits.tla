----------------------------- MODULE JointUnits -----------------------------
(***************************************************************************)
(* The joint angles that pass between bottle_grabber.py and the xarm_api   *)
(* driver, with their units.  The driver speaks radians both ways; the     *)
(* script takes what it receives for degrees and sends degrees.  The two   *)
(* mistakes cancel out: as far as the arm can follow, the script reads     *)
(* back the very numbers it sent.  Numbers are in thousandths: 80000 is 80 *)
(* degrees, or 80 radians to who reads it so.                              *)
(***************************************************************************)
EXTENDS PourPlan, Sequences

CONSTANTS Poses,   \* where the arm may stand at first, in thousandths of a degree
          Targets  \* what the script asks for, in thousandths of a degree

VARIABLES
  pose,            \* the joints of the arm
  angle,           \* RobotMsg.angle, as published last; <<>> before the first
  current_joints,  \* what the script has made of it
  handled,         \* the script has checked the report of where the arm is
  stopped,         \* force_stop_robot has run since the arm is there
  goal             \* where the arm has been sent, in thousandths of a degree

vars == <<pose, angle, current_joints, handled, stopped, goal>>

\* math.radians of each joint, in units of a hundred-thousandth so that math.degrees
\* undoes it.
Radians(p) == [i \in Joints |-> 1745 * p[i]]
Degrees(p) == [i \in Joints |-> p[i] \div 1745]

\* The arm's own conversions: thousandths of a radian from and to those of a degree.
InRadians(p)   == [i \in Joints |-> (1745 * p[i]) \div 100000]
FromRadians(p) == [i \in Joints |-> (p[i] * 573) \div 10]

\* Every joint of p lies between lo and hi.
Within(lo, hi, p) == \A i \in Joints : lo[i] <= p[i] /\ p[i] <= hi[i]

-----------------------------------------------------------------------------
\* The arm goes where it is sent, as far as its joints turn.
Arrive ==
  /\ pose' = [i \in Joints |-> Clamp(goal[i], OfficialMin[i], OfficialMax[i])]
  /\ pose' # pose
  /\ handled' = FALSE /\ stopped' = FALSE
  /\ UNCHANGED <<angle, current_joints, goal>>

\* _report_data_callback: the joints as the arm reports them, in radians.
ReportData ==
  /\ angle' = InRadians(pose)
  /\ handled' = FALSE
  /\ UNCHANGED <<pose, current_joints, stopped, goal>>

\* state_callback; every half second it runs check_current_joints_safety on what
\* it has stored.
StateCallback(due) ==
  /\ angle # <<>>
  /\ current_joints' = Radians(angle)
  /\ handled' = (due /\ angle = InRadians(pose))
  /\ stopped' = \/ stopped
                \/ due /\ ~Within(SafeMin, SafeMax, Degrees(current_joints'))
  /\ UNCHANGED <<pose, angle, goal>>

\* safe_move_joint_real sends degrees, and MoveJointCB hands them on unconverted
\* to an arm that reads radians.
MoveJoint(p) ==
  /\ goal' = FromRadians(EnforceSafeLimits(p))
  /\ UNCHANGED <<pose, angle, current_joints, handled, stopped>>

Init ==
  /\ pose \in Poses
  /\ angle = <<>>
  /\ current_joints = [i \in Joints |-> 0]
  /\ handled = FALSE /\ stopped = FALSE
  /\ goal = pose

Next ==
  \/ Arrive
  \/ ReportData
  \/ \E due \in BOOLEAN : StateCallback(due)
  \/ \E p \in Targets : MoveJoint(p)

Spec == Init /\ [][Next]_vars

-----------------------------------------------------------------------------
\* Once the script has checked a report of where the arm stands, it has stopped an
\* arm that stands outside the safe range, whether it has sent the arm there itself
\* or not.
UnsafeIsStopped == handled /\ ~Within(SafeMin, SafeMax, pose) => stopped
=============================================================================
