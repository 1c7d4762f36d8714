----------------------------- MODULE ControlLoop -----------------------------
(***************************************************************************)
(* The control loop of xarm_controller (xarm_control_node, xarm_hw): each  *)
(* pass reads the joints, decides whether the controllers must be reset,   *)
(* updates them and writes their commands to the arm.  need_reset is asked *)
(* twice in a pass, and the first call forgets the failed write that the   *)
(* second would have to see.  The driver's report thread changes what both *)
(* calls look at, at any point in between and as often as it likes.        *)
(* Positions and limits are left out: a command is told by the goal it     *)
(* belongs to.                                                             *)
(***************************************************************************)
EXTENDS Naturals

CONSTANTS
  Faults,      \* {"stop", "error", "read", "write", "lost"}
  MaxFaults,   \* bound on them
  MaxGoals     \* bound on the goals sent

ASSUME ControlLoopAssumption ==
  /\ MaxFaults \in Nat /\ MaxGoals \in Nat
  /\ Faults \subseteq {"stop", "error", "read", "write", "lost"}

VARIABLES
  arm,        \* "ready", "stopped" or "error"
  connected,
  report,     \* the report under way, or "none"
  curr,       \* curr_err, curr_state, curr_mode of the driver
  step,       \* where the loop is
  read_ready, read_failed, write_failed,  \* read_ready_, read_code_ # 0, write_code_ # 0
  last_need_reset, curr_need_reset,
  goal,       \* what the controllers follow: "none", a "live" goal, or an "old" one
  oldSent,    \* commands of an old goal that were accepted since the last report
  goals, faults

driver   == <<report, curr>>
codes    == <<read_ready, read_failed, write_failed>>
needs    == <<last_need_reset, curr_need_reset>>
sent     == <<goal, oldSent>>
limits   == <<goals, faults>>
loopVars == <<arm, connected, driver, step, codes, needs, sent, limits>>

Fault(f) == f \in Faults /\ faults < MaxFaults /\ faults' = faults + 1

\* A goal is old once the loop knows of trouble: a command of it was refused, or
\* need_reset asks for a reset.  Its trajectory goes on meanwhile.
Broken == goal' = (IF goal = "none" THEN "none" ELSE "old")

-----------------------------------------------------------------------------
(* The arm, and who sends goals and brings it back with set_mode and set_state. *)

ArmBreaksOff(f, to) ==
  /\ arm = "ready" /\ Fault(f)
  /\ arm' = to
  /\ UNCHANGED <<connected, driver, step, codes, needs, sent, goals>>

ArmStops == ArmBreaksOff("stop", "stopped") \/ ArmBreaksOff("error", "error")

\* At any time, so that an outage may be over before anything is said of it.
Recover ==
  /\ arm # "ready"
  /\ arm' = "ready"
  /\ UNCHANGED <<connected, driver, step, codes, needs, sent, limits>>

ConnectionIsLost ==
  /\ connected /\ Fault("lost")
  /\ connected' = FALSE
  /\ UNCHANGED <<arm, driver, step, codes, needs, sent, goals>>

ArmReports ==
  /\ connected /\ report = "none"
  /\ report' = arm
  /\ UNCHANGED <<arm, connected, curr, step, codes, needs, sent, limits>>

\* _report_data_callback
ReportCallback ==
  /\ report # "none"
  /\ curr' = report
  /\ report' = "none"
  /\ oldSent' = 0
  /\ UNCHANGED <<arm, connected, step, codes, needs, goal, limits>>

\* The trajectory controller takes a goal at any time, whatever the arm does.
SendGoal ==
  /\ goals < MaxGoals /\ goals' = goals + 1
  /\ goal' = "live" /\ oldSent' = 0
  /\ UNCHANGED <<arm, connected, driver, step, codes, needs, faults>>

-----------------------------------------------------------------------------
(* The loop. *)

\* XArmHW::read
Read ==
  /\ step = "read"
  /\ read_ready' = (curr # "error")
  /\ IF connected
     THEN /\ step' = "check"
          /\ \/ read_failed' = FALSE /\ UNCHANGED faults
             \/ read_failed' = TRUE /\ Fault("read")
     ELSE /\ step' = "exited" /\ read_failed' = TRUE /\ UNCHANGED faults
  /\ UNCHANGED <<arm, connected, driver, write_failed, needs, sent, goals>>

\* Mutant: a failed write is not forgotten.
RememberWrite == UNCHANGED write_failed

ForgetWrite == write_failed' = FALSE

\* XArmHW::need_reset; its exits are taken by read, which sees a lost connection first.
NeedReset == curr # "ready" \/ write_failed \/ read_failed \/ ~read_ready

\* The first need_reset of a pass.
Check ==
  /\ step = "check"
  /\ curr_need_reset' = NeedReset
  /\ IF NeedReset THEN Broken ELSE UNCHANGED goal
  /\ ForgetWrite
  /\ step' = "update"
  /\ UNCHANGED <<arm, connected, driver, read_ready, read_failed, last_need_reset, oldSent, limits>>

\* Mutant: the controllers are reset when the trouble begins, not when it is over.
ResetAtOnce == ~last_need_reset /\ curr_need_reset

ResetControllers == last_need_reset /\ ~curr_need_reset

\* ControllerManager::update, which follows the goal or drops it.
Update ==
  /\ step = "update"
  /\ IF ResetControllers THEN goal' = "none" /\ oldSent' = 0 ELSE UNCHANGED sent
  /\ last_need_reset' = curr_need_reset
  /\ step' = "write"
  /\ UNCHANGED <<arm, connected, driver, codes, curr_need_reset, limits>>

Withheld == NeedReset

\* XArmHW::write: the second need_reset, which ends the pass or lets the command go.
\* What it alone has seen is not told to the controllers.
WriteCheck ==
  /\ step = "write"
  /\ step' = IF Withheld THEN "read" ELSE "send"
  /\ ForgetWrite
  /\ UNCHANGED <<arm, connected, driver, read_ready, read_failed, needs, sent, limits>>

\* In POSITION mode a command that is near the last accepted one is not sent, but for
\* once a second; then nothing fails, whatever has become of the arm.  In VELOCITY mode
\* every command is sent.
Unsent == UNCHANGED <<write_failed, sent, faults>>

Accepted ==
  /\ connected /\ arm = "ready"
  /\ oldSent' = oldSent + (IF goal = "old" THEN 1 ELSE 0)
  /\ UNCHANGED <<write_failed, goal, faults>>

\* Also when the arm has taken the command and its answer was lost.
RefusedOrLost ==
  /\ IF connected /\ arm = "ready" THEN Fault("write") ELSE UNCHANGED faults
  /\ write_failed' = TRUE
  /\ Broken
  /\ UNCHANGED oldSent

Send ==
  /\ step = "send"
  /\ step' = "read"
  /\ Unsent \/ Accepted \/ RefusedOrLost
  /\ UNCHANGED <<arm, connected, driver, read_ready, read_failed, needs, goals>>

-----------------------------------------------------------------------------
LoopInit ==
  /\ arm = "ready" /\ connected = TRUE /\ report = "none" /\ curr = "ready"
  /\ step = "read"
  /\ read_ready = FALSE /\ read_failed = FALSE /\ write_failed = FALSE
  /\ last_need_reset = FALSE /\ curr_need_reset = FALSE
  /\ goal = "none" /\ oldSent = 0
  /\ goals = 0 /\ faults = 0

Loop == Read \/ Check \/ Update \/ WriteCheck \/ Send

LoopNext ==
  \/ ArmStops \/ Recover \/ ConnectionIsLost \/ ArmReports \/ ReportCallback
  \/ SendGoal \/ Loop

LoopSpec == LoopInit /\ [][LoopNext]_loopVars

\* The loop goes round; no report has to come and nobody has to bring the arm back.
LoopFairSpec == LoopSpec /\ WF_loopVars(Loop)

-----------------------------------------------------------------------------
Flags ==
  /\ connected \in BOOLEAN /\ read_ready \in BOOLEAN /\ read_failed \in BOOLEAN
  /\ write_failed \in BOOLEAN /\ last_need_reset \in BOOLEAN /\ curr_need_reset \in BOOLEAN

TypeOK ==
  /\ Flags
  /\ arm \in {"ready", "stopped", "error"}
  /\ report \in {"none", "ready", "stopped", "error"}
  /\ curr \in {"ready", "stopped", "error"}
  /\ step \in {"read", "check", "update", "write", "send", "exited"}
  /\ goal \in {"none", "live", "old"} /\ oldSent \in Nat
  /\ goals \in 0..MaxGoals /\ faults \in 0..MaxFaults
  /\ write_failed => step \in {"read", "check", "exited"}  \* a failed write is told once

\* Of a goal that the loop knows to be broken off, the arm accepts no more than one
\* command between two reports, and none after that before the next, although the first
\* need_reset of a pass hides the failed write from the second: the pass after it resets
\* the controllers, or withholds its command.  It holds however fast the reports come.
OldGoalBound == oldSent <= 1

\* Once the arm is ready for good, a goal that the loop knows to be broken off is dropped
\* or replaced in the end, unless the process ends, or the last report still calls the
\* arm stopped and no other comes: need_reset withholds every command then.
OldGoalDropped ==
  <>[](arm = "ready") =>
    (goal = "old" ~> (goal # "old" \/ step = "exited" \/ [](curr # "ready")))
=============================================================================
