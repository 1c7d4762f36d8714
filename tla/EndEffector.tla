----------------------------- MODULE EndEffector -----------------------------
(***************************************************************************)
(* The calls of the wrapper that give a tool a command and wait for it:    *)
(* xArm gripper, bio gripper, robotiq and linear motor.  A call asks, polls *)
(* and gives up in its own way; what they have in common is a wait that    *)
(* ends with the tool, with a fault, with too many polls lost in a row or  *)
(* with its time.  Any request may be lost, before the tool has it or      *)
(* after.  A position is a few steps from the target or past it.           *)
(***************************************************************************)
EXTENDS Integers

CONSTANTS
  Jobs,  \* what is called, of Calls
  Lag,   \* polls within which a tool begins to move, of each call
  Pace   \* polls within which a gripper that moves is seen to have moved

Calls == {"position", "status", "bio", "robotiq", "activate", "track", "origin", "server"}

ASSUME ToolAssumption ==
  Jobs \subseteq Calls /\ Lag \in [Calls -> Nat] /\ Pace \in Nat \ {0}

VARIABLES
  job,      \* the call; it never changes
  tool,     \* [phase, enabled, zero, pos, done]
  quiet,    \* polls since the tool was last seen to do something
  pc, ret,  \* where the calling thread is, what the call has returned
  wait,     \* locals of the wait: [last, up, cnt, past, failed]
  ignored   \* failures that the code has gone on from as if nothing were

toolVars == <<job, tool, quiet, pc, ret, wait, ignored>>

Target == 2
HasPosition == job \in {"position", "server"}

\* What the calls wait for ten polls of, at most.
MaxFailed  == 10
NoProgress == 8
PastTarget == 10
NotStarted == 20

-----------------------------------------------------------------------------
(* The tool.                                                                *)

ToolStarts ==
  /\ tool.phase = "lag"
  /\ tool' = [tool EXCEPT !.phase = "moving"]
  /\ quiet' = 0
  /\ UNCHANGED <<job, pc, ret, wait, ignored>>

Toward(p, n) == IF p < Target THEN p + n ELSE p - n
Crossed(p, q) == q = Target \/ (p < Target) # (q < Target)

\* A step to the target or, close to it, past it.
ToolMoves ==
  /\ tool.phase = "moving" /\ HasPosition
  /\ \E n \in {1, 2} :
       LET p == Toward(tool.pos, n) IN
         /\ n = 2 => Toward(tool.pos, 1) = Target
         /\ tool' = [tool EXCEPT !.pos = p, !.done = Crossed(tool.pos, p),
                                 !.phase = IF Crossed(tool.pos, p) THEN "rest" ELSE @]
  /\ quiet' = 0
  /\ UNCHANGED <<job, pc, ret, wait, ignored>>

\* The motion is over; a gripper may have closed on something short of its target.
ToolStops ==
  /\ tool.phase = "moving"
  /\ tool' = [tool EXCEPT !.phase = "rest", !.done = TRUE,
                          !.zero = @ \/ job = "origin",
                          !.enabled = IF job = "activate" THEN "yes" ELSE @]
  /\ quiet' = 0
  /\ UNCHANGED <<job, pc, ret, wait, ignored>>

ToolFails ==
  /\ tool.phase \in {"lag", "moving"}
  /\ tool' = [tool EXCEPT !.phase = "fault"]
  /\ UNCHANGED <<job, quiet, pc, ret, wait, ignored>>

ToolIsEnabled ==
  /\ tool.enabled = "waking"
  /\ tool' = [tool EXCEPT !.enabled = "yes"]
  /\ UNCHANGED <<job, quiet, pc, ret, wait, ignored>>

\* A tool that is not enabled, or has a fault, ignores a command; one that is active
\* need not be activated.
Commanded(reached) ==
  LET active == job = "activate" /\ tool.enabled = "yes"
      heeds  == /\ reached /\ tool.phase # "fault" /\ ~active
                /\ tool.enabled = "yes" \/ job \in {"activate", "origin"}
  IN  [tool EXCEPT !.done = active, !.phase = IF heeds THEN "lag" ELSE @]

-----------------------------------------------------------------------------
(* The calls, up to the command.                                            *)

Return(code) == ret' = code /\ pc' = "end"
Fresh == [last |-> 0, up |-> TRUE, cnt |-> 0, past |-> 0, failed |-> 0]

EnableUnless(enabled) == pc' = IF enabled THEN "set" ELSE "enable"

\* _set_bio_gripper_position asks for the status, and goes by the last one when it
\* has no answer.
CheckBio ==
  /\ pc = "check" /\ job = "bio"
  /\ \E answered, last \in BOOLEAN :
       EnableUnless(IF answered THEN tool.enabled = "yes" ELSE last)
  /\ UNCHANGED <<job, tool, quiet, ret, wait, ignored>>

\* set_linear_motor_pos: only a track that says that it was not at its origin is refused.
CheckTrack ==
  /\ pc = "check" /\ job = "track"
  /\ \E answered \in BOOLEAN :
       IF answered /\ ~tool.zero THEN Return("NOT_INIT")
       ELSE EnableUnless(answered /\ tool.enabled = "yes") /\ UNCHANGED ret
  /\ UNCHANGED <<job, tool, quiet, wait, ignored>>

\* set_bio_gripper_enable and set_linear_motor_enable, whose code nobody looks at.
Enable ==
  /\ pc = "enable"
  /\ \E reached, answered \in BOOLEAN :
       /\ answered => reached
       /\ tool' = [tool EXCEPT !.enabled = IF ~reached \/ @ = "yes" THEN @
                                            ELSE IF job = "bio" THEN "waking" ELSE "yes"]
       /\ pc' = IF job = "bio" /\ answered THEN "enabling" ELSE "set"
       /\ ignored' = ignored \cup (IF answered THEN {} ELSE {"enable"})
  /\ wait' = Fresh
  /\ UNCHANGED <<job, quiet, ret>>

\* The command.  The gripper's error code is asked for right behind it.
Set ==
  /\ pc = "set"
  /\ \E reached, answered, error \in BOOLEAN :
       /\ answered => reached
       /\ tool' = Commanded(reached)
       /\ CASE HasPosition \/ job = "status" ->
                 IF error /\ tool.phase = "fault" THEN Return("FAULT")
                 ELSE IF ~answered THEN Return("FAILED")
                 ELSE pc' = (IF job = "position" THEN "first" ELSE "wait") /\ UNCHANGED ret
            [] OTHER ->
                 IF ~answered /\ job = "origin" THEN pc' = "after" /\ ret' = "FAILED"
                 ELSE IF ~answered THEN Return("FAILED")
                 ELSE pc' = "wait" /\ UNCHANGED ret
  /\ quiet' = 0 /\ wait' = Fresh
  /\ UNCHANGED <<job, ignored>>

-----------------------------------------------------------------------------
(* The waits.  A poll that is answered gives a code, or "on" to go on.      *)

\* A poll comes no later than the tool does something, as long as that is promised.
MayPoll ==
  /\ tool.phase = "lag" => quiet < Lag[job]
  /\ tool.phase = "moving" /\ HasPosition => quiet < Pace

Waited == IF tool.phase = "lag" \/ (tool.phase = "moving" /\ HasPosition)
          THEN quiet + 1 ELSE quiet

\* _check_gripper_position reads where the gripper is before its loop; without an
\* answer it takes the gripper to be at 0 and to open.
FirstPosition ==
  /\ pc = "first"
  /\ \E answered \in BOOLEAN :
       /\ wait' = IF answered THEN [Fresh EXCEPT !.last = tool.pos, !.up = Target > tool.pos]
                  ELSE Fresh
       /\ ignored' = ignored \cup (IF answered THEN {} ELSE {"first"})
       /\ IF answered /\ tool.pos = Target THEN Return("ok")
          ELSE pc' = "wait" /\ UNCHANGED ret
  /\ UNCHANGED <<job, tool, quiet>>

Beyond(p, q) == IF wait.up THEN p > q ELSE p < q

\* The body of its loop: no progress since the last position, progress, or past the
\* target.
PositionSeen ==
  IF ~Beyond(tool.pos, wait.last) THEN [wait EXCEPT !.cnt = @ + 1]
  ELSE IF Beyond(tool.pos, Target) THEN [wait EXCEPT !.past = @ + 1]
  ELSE [wait EXCEPT !.last = tool.pos, !.cnt = 0, !.past = 0]

PositionCode ==
  IF \/ tool.pos = Target
     \/ PositionSeen.past >= PastTarget
     \/ PositionSeen.cnt >= NoProgress
  THEN "ok" ELSE "on"

\* _check_gripper_status: at rest after it has moved, or at rest for long.  A gripper
\* with a fault does not count as one at rest.  Here up is ~start_move.
Resting == tool.phase \in {"lag", "rest"}

StatusSeen ==
  IF ~Resting THEN [wait EXCEPT !.up = FALSE, !.cnt = 0]
  ELSE IF wait.up THEN [wait EXCEPT !.cnt = @ + 1] ELSE wait

StatusCode ==
  IF Resting /\ (~wait.up \/ StatusSeen.cnt > NotStarted) THEN "ok" ELSE "on"

\* Mutant: at the end of a motion nobody asks whether the tool is enabled at all.
MovedAnyhow == "ok"

MovedIfEnabled == IF tool.enabled = "yes" THEN "ok" ELSE "NOT_ENABLED"

\* _bio_gripper_wait_motion_completed and _robotiq_wait_motion_completed.
MotionCode ==
  CASE tool.phase = "fault" -> "FAULT"
    [] tool.phase = "rest"  -> MovedIfEnabled
    [] OTHER                -> "on"

\* _bio_gripper_wait_enable_completed.
EnableCode == IF tool.enabled = "yes" THEN "ok" ELSE "on"

\* _robotiq_wait_activation_completed.
ActivateCode ==
  IF tool.phase = "fault" THEN "FAULT" ELSE EnableCode

\* _wait_linear_motor_stop and _wait_linear_motor_back_origin; the scram input of
\* the track is one more fault.
TrackCode ==
  CASE tool.phase = "fault"  -> "FAULT"
    [] tool.phase = "rest"   -> "ok"
    [] OTHER                 -> "on"

OriginCode ==
  IF tool.phase = "fault" THEN "FAULT" ELSE IF tool.zero THEN "ok" ELSE "on"

Code ==
  IF pc = "enabling" THEN EnableCode ELSE
  CASE job = "position"              -> PositionCode
    [] job = "status"                -> StatusCode
    [] job \in {"bio", "robotiq"}    -> MotionCode
    [] job = "activate"              -> ActivateCode
    [] job = "track"                 -> TrackCode
    [] OTHER                         -> OriginCode

\* What follows the wait: the bio gripper's command, whether it is enabled or not; the
\* track is enabled, whether it has come to its origin or not.
WaitOver(code) ==
  IF pc = "enabling" THEN pc' = "set" /\ UNCHANGED ret
  ELSE IF job = "origin" THEN pc' = "after" /\ ret' = code
  ELSE Return(code)

PollAnswered ==
  /\ pc \in {"wait", "enabling"} /\ MayPoll
  /\ wait' = CASE pc = "wait" /\ job = "position" -> [PositionSeen EXCEPT !.failed = 0]
              [] pc = "wait" /\ job = "status"   -> [StatusSeen EXCEPT !.failed = 0]
              [] OTHER                           -> [wait EXCEPT !.failed = 0]
  /\ \E error \in BOOLEAN :
       IF job = "position" /\ tool.phase = "fault" /\ error
       THEN WaitOver("FAULT") /\ UNCHANGED ignored
       ELSE /\ IF Code = "on" THEN UNCHANGED <<pc, ret>> ELSE WaitOver(Code)
            /\ ignored' = ignored \cup
                 (IF job = "position" /\ tool.phase = "fault" THEN {"error"} ELSE {})
  /\ quiet' = Waited
  /\ UNCHANGED <<job, tool>>

PollLost ==
  /\ pc \in {"wait", "enabling"} /\ MayPoll
  /\ wait' = [wait EXCEPT !.failed = IF @ < MaxFailed THEN @ + 1 ELSE 0]
  /\ IF wait.failed < MaxFailed THEN UNCHANGED <<pc, ret, ignored>>
     ELSE /\ WaitOver("CHECK_FAILED")
          /\ ignored' = ignored \cup (IF pc = "enabling" THEN {"enable"} ELSE {})
  /\ quiet' = Waited
  /\ UNCHANGED <<job, tool>>

\* The xArm gripper's waits have no time limit when the driver calls them.
Expire ==
  /\ pc \in {"wait", "enabling"} /\ job \notin {"position", "status"}
  /\ WaitOver("TIMEOUT")
  /\ ignored' = ignored \cup (IF pc = "enabling" THEN {"enable"} ELSE {})
  /\ UNCHANGED <<job, tool, quiet, wait>>

\* set_linear_motor_back_origin ends with set_linear_motor_enable and its code.
EnableAfterOrigin ==
  /\ pc = "after"
  /\ \E reached, answered \in BOOLEAN :
       /\ answered => reached
       /\ tool' = IF reached THEN [tool EXCEPT !.enabled = "yes"] ELSE tool
       /\ Return(IF tool.phase = "fault" THEN "FAULT" ELSE IF answered THEN "ok" ELSE "FAILED")
  /\ ignored' = ignored \cup (IF ret = "ok" THEN {} ELSE {"origin"})
  /\ UNCHANGED <<job, quiet, wait>>
=============================================================================
