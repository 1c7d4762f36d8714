------------------------------- MODULE MoveWait -------------------------------
(***************************************************************************)
(* Moves that wait, in the wrapper of the xArm SDK (XArmAPI), as the       *)
(* service threads of the xarm_api driver call them.  A move waits while   *)
(* the arm is paused and while its buffer is full, is sent, and then polls *)
(* the arm until it has finished: by the feedback frame that carries its   *)
(* transaction number, or on older firmware by watching the state.  The    *)
(* report thread and the feedback thread update what the callers read, and *)
(* none of it is guarded by a lock.  Time is left out: the driver passes   *)
(* NO_TIMEOUT.  The arm stays in position mode; the port may close.        *)
(***************************************************************************)
EXTENDS Integers, Sequences, FiniteSets

CONSTANTS
  Movers,      \* clients of the driver that ask for moves
  Operators,   \* and those that ask for the rest
  Threads,     \* threads of the driver's spinner: 4
  WaitParam,   \* /xarm/wait_for_finish: "true", "false" or "unset"
  Firmwares,   \* {"old", "middle", "new"}: before 1.5.20, before 2.0.102, and later
  Commands,    \* {"joint", "line"}: set_servo_angle and its like, set_position
  Ops,         \* the other requests: {"start", "pause", "stop", "clean"}
  Faults,      \* {"error", "lost", "link"}
  EarlyRestart, \* a stopped arm may be started again before the moves that wait have seen it
  IdlePolls,   \* polls that see no motion before a wait without feedback ends: 10
  StartLag,    \* answers within which the arm starts a move
  MaxCmdnum,   \* max_cmdnum_, 512 in the driver
  MaxMoves,    \* bound on the moves called
  MaxOps,      \* bound on the other services called
  MaxFaults    \* bound on errors of the arm, answers that are lost, a port that closes

ASSUME MoveWaitAssumption ==
  /\ Movers \cap Operators = {}
  /\ WaitParam \in {"true", "false", "unset"}
  /\ Firmwares \subseteq {"old", "middle", "new"} /\ Commands \subseteq {"joint", "line"}
  /\ Ops \subseteq {"start", "pause", "stop", "clean"}
  /\ Faults \subseteq {"error", "lost", "link"}
  /\ EarlyRestart \in BOOLEAN /\ IdlePolls \in Nat /\ StartLag \in 0..(IdlePolls - 1)
  /\ MaxCmdnum \in Nat \ {0} /\ MaxMoves \in Nat /\ MaxOps \in Nat /\ MaxFaults \in Nat

VARIABLES
  \* the arm
  armState, armErr,
  armQueue,     \* transaction numbers of the moves it has accepted, oldest first
  finished,     \* those it has carried out
  report,       \* the state report under way, or <<>>
  feedback,     \* feedback frames under way
  port,         \* the control port: "open", "lost", or "closed" by the report thread
  firmware,
  \* the wrapper
  state, error_code, cmd_num, is_ready,
  state_is_ready, \* of the bus: what the last answer said of the arm
  expected,     \* fb_transid_type_map_
  results,      \* fb_transid_result_map_
  \* the threads
  pc,
  wait, trans_id, cnt, max_cnt,  \* locals of a move
  command,      \* which command it is
  answer,       \* what its request returned
  ret,          \* what its last move returned
  next_id,      \* transaction_id_, which does not wrap within the bounds
  lagging,      \* answers READY since the arm has had a move to start
  \* bounds
  moves, ops, faults

arm     == <<armState, armErr, armQueue, finished>>
cached  == <<state, error_code, cmd_num, is_ready>>
maps    == <<expected, results>>
locals  == <<wait, trans_id, cnt, max_cnt>>
request == <<command, answer>>
link    == <<port, firmware>>
env     == <<next_id, lagging, state_is_ready, link, request>>
bounds  == <<moves, ops, faults>>
vars    == <<arm, report, feedback, cached, maps, pc, locals, ret, env, bounds>>

Callers == Movers \cup Operators

connected == port = "open"

support_feedback == firmware = "new"

\* check_is_ready_ is TRUE in the driver.
CheckReady == firmware = "old"

\* A request waits until a thread of the spinner has nothing else to do.
ThreadFree == Cardinality({c \in Callers : pc[c] # "idle"}) < Threads

RUNNING == 1
READY == 2
PAUSED == 3
STOPPED == 4
Stopped(s) == s \in {4, 5}

Goto(c, step) == pc' = [pc EXCEPT ![c] = step]
Return(c, code) == Goto(c, "idle") /\ ret' = [ret EXCEPT ![c] = code]

\* Of the bounds, a fault of the kind f.
Fault(f) == f \in Faults /\ faults < MaxFaults /\ faults' = faults + 1

-----------------------------------------------------------------------------
(* The arm, for as long as it is heard of. *)

ArmStarts ==
  /\ connected
  /\ armState = READY /\ armQueue # <<>>
  /\ armState' = RUNNING
  /\ lagging' = 0
  /\ UNCHANGED <<armErr, armQueue, finished, report, feedback, cached, maps, pc, locals, ret,
                 next_id, state_is_ready, link, request, bounds>>

\* The move under way ends, and the arm says so to who asked for feedback.
ArmFinishes ==
  /\ connected
  /\ armState = RUNNING
  /\ armQueue' = Tail(armQueue)
  /\ armState' = IF armQueue' = <<>> THEN READY ELSE RUNNING
  /\ finished' = finished \cup {Head(armQueue)}
  /\ feedback' = IF support_feedback THEN Append(feedback, Head(armQueue))
                  ELSE feedback
  /\ UNCHANGED <<armErr, report, cached, maps, pc, locals, ret, env, bounds>>

ArmFails ==
  /\ connected /\ Fault("error")
  /\ ~armErr
  /\ armErr' = TRUE /\ armState' = STOPPED /\ armQueue' = <<>>
  /\ UNCHANGED <<finished, report, feedback, cached, maps, pc, locals, ret, env,
                 moves, ops>>

\* One report is under way at a time; it may be late.
ArmReports ==
  /\ connected /\ report = <<>>
  /\ report' = [state |-> armState, err |-> armErr, cmdnum |-> Len(armQueue)]
  /\ UNCHANGED <<arm, feedback, cached, maps, pc, locals, ret, env, bounds>>

\* The port closes, and what was under way on it is lost; the report port may have a
\* report left.
PortCloses ==
  /\ connected /\ Fault("link")
  /\ port' = "lost"
  /\ feedback' = <<>>
  /\ UNCHANGED <<arm, report, cached, maps, pc, locals, ret, next_id, lagging,
                 state_is_ready, firmware, request, moves, ops>>

\* What a request to set the state, or to clean the error, does to the arm.
ArmObeys(op) ==
  /\ armErr' = (armErr /\ op # "clean")
  /\ armState' =
       CASE op = "stop" -> STOPPED
         [] op = "pause" /\ armState \in {RUNNING, READY} -> PAUSED
         [] op = "start" /\ ~armErr /\ armState \in {PAUSED, STOPPED} ->
              IF armQueue = <<>> THEN READY ELSE RUNNING
         [] OTHER -> armState
  /\ armQueue' = IF op = "stop" THEN <<>> ELSE armQueue
  /\ UNCHANGED finished

-----------------------------------------------------------------------------
(* The report thread and the feedback thread. *)

\* Mutants: a report wakes nobody; a report leaves is_ready_ to set_state.
NotifyNobody(s) == UNCHANGED pc
LeaveReady(s) == UNCHANGED is_ready

\* cond_.notify_all, for the moves that wait for the pause to end.
NotifyAll(s) ==
  pc' = [c \in Callers |-> IF pc[c] = "waiting" /\ s # PAUSED THEN "paused" ELSE pc[c]]

\* The motors are taken to be enabled.
UpdateReady(s) == is_ready' = ~Stopped(s)

Update ==
  /\ report # <<>>
  /\ state' = report.state /\ error_code' = report.err /\ cmd_num' = report.cmdnum
  /\ UpdateReady(report.state)
  /\ NotifyAll(report.state)
  /\ report' = <<>>
  /\ UNCHANGED <<arm, feedback, maps, locals, ret, env, bounds>>

\* The report thread ends with the connection, and calls disconnect, which notifies
\* nobody.
Disconnect ==
  /\ port = "lost"
  /\ port' = "closed"
  /\ is_ready' = FALSE
  /\ report' = <<>>
  /\ UNCHANGED <<arm, feedback, state, error_code, cmd_num, maps, pc, locals, ret, next_id,
                 lagging, state_is_ready, firmware, request, bounds>>

\* _feedback_callback
FeedbackCallback ==
  /\ feedback # <<>>
  /\ expected' = expected \ {Head(feedback)}
  /\ results' = results \cup (expected \cap {Head(feedback)})
  /\ feedback' = Tail(feedback)
  /\ UNCHANGED <<arm, report, cached, pc, locals, ret, env, bounds>>

-----------------------------------------------------------------------------
(* A move. *)

\* bool wait, which getParam sets only when the parameter is there.
WaitParamValues ==
  CASE WaitParam = "true" -> {TRUE} [] WaitParam = "false" -> {FALSE} [] OTHER -> BOOLEAN

\* MoveJointCB calls set_servo_angle, MoveLineCB calls set_position.
Call(c) ==
  /\ pc[c] = "idle" /\ ThreadFree /\ moves < MaxMoves
  /\ moves' = moves + 1
  /\ \E k \in Commands : command' = [command EXCEPT ![c] = k]
  /\ answer' = [answer EXCEPT ![c] = "ok"]
  /\ \E w \in WaitParamValues : wait' = [wait EXCEPT ![c] = w]
  /\ trans_id' = [trans_id EXCEPT ![c] = 0]
  /\ Goto(c, "enter")
  /\ UNCHANGED <<arm, report, feedback, cached, maps, cnt, max_cnt, ret, next_id, lagging,
                 state_is_ready, link, ops, faults>>

\* _wait_until_not_pause: the first look at the state, without the mutex.
CheckPause(c) ==
  /\ pc[c] = "enter"
  /\ Goto(c, IF connected /\ state = PAUSED THEN "paused" ELSE "room")
  /\ UNCHANGED <<arm, report, feedback, cached, maps, locals, ret, env, bounds>>

\* cond_.wait looks at the state again each time it has the mutex.
CondWait(c) ==
  /\ pc[c] = "paused"
  /\ Goto(c, IF connected /\ state = PAUSED THEN "waiting" ELSE "room")
  /\ UNCHANGED <<arm, report, feedback, cached, maps, locals, ret, env, bounds>>

\* Every answer says whether the arm is ready.
StateBit(s) == state_is_ready' = (s # STOPPED)

\* _wait_until_cmdnum_lt_max, which asks the arm when reports are late.
CmdnumLtMax(c) ==
  /\ pc[c] = "room"
  /\ \/ /\ ~connected \/ cmd_num < MaxCmdnum
        /\ Goto(c, "ready?")
        /\ UNCHANGED <<cmd_num, state_is_ready>>
     \/ /\ connected /\ cmd_num >= MaxCmdnum
        /\ cmd_num' = Len(armQueue)
        /\ StateBit(armState)
        /\ UNCHANGED pc
  /\ UNCHANGED <<arm, report, feedback, state, error_code, is_ready, maps, locals,
                 ret, next_id, lagging, link, request, bounds>>

\* _xarm_is_ready
IsReady(c) ==
  /\ pc[c] = "ready?"
  /\ CASE ~connected -> Return(c, "NOT_CONNECTED")
       [] connected /\ CheckReady /\ error_code -> Return(c, "HAS_ERROR")
       [] connected /\ CheckReady /\ ~error_code /\ (Stopped(state) \/ ~is_ready) ->
            Return(c, "NOT_READY")
       [] OTHER -> Goto(c, "send") /\ UNCHANGED ret
  /\ UNCHANGED <<arm, report, feedback, cached, maps, locals, env, bounds>>

\* Mutant: looking a number up in the map of results makes an entry for it.
RegisterByIndex(id) == expected' = expected \cup {id} /\ results' = results \cup {id}

\* _set_feedback_key_transid
Register(id) == expected' = expected \cup {id} /\ results' = results \ {id}

\* The move goes out under a transaction number that has been registered before.  The
\* arm takes it into its buffer or not; the answer says which, if it comes.
Send(c) ==
  LET accepts == connected /\ ~armErr /\ armState # STOPPED
      Says(code) == answer' = [answer EXCEPT ![c] = code]
  IN  /\ pc[c] = "send"
      /\ next_id' = IF connected THEN next_id + 1 ELSE next_id
      /\ trans_id' = [trans_id EXCEPT ![c] = next_id]
      /\ IF wait[c] /\ support_feedback THEN Register(next_id) ELSE UNCHANGED maps
      /\ armQueue' = IF accepts THEN Append(armQueue, next_id) ELSE armQueue
      /\ \/ connected /\ StateBit(armState) /\ Says(IF armErr THEN "ERR_CODE" ELSE "ok")
            /\ UNCHANGED faults
         \/ connected /\ Says("ERR_TOUT") /\ Fault("lost") /\ UNCHANGED state_is_ready
         \/ ~connected /\ Says("ERR_NOTTCP") /\ UNCHANGED <<state_is_ready, faults>>
      /\ Goto(c, "sent")
      /\ UNCHANGED <<armState, armErr, finished, report, feedback, cached, wait, cnt, max_cnt,
                     command, ret, lagging, link, moves, ops>>

\* Mutant: every command has the inner variable.
InnerRet(c) == "ok"

\* What the request returned, which set_position puts into a variable of an inner block.
Returned(c) == IF command[c] = "line" THEN "ok" ELSE answer[c]

\* _check_code, which looks at the last answer of all, be it to this request or not.
CheckCode(c) ==
  IF Returned(c) = "ok" /\ ~state_is_ready THEN "STATE_NOT_READY" ELSE Returned(c)

Answered(c) ==
  /\ pc[c] = "sent"
  /\ ret' = [ret EXCEPT ![c] = CheckCode(c)]
  /\ Goto(c, IF wait[c] /\ CheckCode(c) = "ok" THEN "begin" ELSE "idle")
  /\ UNCHANGED <<arm, report, feedback, cached, maps, locals, env, bounds>>

-----------------------------------------------------------------------------
(* _wait_move and _wait_feedback. *)

\* XArmAPI::get_state: the cached state changes only with the answer.  An arm with a
\* move in its buffer starts within StartLag answers.
GetState ==
  /\ connected
  /\ state' = armState
  /\ StateBit(armState)
  /\ IF armState = READY /\ armQueue # <<>>
     THEN lagging < StartLag /\ lagging' = lagging + 1
     ELSE UNCHANGED lagging

\* The state before the first poll, which tells how long to wait for the motion.
WaitBegins(c) ==
  /\ pc[c] = "begin"
  /\ \/ GetState /\ UNCHANGED faults
     \/ /\ IF connected THEN Fault("lost") ELSE UNCHANGED faults
        /\ UNCHANGED <<state, state_is_ready, lagging>>
  /\ IF support_feedback
     THEN UNCHANGED <<cnt, max_cnt>>
     ELSE /\ cnt' = [cnt EXCEPT ![c] = 0]
          /\ max_cnt' = [max_cnt EXCEPT ![c] = IF faults' = faults /\ connected /\ armState = RUNNING
                                              THEN 2 ELSE IdlePolls]
  /\ Goto(c, "poll")
  /\ UNCHANGED <<arm, report, feedback, error_code, cmd_num, is_ready, maps, wait, trans_id,
                 ret, next_id, link, request, moves, ops>>

\* A wait by feedback that breaks off forgets the results of everybody.
Clear == results' = IF support_feedback THEN {} ELSE results

\* The port closes before the poll, or between its look at the port and its request.
PollClosed(c) ==
  /\ pc[c] = "poll" /\ ~connected
  /\ Clear \/ UNCHANGED results
  /\ Return(c, "NOT_CONNECTED")
  /\ UNCHANGED <<arm, report, feedback, cached, expected, locals, env, bounds>>

PollError(c) ==
  /\ pc[c] = "poll" /\ error_code
  /\ Clear
  /\ Return(c, "HAS_ERROR")
  /\ UNCHANGED <<arm, report, feedback, cached, expected, locals, env, bounds>>

PollLost(c) ==
  /\ pc[c] = "poll" /\ ~error_code /\ connected
  /\ Fault("lost")
  /\ Return(c, "ERR_TOUT")
  /\ UNCHANGED <<arm, report, feedback, cached, maps, locals, env, moves, ops>>

\* A poll goes on with the state the arm has answered.
PollStopped(c) ==
  /\ pc[c] = "poll" /\ ~error_code
  /\ GetState
  /\ Stopped(armState)
  /\ Clear
  /\ Return(c, "EMERGENCY_STOP")
  /\ UNCHANGED <<arm, report, feedback, error_code, cmd_num, is_ready, expected, locals,
                 next_id, link, request, bounds>>

HasResult(c) == trans_id[c] \in results

PollFeedback(c) ==
  /\ support_feedback /\ pc[c] = "poll" /\ ~error_code
  /\ GetState
  /\ ~Stopped(armState)
  /\ IF HasResult(c)
     THEN results' = results \ {trans_id[c]} /\ Return(c, "ok")
     ELSE UNCHANGED <<results, pc, ret>>
  /\ UNCHANGED <<arm, report, feedback, error_code, cmd_num, is_ready, expected, locals,
                 next_id, link, request, bounds>>

\* A poll that sees the arm move, or pause, starts the count again.
CountAnew(c) == cnt' = [cnt EXCEPT ![c] = 0] /\ max_cnt' = [max_cnt EXCEPT ![c] = 2]

\* Mutant: the first poll that sees no motion ends the wait.
OnePoll(c) == TRUE

LongIdle(c) == cnt[c] + 1 >= max_cnt[c]

PollState(c) ==
  /\ ~support_feedback /\ pc[c] = "poll" /\ ~error_code
  /\ GetState
  /\ ~Stopped(armState)
  /\ IF armState \in {RUNNING, PAUSED}
     THEN CountAnew(c) /\ UNCHANGED <<pc, ret>>
     ELSE /\ cnt' = [cnt EXCEPT ![c] = IF LongIdle(c) THEN 0 ELSE @ + 1]
          /\ IF LongIdle(c) THEN Return(c, "ok") ELSE UNCHANGED <<pc, ret>>
          /\ UNCHANGED max_cnt
  /\ UNCHANGED <<arm, report, feedback, error_code, cmd_num, is_ready, maps, wait, trans_id,
                 next_id, link, request, bounds>>

WaitSteps == {"begin", "poll"}

-----------------------------------------------------------------------------
(* set_state, and clean_error, which ends the same way. *)

SetState(c, op) ==
  /\ pc[c] = "idle" /\ ThreadFree /\ connected
  /\ ops < MaxOps \/ (op = "start" /\ armState = PAUSED)  \* the bound lets no pause last
  /\ op = "start" /\ armState = STOPPED =>
       EarlyRestart \/ \A d \in Movers : pc[d] \notin {"sent"} \cup WaitSteps
  /\ ArmObeys(op)
  /\ StateBit(armState')
  /\ ops' = ops + 1
  /\ Goto(c, "ask")
  /\ UNCHANGED <<report, feedback, cached, maps, locals, ret, next_id, lagging, link,
                 request, moves, faults>>

\* get_state(&state) writes to the member itself, and zero when no answer comes.
AskState(c) ==
  /\ pc[c] = "ask"
  /\ \/ connected /\ state' = armState /\ StateBit(armState) /\ UNCHANGED faults
     \/ connected /\ state' = 0 /\ Fault("lost") /\ UNCHANGED state_is_ready
     \/ ~connected /\ UNCHANGED <<state, state_is_ready, faults>>
  /\ Goto(c, "set ready")
  /\ UNCHANGED <<arm, report, feedback, error_code, cmd_num, is_ready, maps, locals, ret,
                 next_id, lagging, link, request, moves, ops>>

SetReady(c) ==
  /\ pc[c] = "set ready"
  /\ is_ready' = ~Stopped(state)
  /\ Goto(c, "idle")
  /\ UNCHANGED <<arm, report, feedback, state, error_code, cmd_num, maps, locals, ret,
                 env, bounds>>

-----------------------------------------------------------------------------
Init ==
  /\ armState = READY /\ armErr = FALSE /\ armQueue = <<>> /\ finished = {}
  /\ report = <<>> /\ feedback = <<>> /\ port = "open" /\ firmware \in Firmwares
  /\ state = READY /\ error_code = FALSE /\ cmd_num = 0 /\ is_ready = TRUE
  /\ state_is_ready = TRUE
  /\ expected = {} /\ results = {}
  /\ pc = [c \in Callers |-> "idle"]
  /\ wait = [c \in Callers |-> FALSE]
  /\ trans_id = [c \in Callers |-> 0]
  /\ cnt = [c \in Callers |-> 0] /\ max_cnt = [c \in Callers |-> IdlePolls]
  /\ ret = [c \in Callers |-> "ok"] /\ answer = [c \in Callers |-> "ok"]
  /\ command = [c \in Callers |-> "joint"]
  /\ next_id = 1 /\ lagging = 0
  /\ moves = 0 /\ ops = 0 /\ faults = 0

Arm == ArmStarts \/ ArmFinishes \/ ArmFails \/ ArmReports \/ PortCloses

MoveStep(c) ==
  \/ CheckPause(c) \/ CondWait(c) \/ CmdnumLtMax(c) \/ IsReady(c) \/ Send(c) \/ Answered(c)
  \/ WaitBegins(c) \/ PollClosed(c) \/ PollError(c) \/ PollLost(c)
  \/ PollStopped(c) \/ PollFeedback(c) \/ PollState(c)

OperatorStep(c) == AskState(c) \/ SetReady(c)

\* Who pauses the arm resumes it.
Resume == armState = PAUSED /\ \E c \in Operators : SetState(c, "start")

ReportThread == Update \/ Disconnect

Next ==
  \/ Arm \/ ReportThread \/ FeedbackCallback
  \/ \E c \in Movers : Call(c) \/ MoveStep(c)
  \/ \E c \in Operators : (\E op \in Ops : SetState(c, op)) \/ OperatorStep(c)
  \/ Resume

Spec == Init /\ [][Next]_vars

\* Threads are scheduled, the arm works and reports, and a pause has an end.
FairSpec ==
  /\ Spec
  /\ WF_vars(ArmStarts \/ ArmFinishes) /\ WF_vars(ArmReports)
  /\ WF_vars(ReportThread) /\ WF_vars(FeedbackCallback)
  /\ \A c \in Movers : WF_vars(MoveStep(c))
  /\ \A c \in Operators : WF_vars(OperatorStep(c))
  /\ WF_vars(Resume)

-----------------------------------------------------------------------------
MoveSteps == {"enter", "paused", "waiting", "room", "ready?", "send", "sent", "begin", "poll"}
Codes == {"ok", "ERR_CODE", "STATE_NOT_READY", "ERR_TOUT", "HAS_ERROR", "NOT_READY",
          "EMERGENCY_STOP", "NOT_CONNECTED", "ERR_NOTTCP"}

TypeOK ==
  /\ armState \in 1..4 /\ state \in 0..4 /\ armErr \in BOOLEAN /\ error_code \in BOOLEAN
  /\ is_ready \in BOOLEAN /\ state_is_ready \in BOOLEAN /\ cmd_num \in 0..MaxMoves
  /\ port \in {"open", "lost", "closed"} /\ firmware \in Firmwares
  /\ armQueue \in Seq(1..MaxMoves) /\ feedback \in Seq(1..MaxMoves)
  /\ finished \subseteq 1..MaxMoves /\ expected \subseteq 1..MaxMoves
  /\ results \subseteq finished
  /\ pc \in [Callers -> MoveSteps \cup {"idle", "ask", "set ready"}]
  /\ ret \in [Callers -> Codes]

\* A move that waited and returned 0 has been carried out, whatever else was going
\* on: nobody else's feedback, stop or pause is taken for its end.
WaitedMoveIsDone ==
  \A c \in Movers : pc[c] = "idle" /\ wait[c] /\ ret[c] = "ok" => trans_id[c] \in finished

\* "ret is 0 for successful execution and others for errors or warnings occured"
\* (Move.srv): a move whose request came to nothing does not return 0.
ErrorsAreReported ==
  \A c \in Movers : pc[c] = "idle" /\ answer[c] # "ok" => ret[c] # "ok"

\* Every move returns, as long as a thread is left to resume a paused arm.  Only one
\* that waits for the end of a pause when the port closes is left waiting.
EveryMoveReturns ==
  \A c \in Movers : pc[c] # "idle" ~> pc[c] = "idle" \/ (pc[c] = "waiting" /\ ~connected)

\* An arm that stays stopped is known to be not ready in the end, whichever of the
\* threads that keep is_ready_ had the last word before.
StoppedIsNoticed == <>[](armState = STOPPED /\ connected) => <>[](~is_ready)
=============================================================================
