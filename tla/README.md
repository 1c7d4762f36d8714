# A model of the robot barman

The repository drives a UFACTORY xArm5 that looks for a bottle with a camera, grasps it, pours into a
cup and puts the bottle back. Two Python nodes of its own (`src/cup_detection`) sit on top of the
`xarm_ros` stack, which is in the tree as well: the driver node, the C++ SDK with its threads and
sockets, and the ROS controller. This directory holds TLA+ models of the parts in which the order of
things matters, the TLC runs that check them, and proofs of the main results.

All paths below are relative to the root of the repository.

## 1. The system

```
 camera ──> cup_detector.py ──/bottle_coords, /cup_coords──> bottle_grabber.py
                                                               │  ▲
                              services /xarm/* (move_joint, ..)│  │ topic /xarm/xarm_states
                                                               ▼  │
                                                        xarm_driver (xarm_api)       xarm_control_node
                                                               │                      loop: read, update,
                                                               ▼                      write (xarm_hw)
                                                        XArmAPI (xarm_sdk wrapper) <─────────┘
                                                  report thread, feedback thread, callbacks
                                                               │
                                            UxbusCmdTcp ── SocketPort ── QueueMemcpy
                                                               │  command port, report port
                                                               ▼
                                                            the arm
```

| part | state it keeps | operations | what is hard about it |
|---|---|---|---|
| `bottle_grabber.py` | `_moving`, `_in_emergency`, `current_joints`, `current_state` | `bottle_callback` (one pour), `state_callback`, `force_stop_robot`, constructor | three threads on one object without a lock; service calls that fail or raise; sleeps instead of waits; a software stop that starts the arm again |
| `cup_detector.py` | two histories of five points | `callback` per camera frame, `nms`, `smooth_detection` | ties, empty and clipped boxes, stale points |
| joint angles on the wire | – | `_report_data_callback`, `state_callback`, `safe_move_joint_real`, `MoveJointCB` | two units |
| `QueueMemcpy` | ring buffer, count, two indices | `push`, `pop`, `flush` | `flush` takes no lock |
| `SocketPort` | bytes received and not cut yet, learned size, `state_` | `recv_proc`, `recv_report_proc`, reads, `close_port` | TCP cuts anywhere, full queues, interrupted calls, either side closing |
| `UxbusCmdTcp` | transaction number, open/closed | request/answer | late and lost answers, flush against push, number wrap |
| `XArmAPI` waiting moves | cached `state`, `error_code`, `cmd_num`, `is_ready_`, feedback maps | `set_servo_angle(wait)`, `_wait_move`, `_wait_feedback`, `set_state` | four kinds of threads, none of the cached fields is locked, waits without a timeout |
| `xarm_control_node` / `XArmHW` | read/write codes, reset flags | `read`, `need_reset` (twice a pass), `write` | a report between the two calls; a failed write forgotten by the first |
| a controller's session: `locked_ip_key_` in `XArmHW`, `XArmAPI::connect`, report threads | one ROS parameter, three streams, failure counts | `init`, `connect`, `disconnect`, reconnecting, destructors | test and set apart; exits that skip the destructor; results that nobody looks at |
| gripper, bio gripper, robotiq, linear motor (`XArmAPI`) | locals of each wait | the calls that command a tool and wait | lost polls, late tools, faults, codes that are dropped |
| gripper actions of the driver, `gripper_action_server` | the goal, locals shared with a thread | goal handlers, `executeCB` | the end of the thread against the end of the handler |
| driver services, callbacks of `XArmAPI` | – | pass-through | see section 7 |
| `ThreadPool` (`timer.h`), force sensor, parameters, GPIO, recording | see `PROJECT.json` | | not modelled, reasons there |
| planners, servo input, vision demos, descriptions, launch files, build trees, network weights | none that matters here | | not modelled, reasons in `PROJECT.json` |

What makes each part correct, in one line:

* **grabber**: the bottle is only let go where it was meant to be put down; every pour ends; the arm is
  never left halted by the node's own stop; little is sent once the joints are known to be unsafe.
* **detector**: what survives `nms` does not overlap, and nothing is dropped without a better box; a
  published point lies in the frame and forgets what is older than five detections.
* **queue**: first in, first out, bounded, and no copy outside the buffer.
* **bus**: a request takes no answer but its own, and one flush repairs what an earlier one mixed up.
* **socket**: what comes out of a queue is what the arm sent, frame by frame, however TCP cut it, and
  the end of a connection is noticed.
* **tools**: zero means that the tool has done it, and every goal of an action ends.
* **waiting moves**: zero means done; every move returns; a stop is known in the end.
* **control loop**: of a trajectory that is known to be broken off hardly anything reaches the arm, and it is
  dropped in the end.
* **session**: one controller for one arm, and none that goes on without reports.

## 2. Modules

One module per component; `MC*` modules and the `.cfg` files hold the instances for TLC, `*Proofs`
modules the theorems: `BottleGrabberProofs` (with `PourPlan`), `CupDetectorProofs` (with `Nms`),
`QueueMemcpyProofs`, `UxbusTcpProofs`, `SocketRecvProofs`, `GripperActionProofs` (with `EndEffector`),
`MoveWaitProofs` and `XarmHwProofs` (`Session` and `ControlLoop`, the two halves of `XArmHW`).

| module | code | uses |
|---|---|---|
| `PourPlan` | the arithmetic of `bottle_grabber.py`: limits, `simple_ik_pixel_adjust`, the poses of a pour | – |
| `BottleGrabber` | the node's threads, over the arm's services | EXTENDS `PourPlan` |
| `JointUnits` | the units of the joint angles between the node and the driver | EXTENDS `PourPlan` |
| `Nms` | the loop of `nms` | – |
| `CupDetector` | `callback` and `smooth_detection` | EXTENDS `Nms` |
| `BoundedQueue` | abstract: what a queue promises | – |
| `QueueMemcpy` | the ring buffer, access by access | implements `BoundedQueue` |
| `SocketRecv` | the receiving threads of a command and of a report port | – |
| `UxbusTcp` | requests, receiving thread, arm | INSTANCE `QueueMemcpy` |
| `EndEffector` | the calls that wait for a tool, and the tools | – |
| `GripperAction` | the action handlers that make those calls in a thread | EXTENDS `EndEffector` |
| `MoveWait` | moves that wait, reports, feedback, `set_state`, a port that closes | – |
| `ControlLoop` | the loop of `xarm_control_node` and `XArmHW` | – |
| `Session` | the lock parameter, connection, report threads, ends of a controller | – |

### BottleGrabber

A step of the model makes at most one service call, because that is where threads interleave. `stage`
and `step` say where the constructor's thread (`main`) and the callback's thread (`bottle`) are: a
stage is one move or gripper call of the script, the steps inside a move are the check of
`bottle_callback`, the second check in `safe_move_joint_real`, the call of `move_joint`, and the check
after the sleeps. `stopping[t]` counts the three `set_state` calls of `force_stop_robot` that thread
`t` has left. `After`, `OnCheckFail` and `OnVerifyFail` are the control flow of lines 312–454, with
the exception handlers and the `finally` clause. Angles are integers in millidegrees, in which every
constant of the script is a whole number. `rospy.sleep` raises at a shutdown: where a handler of the
script catches that, the step goes on (`CheckBeforeMove`, `MoveDone`, `InitializeFails`), and the sleep
between the stops and the start of `force_stop_robot`, which no inner handler covers, leaves the start out
(`ForceStop`, `SkipStart`).

The arm behind the services (`Arms`, `ArmSetState`, `ArmSetMode`, `ArmGrip`, `ArmArrives`, `ArmFails`)
has the state, error flag, queue of goals, pose and gripper that the pour depends on. `set_state(9)`
and `set_state(5)`, which nothing in the repository defines, either do nothing or halt it.

`Faults` selects what may go wrong; `nominal` becomes FALSE with the first failure, so that properties
of an undisturbed pour can be told from those that hold always.

`joints` stands for the verdict of `check_current_joints_safety`. The model lets any publisher of
`/xarm/xarm_states` make it unsafe. `JointUnits` shows that with this repository's driver the verdict
is practically always "safe", because radians are compared with limits in degrees.

### CupDetector, Nms

`Predict` is a camera frame with what the network sees in it, corners scaled to the image: threshold,
clip and the call of `nms` for the bottles. `Suppress` is one round of the loop of `nms`, `Cups` the
second call, `Publish` the smoothing and the two topics. `argsort()[::-1]` leaves the order of ties
open, and so does the model. `SuppressesNonMaxima` is about every round, with its four parts
`KeptApart`, `DroppedForABetter`, `KeptOnce` and `FirstIsBest`; the callback uses the first box only.

### QueueMemcpy, SocketRecv, UxbusTcp

Every access to a shared field is a step. `push` and `pop` hold the mutex and increment with a read
and a write; `memcpy` into a slot takes two steps, between which the slot is `Torn`; `flush` writes
three fields and clears the buffer without the mutex. `calls` is the use a queue is put to and never
changes: on a report port nobody flushes, and only there is the ring mapped to `BoundedQueue`
(elsewhere the mapping is constantly empty, and nothing is claimed). `UxbusTcp` runs those same actions (through
INSTANCE) under the thread of a request and the receiving thread, with an arm that answers in order,
late or not at all. `mutex_` of `UxbusCmd` admits one request at a time, which is why there is one
such thread; the assumption that only the thread that flushes pops is part of `QueueAssumption`.

`SocketRecv` is the thread on the other side of those queues, with the bytes of the stream: `Recv` takes
any number of them, `Parse`, `Push`, `Retry` and `ParseEnds` are `recv_proc`, `LearnSize`, `Report`,
`MakeRoom`, `Drop` and `Put` are `recv_report_proc`. A byte is its place in the stream, and a frame has
the place `at` where it begins, so that bytes put together wrongly are seen to be no frame (0 in `out`).
`SocketAssumption` says what the arm sends: frames one behind the other; command frames that state their
own length; reports that have one length, and that state it or, as the long ones of the pair the code
confuses do, the short one. `errno` is kept because `recv` that returns 0 leaves it alone. `spoilt` marks
the reads after which the code cannot go on rightly (below).

### EndEffector, GripperAction

A tool has a phase (`rest`, `lag`, `moving`, `fault`), a position for grippers that have one, and says
in `done` whether the last command has been carried out. The calls share their shape — check, enable,
command, poll — and differ in `Code`, what one answered poll makes of the tool. `wait` holds the locals
of the loops; `ignored` the failures after which the code goes on as if nothing had happened.
`GripperAction` adds the two handlers of the driver, with the thread that they start and the flag
`is_move` that both write, and `executeCB`, which polls the driver's services itself.

### MoveWait

`CheckPause`/`CondWait` are `_wait_until_not_pause`, `CmdnumLtMax`, `IsReady`, `Send`/`Answered` the
body of `set_servo_angle`, or of `set_position` with `command = "line"`, `WaitBegins` and the `Poll*`
actions `_wait_move` and `_wait_feedback`. `Update` is the report thread (with `notify_all`),
`Disconnect` its end when the port is gone, `FeedbackCallback` the feedback thread,
`SetState`/`AskState`/`SetReady` a concurrent `set_state` or `clean_error`. Results are matched by
transaction number alone: the code carried by a feedback frame is stored by the code and ignored by a
wait, and so it is absent here. `Firmwares` are the three kinds the code tells apart: `old` checks the
arm before a move, `old` and `middle` guess the end of a motion from ten polls without motion, `new`
has feedback. `Threads` is the number of threads that serve the driver's requests.

### ControlLoop

A pass is `Read`, `Check`, `Update`, `WriteCheck`, `Send`. Nothing is timed: reports, stops and
recoveries come at any point of a pass, as often as they like or never. Positions are left out: a command
carries the age of its goal. In POSITION mode a command that has hardly changed is not sent
(`xarm_hw.cpp:451`), which without positions may be any command (`Unsent`): then nothing fails, whatever has
become of the arm. A goal is `old` (`Broken`) once the loop knows of trouble, because a command was refused or
the first `need_reset` of a pass asks for a reset. `oldSent` counts the commands of such a goal that the arm
accepts, since the last report. Its specification is called `LoopSpec` (`LoopInit`, `LoopNext`,
`LoopFairSpec`), since `XarmHwProofs` extends it together with `Session`.

### Session, JointUnits

`HasParam`, `GetParam`, `SetParam` and `Finish` are the calls to the ROS master, one action each, and
those of the controllers interleave freely. `stale` counts how often the lock was taken on a look at it
that another start had overtaken (`OutOfDate`), which the code does not prevent.
`Connect` has every outcome of `XArmAPI::connect`, whose result the driver drops. `Rich*` and `Plain*`
are the two report threads with their ways to reconnect. A controller ends by its destructors in their
order (`Finish`, `Part`) or past them (`Crash`). `JointUnits` follows a joint angle from the arm's
report through the driver to the check, and from the script to the arm.

## 3. Runs

| run | question | bounds | states |
|---|---|---|---|
| `grabber_safety` | one pour, with every overlap of the three threads; early bottle, unsafe reports, refused moves, late motions, halts | 1 message, 1 pixel | 4.8 M |
| `grabber_live` | two bottles, unsafe reports, refused moves, raising calls, shutdown; poses, end of the pour | 2 messages, 2 pixels | 1.6 M |
| `detector` | any sequence of frames with none or three of five bottles, and cups and others | 8×6 image | 0.1 M |
| `queue` | the ring buffer in both its uses: report port (nobody flushes: it implements `BoundedQueue`) and command port (every request flushes without the mutex: memory stays safe) | 3 slots, 2 frames | 0.5 M |
| `socket_recv` | both kinds of port, streams cut anywhere, slow readers, interruptions, either side closing | 5 streams of 2 to 5 frames, 3 to 6 bytes each | 0.6 M |
| `uxbus_tcp` | late answers, timeouts, racing flush, closing port | 2 slots, 3 numbers, 4 requests | 0.6 M |
| `end_effector` | all eight calls, with requests and polls lost, late tools, faults, a shutdown | one call, one goal | 68 k |
| `move_live` | two waiting moves with feedback, a thread that stops, pauses and starts the arm, a port that closes | 2 moves, 1 operation, 1 fault | 0.5 M |
| `move_state` | the safety of moves on all firmware, with errors, lost answers and `clean_error` | 2 moves, 2 operations, 1 fault | 7.8 M |
| `control_loop` | stops, errors, failed reads and writes, skipped commands, lost connections, reports and recoveries at every step of a pass and at any rate | 4 faults, 2 goals | 51 k |
| `session` | two controllers that start, crash and exit at any time, with streams that break | 3 starts, 2 breaks, 2 reconnects | 0.8 M |
| `units` | fails, see below | edges of the ranges, one joint at a time | |

Why the bounds are enough:

* *grabber*: the column of a pixel moves joint 1 only and the row joints 2 and 3 only, and both are
  clamped; the two pixels of `grabber_live` are opposite corners of that range, and theorem
  `IKIsSafe` covers all others. One message is enough for the overlap of a pour with the constructor
  and with stops; the second message is there for what happens to a bottle seen during a pour.
* *detector*: a round of `nms` looks at one kept box and the rest, so that three boxes give every
  relation of kept, dropped and remaining ones (theorem `KeepsTheBest` removes the bound); the
  histories are full after five detections and the state space is closed.
* *socket*: a frame of three bytes has a header of two and one more, so that a read may end in a header,
  behind it and between frames; two slots of a queue fill. 4 and 6 bytes stand for the reports of 233
  and 245 bytes that the code confuses.
* *tools*: one call at a time, as `mutex_` and the action servers have it. `Lag` and `Pace` promise that
  a gripper begins, and is seen, to move within the polls that the code allows for it; the numbers of
  polls are the code's own.
* *queues*: three slots hold a full, a wrapped and an empty ring with one frame in between. For the bus
  two slots fill with two late answers, and three transaction numbers wrap within four requests.
  `NotARoundBehind` excludes an answer a whole round of numbers late (65 535 requests in the code).
* *moves*: two movers share the maps and the cached state, one more thread interferes. `MaxCmdnum` is 1
  so that the buffer of the arm fills. `StartLag`, the number of answers within which the arm starts
  a move, is what ten polls of 50 ms stand for.
* *control loop*: four faults are more than the two passes in which a command could slip by; reports and
  recoveries are not bounded at all. Theorem `OldGoals` removes the bounds.
* *session*: two processes make every race on the lock, and a third start, of one that has ended, is let in
  or refused by what they have left; theorems `OneDriver` and `LockFreed` remove the bounds. Two breaks
  take a stream down and its reconnected one, or two streams.

Deadlock is checked where the state space never ends (`detector`, `queue`). It is switched off where
the system or the bounded instance comes to rest: the grabber shuts down or has handled all its
messages, a receiving thread ends with its connection, a call returns, moves, requests, goals and
starts are bounded, and the control loop exits when the connection is lost.

### What the runs say beyond "no error"

* `LowerIsNoOp` and `VerifyNeverFails` record facts a reader of the script would not expect: the step
  "lower" of a pour moves nothing (joint 2 is at its safe limit already, because `CALIB_JOINTS_DEG`
  asks for 80 degrees where 70 are allowed), and the branches behind `verify_joint_safety` are dead.
* `EveryMessagePours`: the guard `if self._moving: return` drops nothing, since rospy runs the
  callbacks of one connection in sequence. A bottle seen during a pour is poured again later.
* `KeepsPublishing`: a bottle that was taken away is reported for ever.
* `StopNotLatched`: every `force_stop_robot` ends by starting the arm again, and overlapping ones too,
  while ROS is up. At a shutdown the start may be left out, and the arm stays stopped.
* `ReportsInStep`: with the ambiguous report length the second report is always lost, and with it whatever
  else the next `recv`, which has no limit, brings. That happens once; the reports that go into the queue
  after it follow each other again.
* `OldGoalBound`: the failed write that the first `need_reset` of a pass hides from the second lets one
  command of a broken goal through, and never a second before the next report.
* `OneController`: controllers that start together may all find the parameter free, and then all drive.
  Each such start adds one driver that the lock does not know of, and no more than one: when it, or
  another, ends, the parameter is false and one more is let in beside those that are left.

### The violation

`units` / `UnsafeIsStopped`, one counterexample with two errors in it:

* `move_joint` takes radians (`Move.srv:3`), the script sends degrees: a pose inside `safe_limits`
  reaches the arm far outside its limits.
* `RobotMsg.angle` is in radians (`RobotMsg.msg:33`); the script applies `math.radians` to it, back
  `math.degrees`, and compares with degrees. A joint that was sent far out and has come to its limit of
  2.094 radians is 2.094 degrees to the script, well inside `safe_limits`, and the arm is not stopped.

### What the properties excuse

Some properties name a case in which the code does not keep them. In each, TLC shows the case when the
excuse is dropped; they are listed under `hazards` in `PROJECT.json` with their lines, and a hazard that its
property excuses in full has a note there in the place of the property.

* `ReleasedOnlyWhenPutDown`, `WaitsAtHome`: a pour in which something has gone wrong (`nominal`): a
  refused, late or unchecked move, a call that raises, an overlap with the constructor.
* `StopNotLatched`: a shutdown of ROS, during which the start after the stops may be skipped.
* `OldGoalBound`, `OldGoalDropped`: trouble that the loop does not know of. An outage between two reports in
  which no command is sent goes unnoticed, and what only the second `need_reset` of a pass has seen is not
  told to the controllers; the goal goes on in both cases. `OldGoalDropped` also excuses a last report that
  still calls the arm stopped, after which every command is withheld.
* `OneController`: one driver for each start that has lost the race for the lock (`stale`), and the last
  command of a controller that has given the lock back already (`parting`).
* `AnswersInOrder`, `NoneLeftBehind`: a read that brought a whole frame and a part of the next, whose
  bytes go to the wrong buffer (`socket.cc:231`). `SameSizeStaysOpen`: the ambiguous report length when
  the next read does not end with a report, and a report whose length is not the one it states.
* `EndIsNoticed`: a thread that was interrupted once takes the end of the connection for another
  interruption and spins (`socket.cc:188`).
* `ZeroIsDone`: what `ignored` holds — a first position not answered, an error code not answered,
  enabling that failed, and the code of the way to the origin replaced by that of enabling.
* `GoalEnds`: a gripper with a fault that is watched by its status, and the gripper server when the
  gripper has closed on something short of its target.
* `EveryMoveReturns`: a move that waits for the end of a pause when the port closes; nobody notifies it.
* `LockIsFreed`: a crash. `ReportsOrEnd`: firmware with a heartbeat (protocol 3), and the plain reports,
  whose thread tries again for ever.

### Observed with the same models, without a run of their own

* `Session`: two controllers that start together both find the parameter unset and both drive; and one
  that ends gives the lock back before its last command.
* `MoveWait` with `Commands = {"line"}`: `set_position` looks at the wrong one of two variables `ret`,
  so that `move_line` returns 0 for a request that came to nothing (`ErrorsAreReported`).
* `MoveWait` with `Threads = 2`: two moves wait in a pause and no thread is left for the request that
  ends it (`EveryMoveReturns`).
* `MoveWait` on old firmware with `EarlyRestart = TRUE`: a stop and a start between two polls drop a move
  that then returns 0. With feedback the same leaves the move waiting for ever (liveness).
* `MoveWait` with `WaitParam = "unset"`: `_get_wait_param` returns an uninitialised `bool`, so that a
  move may wait although `ReadMe.md:430` says the services return at once by default.

## 4. Fairness

| run | assumed fair | because |
|---|---|---|
| `grabber_live` | the two movers, the rest of a `force_stop_robot` once begun, motions of a ready arm | threads are scheduled, services answer, an accepted motion ends. Nothing is assumed of reports, messages, faults or shutdown |
| `socket_recv` | the receiving thread | it is scheduled; nothing is assumed of the arm, which need not send or close |
| `end_effector` | the calling thread, time limits, the motion of a tool that has a command, the thread's begin and end, the handler's loop, an answered poll of the server | threads and loops are scheduled, time passes. The calls' own polls may be lost for ever; the server, which gives its goal up at the first lost poll, is only assumed not to stop polling, so that fairness never makes a poll fail |
| `move_live` | the arm starts and ends motions and reports, report and feedback threads run, movers and begun `set_state` calls go on, a paused arm is resumed | 5 Hz reports and 50 ms polls are timers; resuming is up to a person, without whom a wait in a pause has no end by design |
| `session` | both report threads, the end of `init`, the loop that sees a lost connection | threads and the loop are scheduled; ROS may be up for ever and streams need not come back |
| `control_loop` | the loop | it is a timer. No report has to come, and nobody has to bring the arm back: the property says what follows if the arm is ready for good |

All fairness is weak. `move_live` has `EarlyRestart = FALSE`: a stopped arm stays stopped until the
moves that wait have seen it. Without that assumption `EveryMoveReturns` is false (see above). It also
keeps one thread free for the operator; the driver's four spinner threads can all be in a waiting move.

## 5. Proofs

All are checked by `tlapm` to the last leaf; constants are arbitrary but for the named assumptions of
each module.

| theorem | says | argument |
|---|---|---|
| `BottleGrabberProofs!IKIsSafe`, `DerivedIsSafe` | every pixel gives a safe pose, and safe poses give safe poses | clamping, joint by joint |
| `…!TypeCorrect` | `TypeOK` | one step per action, `ThreadsMoved` for the four variables that `Goto` changes |
| `…!TargetsSafe` | `VerifyNeverFails` | strengthened by: `target` is always safe; by the two theorems above |
| `…!LateMoves` | `LateMoveBound` | see below |
| `…!LowerMovesNothing`, `WaitsHome`, `KeptLevel`, `Released` | `LowerIsNoOp`, `WaitsAtHome`, `BottleKeptLevel`, `ReleasedOnlyWhenPutDown`, for every pixel and number of bottles | see below |
| `…!StopIsLifted` | `StopNotLatched`, when `"call" \notin Faults`: while ROS is up no call and no sleep raises then | the invariant is the property with `TypeOK` and the steps of the constructor; only the last call of a stop, and the constructor's, may find the arm stopped, and both start it |
| `CupDetectorProofs!KeepsTheBest` | `SuppressesNonMaxima` for every frame and any number of boxes | on top of the property: no kept box overlaps one still in order, and the first round starts with all of them |
| `…!InFrame`, `Settles`, `StaysPublished` | `PublishedInFrame`, `SettlesInFive`, `KeepsPublishing`, for every size of the image | see below |
| `QueueMemcpyProofs!TypeCorrect`, `MemorySafe` | count and indices in range, no copy outside the buffer | mutual exclusion of `push` and `pop`; inside them bounds on the fields that survive any assignment of `flush` in between, since it only writes zeros |
| `QueueMemcpyProofs!Implements`, `PopsOldest` | `IsBoundedQueue`, `PopsTheOldest` | see below |
| `UxbusTcpProofs!OwnAnswer`, `HeadersFit`, `NextIsAnswer` | `AnswerMatches`, `NoHeaderErrors`, `AnswerIsNext`, for every number of slots, numbers and requests | see below |
| `SocketRecvProofs!TypeCorrect` | `TypeOK` | – |
| `…!InOrderOut`, `NoFrameWaits` | `AnswersInOrder`, `NoneLeftBehind`, for every stream of command frames, however it is cut | see below |
| `…!InStepOut`, `StaysOpen` | `ReportsInStep`, `SameSizeStaysOpen`, for every stream of reports of one length | see below |
| `GripperActionProofs!ThreadOutlived` | `ThreadEndsFirst` | where the thread is, goal by goal (`HandlerStays`) |
| `…!ZeroDone` | `ZeroIsDone`, when the gripper moves within the polls that its waits allow (`Prompt`) | see below |
| `MoveWaitProofs!WaitedMoves` | with feedback (`Firmwares = {"new"}`), a move that waited and returned 0 is done | `results` and `feedback` only hold numbers of finished moves |
| `MoveWaitProofs!PolledMoves` | the same on every firmware, when `EarlyRestart = FALSE` | see below |
| `MoveWaitProofs!ErrorsReported` | `ErrorsAreReported`, when `Commands = {"joint"}` | the answer of a request and what `_check_code` makes of it stay together until the move returns |
| `MoveWaitProofs!TypeCorrect` | `TypeOK`, with `cmd_num` and the transaction numbers within the moves that were called | counting: each call not sent yet (`Early`) has a number left for it (`Numbered`) |
| `XarmHwProofs!OneDriver`, `LockFreed` | `OneController`, `LockIsFreed`, for any number of controllers and every interleaving | counting: a step changes the set of drivers by one process (`DriversAfter`), `SetParam` adds one and makes the parameter true or the look stale, `Finish` takes one away and makes it false |
| `…!LoopTypeCorrect` | `TypeOK` of `ControlLoop`, with "a failed write is told once" | – |
| `…!OldGoals` | `OldGoalBound`, for every timing of reports, outages and commands | see below |

**LateMoves.** That two moves at most go out is not inductive: the count has to be tied to the threads
that may still send. The invariant says that while the joints are unsafe, `late` plus the threads that
stand at `send` (`Pending`) is at most two, since no thread gets there while they stay unsafe.

**OldGoals.** `oldSent <= 1` alone is not inductive. `Noticed` says that what has made a goal old is still in
a flag of the loop, or in the code of the write, at every step of the pass until the controllers are reset.
`NoneFollows` says what holds after the first command of an old goal: the controllers are on the way to their
reset, or one of the things that `need_reset` looks at (`KeepsBack`) will keep the next command back. Only a
report can change the latter, and with a report the count begins anew. No timing is assumed.

**WaitedMoves.** Needs no assumption on the order of feedback, on stops or on lost answers: the map of
results gets an entry only from a feedback frame, a frame only from a move that ended, and a number is
registered before its move is sent.

**PolledMoves.** Without feedback a wait only sees whether the arm moves, and `EarlyRestart = FALSE` is
needed (section 3). `Accounted` says that the move of a wait is done, or in the buffer of the arm, or
that the arm is stopped or the port closed; a poll does not return 0 in the last two cases. `Patient`
is about an arm that is ready although it has the move: it has not been seen to run, so that the wait
still allows `IdlePolls` polls, and of these `cnt` has counted no more than the answers `lagging` that
the arm is late by, of which there are at most `StartLag < IdlePolls`. Once the arm runs, it is ready
again only with an empty buffer, when the move is done.

**The pour.** That a bottle is let go in the right place follows from nothing that can be said of the
last step alone. `Undisturbed` says of a pour in which nothing has gone wrong that each stage finds the
arm where the one before it left it: `PoseBefore` and `TargetOf` give the pose and the target of every
stage, `Pouring` and `Starting` tie them to the goals of the arm, to the gripper and to who is at work,
so that the constructor and a pour never overlap. The four theorems read off that invariant, with the
lemmas about `PourPlan` on the poses that one pixel leads to.

**Implements.** The mapping takes the ring to the sequence of its frames. The invariant `Ring` says where
the head is: behind the youngest frame, up to whole rounds, or one further while a push has advanced it
and not counted yet. It also ties what a thread has in its registers to the slots. Since only the owner
of the mutex works in `push` or `pop` (`Alone`), each step is about one thread (`OwnStep`); a copy goes
to the slot behind the youngest frame, which none of the frames is in (`NextPlace`), so that only the
last steps of `push` and `pop` change the sequence.

**Published points.** `PublishedInFrame` needs the histories: every point in them lies in the frame
(`Kinds`), and so does the mean of one to five of them. The sums are written out for each length, and
`MeanBetween` puts a mean between any bounds that its points keep. `SettlesInFive` is the case in which
the bounds are one and the same point: `Settled` says that the last points of a history are those that
`seen` has counted.

**The bus.** The queue comes in through INSTANCE, with the invariant that `QueueMemcpyProofs` proves for
any threads. On top of it `BusInv` gives each frame under way — sent and not answered, on the wire, in a
slot, in the registers of either thread — the number of a request that has been made (`Numbers`) and
says that the requests since have not come round to it (`Behind`), which is what `NotARoundBehind`
assumes of the arm. What a pop hands out is then the answer of this request or of an earlier one with
another number (`Told`), whatever order the racing `flush` has left the slots in. `AnswerIsNext` needs `CleanInv`:
with nothing earlier under way a flush has nobody to race with, and the one answer is still to come,
is being pushed into the first slot, or is there to be read.

**The socket.** A command port: `CommandInv` says that the buffer is always a run of the stream, and
`Reached(n)` that what came out is what the stream has before frame `n` and that the rest of the buffer
begins with that frame. Frames only say where the next one begins, so that "every byte belongs to one
frame" rests on the principle of the least number (`WFMin`), and not on an induction, which the prover
cannot do. A report port: `ReportInv` goes through what the thread knows of the length — nothing yet
(`Learning`), the ambiguous one (`Guessing`), put right (`Corrected`, `GivenUp`) — to the two ways it
can end: at the beginning of a frame (`Aligned`) for good, or `Astray` after one of the `spoilt` reads.
`Follows` says which report may come next; behind the first of the ambiguous length there is a gap because
`Corrected` has more in the buffer than that report.

**Zero is done.** A wait looks at a tool that moves at its own pace. `PositionWaits` and `StatusWaits`
bound the polls without progress by those that the tool may need, to which `Prompt` gives room (8 and 20
polls in the code); `RestIsDone` says that a tool at rest behind a command has carried it out, so that
the code of the last poll tells the truth.

Only model-checked: everything temporal under fairness (`PourEnds`, `EveryMessagePours`,
`EveryMoveReturns`, `StoppedIsNoticed`, `OldGoalDropped`, `GoalEnds`, `EndIsNoticed`, `ReportsOrEnd`), which
is out of the prover's reach. The violation `UnsafeIsStopped` is a counterexample and needs no proof.

Every other safety property and every action property of the runs is a theorem, under the conditions
of the table; they are those of the runs (`ErrorsAreReported`, for one, fails for `set_position`). Each
inductive invariant was checked with TLC, on the instance of the component's run or a smaller one, before
it was proved. What a fold or a recursive function gives for every input is induction over data and
beyond the prover: where a proof needs it, it is about sums that are written out, or about the least
number.

No module declares a RECURSIVE operator.

## 6. Mutants

Next to a definition a `Mutant:` comment marks the same definition with a likely mistake. Each property
of a passing run is violated when its mutant replaces the definition, which is how we know that the
property depends on the code (`PROJECT.json`, `mutants`).

## 7. What is not modelled

* Positions and velocities inside a motion, kinematics beyond `simple_ik_pixel_adjust`, the network of
  the detector, the content of requests and of reports: data without control. Most of the driver's
  services and of the SDK's commands are of this kind, one request and its answer.
* Timing. Where the order of two timers matters it is a bound (`StartLag`, `Lag`, `Pace`) or a fault
  (`slow`); the control loop needs neither.
* Undefined behaviour without a set of outcomes: use of a queue that the receiving thread has deleted,
  of a stream that `disconnect` has taken away (a crash in `Session`), of locals that an action handler
  has left at a shutdown, and what the unlocked `std::map`s do when two threads write at once.
* Timeouts of waiting moves (the driver passes none) and mode changes, after which `_wait_move` returns 0
  at once.
* A second detector connection, which would let two callbacks test `_moving` at once.
* `ThreadPool`: the driver asks for no callback threads (`xarm_driver.cpp:364`), so that every callback
  runs on the thread that reports, as the models have it.
* The force sensor, GPIO, recording, the serial port, planners, servo input, demonstrations, data and
  build trees; `PROJECT.json` has the reasons.

## 8. Plan

Done: the grabber, the detector with `nms` inside its callback, the queue, the socket and the bus under
the driver, the tools and their actions, the waiting moves with all firmware and a port that closes, the
control loop, the sessions of the controllers, the units between script and driver. All safety properties
that the passing runs check are proved, for the cases that section 5 names.

Next, in order:

1. An abstract bus (a request gets its own answer or an error) that `UxbusTcp` implements.
2. The grabber composed with the detector: stale points and pours, from camera to arm.
3. `SocketRecv` in the place of the abstract `Receive` of `UxbusTcp`.
4. Recording and playback of trajectories and the identification of the force sensor, whose waits
   resemble those of `EndEffector`.
