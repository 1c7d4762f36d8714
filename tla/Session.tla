------------------------------- MODULE Session -------------------------------
(***************************************************************************)
(* The controllers of one arm (xarm_control_node) from their starts to     *)
(* their ends.  XArmHW::init takes a lock, a parameter of the ROS master   *)
(* named after the arm's address, that only XArmHW's destructor gives      *)
(* back; the driver then connects to the arm, and the SDK's threads of the *)
(* rich and of the plain reports keep their streams up, or give up.  What  *)
(* the reports say is left to ControlLoop and MoveWait.                    *)
(***************************************************************************)
EXTENDS Naturals, FiniteSets

CONSTANTS
  Controllers,   \* processes that run xarm_control_node for the arm
  ReportType,    \* report_type_: "rich", or "normal" for a stream of its own
  MaxReconnects, \* max_reconnect_cnts: 10
  MaxStarts,     \* bound on the starts
  MaxBreaks      \* bound on the streams that break

ASSUME SessionAssumption ==
  /\ IsFiniteSet(Controllers) /\ ReportType \in {"rich", "normal"}
  /\ MaxReconnects \in Nat /\ MaxStarts \in Nat /\ MaxBreaks \in Nat

VARIABLES
  \* the lock
  param,      \* locked_ip_key_: "unset", "true" or "false"
  pc,         \* where each process is
  ip_locked,  \* its local
  crashed,    \* a process has left past its destructor
  stale,      \* history: how often the lock was taken on a look that was out of date
  \* the connection of each process
  port,       \* stream_tcp_: "null", "ok", "down", or "failed" when it never was up
  rich,       \* stream_tcp_rich_report_, likewise
  plain,      \* stream_tcp_report_, when it is another
  thread,     \* where the thread of the rich reports is
  fails,      \* its connect_fail_count
  thread2,    \* where that of the plain reports is
  protocol,   \* 3 where the firmware takes a heartbeat, else 2
  starts, breaks

lock    == <<param, ip_locked, crashed, stale>>
streams == <<port, rich, plain>>
threads == <<thread, fails, thread2>>
bounds  == <<protocol, starts, breaks>>
vars    == <<lock, pc, streams, threads, bounds>>

Goto(c, step) == pc' = [pc EXCEPT ![c] = step]

Drives(c) == pc[c] \in {"connect", "init", "running"}

-----------------------------------------------------------------------------
(* XArmHW::init and the lock. *)

Launch(c) ==
  /\ pc[c] = "off" /\ starts < MaxStarts /\ starts' = starts + 1
  /\ Goto(c, "has")
  /\ ip_locked' = [ip_locked EXCEPT ![c] = FALSE]
  /\ UNCHANGED <<param, crashed, stale, streams, threads, protocol, breaks>>

HasParam(c) ==
  /\ pc[c] = "has"
  /\ Goto(c, IF param = "unset" THEN "test" ELSE "get")
  /\ UNCHANGED <<lock, streams, threads, bounds>>

GetParam(c) ==
  /\ pc[c] = "get"
  /\ ip_locked' = [ip_locked EXCEPT ![c] = param = "true"]
  /\ Goto(c, "test")
  /\ UNCHANGED <<param, crashed, stale, streams, threads, bounds>>

\* Mutant: the parameter is not looked at.
Anyway(c) == FALSE

LeaveAlone == UNCHANGED param

Refused(c) == ip_locked[c]

\* init returns false and main leaves by exit(-1), which runs no destructor.
Refuse(c) ==
  /\ pc[c] = "test" /\ Refused(c)
  /\ Goto(c, "off")
  /\ LeaveAlone
  /\ UNCHANGED <<ip_locked, crashed, stale, streams, threads, bounds>>

\* The lock has been taken by another since c found it free.
OutOfDate(c) == ~ip_locked[c] /\ param = "true"

SetParam(c) ==
  /\ pc[c] = "test" /\ ~Refused(c)
  /\ param' = "true"
  /\ stale' = stale + (IF OutOfDate(c) THEN 1 ELSE 0)
  /\ Goto(c, "connect")
  /\ UNCHANGED <<ip_locked, crashed, streams, threads, bounds>>

-----------------------------------------------------------------------------
(* XArmAPI::connect, whose result the driver ignores: no thread starts when a stream *)
(* of reports does not come up at once. *)

Connect(c) ==
  /\ pc[c] = "connect" /\ Goto(c, "init")
  /\ \/ port' = [port EXCEPT ![c] = "failed"] /\ UNCHANGED <<rich, plain, threads>>
     \/ port' = [port EXCEPT ![c] = "ok"] /\ UNCHANGED <<rich, plain, threads>>
     \/ /\ port' = [port EXCEPT ![c] = "ok"]
        /\ rich' = [rich EXCEPT ![c] = "ok"]
        /\ thread' = [thread EXCEPT ![c] = "top"]
        /\ UNCHANGED fails
        /\ \/ UNCHANGED <<plain, thread2>>
           \/ /\ ReportType # "rich"
              /\ plain' = [plain EXCEPT ![c] = "ok"]
              /\ thread2' = [thread2 EXCEPT ![c] = "top"]
  /\ UNCHANGED <<lock, bounds>>

\* The driver's first requests have been answered, or not, and the robot description is
\* found.  Without a port there is no core to ask, and the process crashes.
InitDone(c) ==
  /\ pc[c] = "init" /\ port[c] # "failed"
  /\ Goto(c, "running")
  /\ UNCHANGED <<lock, streams, threads, bounds>>

\* disconnect
Disconnect(c) ==
  /\ port' = [port EXCEPT ![c] = "null"]
  /\ rich' = [rich EXCEPT ![c] = "null"]
  /\ plain' = [plain EXCEPT ![c] = "null"]

-----------------------------------------------------------------------------
(* _handle_report_rich_data.  A thread whose stream another has taken away by *)
(* disconnect reads by a null pointer: the process ends then, which Crash allows. *)

ToStep(c, step) == thread' = [thread EXCEPT ![c] = step]

RichTop(c) ==
  /\ thread[c] = "top"
  /\ ToStep(c, CASE port[c] # "ok" -> "over"
                 [] port[c] = "ok" /\ rich[c] # "ok" -> "connect"
                 [] OTHER -> "read")
  /\ UNCHANGED <<lock, pc, streams, fails, thread2, bounds>>

\* Mutant: tries again for as long as the port is up.
WhileConnected(c) == port[c] # "ok"

GivesUp(c) == port[c] # "ok" \/ (protocol = 2 /\ fails[c] >= MaxReconnects)

RichConnect(c) ==
  /\ thread[c] = "connect"
  /\ \/ rich' = [rich EXCEPT ![c] = "ok"]
        /\ fails' = [fails EXCEPT ![c] = 0]
        /\ ToStep(c, "read")
     \/ rich' = [rich EXCEPT ![c] = "null"]
        /\ fails' = [fails EXCEPT ![c] = IF @ < MaxReconnects THEN @ + 1 ELSE @]
        /\ ToStep(c, IF GivesUp(c) THEN "over" ELSE "top")
  /\ UNCHANGED <<lock, pc, port, plain, thread2, bounds>>

RichRead(c) ==
  /\ thread[c] = "read" /\ rich[c] # "null"
  /\ fails' = [fails EXCEPT ![c] = 0]
  /\ ToStep(c, "top")
  /\ UNCHANGED <<lock, pc, streams, thread2, bounds>>

RichOver(c) ==
  /\ thread[c] = "over"
  /\ Disconnect(c)
  /\ ToStep(c, "quit")
  /\ UNCHANGED <<lock, pc, fails, thread2, bounds>>

\* 90 seconds without an answer to a heartbeat.
HeartStops(c) ==
  /\ thread[c] = "top" /\ port[c] = "ok" /\ protocol = 3
  /\ ToStep(c, "over")
  /\ UNCHANGED <<lock, pc, streams, fails, thread2, bounds>>

RichThread(c) ==
  RichTop(c) \/ HeartStops(c) \/ RichConnect(c) \/ RichRead(c) \/ RichOver(c)

-----------------------------------------------------------------------------
(* _handle_report_data, which never gives up. *)

ToStep2(c, step) == thread2' = [thread2 EXCEPT ![c] = step]

PlainTop(c) ==
  /\ thread2[c] = "top"
  /\ ToStep2(c, CASE port[c] # "ok" -> "quit"
                  [] port[c] = "ok" /\ plain[c] # "ok" -> "connect"
                  [] OTHER -> "read")
  /\ UNCHANGED <<lock, pc, streams, thread, fails, bounds>>

PlainConnect(c) ==
  /\ thread2[c] = "connect"
  /\ \/ plain' = [plain EXCEPT ![c] = "ok"] /\ ToStep2(c, "read")
     \/ plain' = [plain EXCEPT ![c] = "null"] /\ ToStep2(c, "top")
  /\ UNCHANGED <<lock, pc, port, rich, thread, fails, bounds>>

PlainRead(c) ==
  /\ thread2[c] = "read" /\ plain[c] # "null"
  /\ ToStep2(c, "top")
  /\ UNCHANGED <<lock, pc, streams, thread, fails, bounds>>

PlainThread(c) == PlainTop(c) \/ PlainConnect(c) \/ PlainRead(c)

-----------------------------------------------------------------------------
(* Ends. *)

\* Any of the streams breaks.
Break(c) ==
  /\ breaks < MaxBreaks /\ breaks' = breaks + 1
  /\ \/ port[c] = "ok" /\ port' = [port EXCEPT ![c] = "down"] /\ UNCHANGED <<rich, plain>>
     \/ rich[c] = "ok" /\ rich' = [rich EXCEPT ![c] = "down"] /\ UNCHANGED <<port, plain>>
     \/ plain[c] = "ok" /\ plain' = [plain EXCEPT ![c] = "down"] /\ UNCHANGED <<port, rich>>
  /\ UNCHANGED <<lock, pc, threads, protocol, starts>>

\* With the process go its streams and threads.
Vanish(c) ==
  /\ Goto(c, "off")
  /\ Disconnect(c)
  /\ thread' = [thread EXCEPT ![c] = "none"] /\ fails' = [fails EXCEPT ![c] = 0]
  /\ thread2' = [thread2 EXCEPT ![c] = "none"]

\* Mutant: the destructor leaves the parameter.
KeepLock == UNCHANGED param

Unlock == param' = "false"

\* ros::ok() turns false and main returns.  The destructor of XArmHW gives the lock back;
\* that of its member XArmDriver comes after it and sets the mode of the arm once more.
Finish(c) ==
  /\ pc[c] = "running"
  /\ Unlock
  /\ Goto(c, "parting")
  /\ UNCHANGED <<ip_locked, crashed, stale, streams, threads, bounds>>

Part(c) ==
  /\ pc[c] = "parting"
  /\ Vanish(c)
  /\ UNCHANGED <<lock, bounds>>

\* No robot description and exit(-1), a lost connection and exit(1), or a signal.
Crash(c) ==
  /\ Drives(c)
  /\ Vanish(c)
  /\ crashed' = TRUE
  /\ UNCHANGED <<param, ip_locked, stale, bounds>>

\* XArmHW::read sees the lost connection in its next pass.
ReadExits(c) == pc[c] = "running" /\ port[c] # "ok" /\ Crash(c)

-----------------------------------------------------------------------------
Init ==
  /\ param = "unset" /\ crashed = FALSE /\ stale = 0
  /\ pc = [c \in Controllers |-> "off"]
  /\ ip_locked = [c \in Controllers |-> FALSE]
  /\ port = [c \in Controllers |-> "null"]
  /\ rich = [c \in Controllers |-> "null"] /\ plain = [c \in Controllers |-> "null"]
  /\ thread = [c \in Controllers |-> "none"] /\ thread2 = [c \in Controllers |-> "none"]
  /\ fails = [c \in Controllers |-> 0]
  /\ protocol \in {2, 3}
  /\ starts = 0 /\ breaks = 0

Next == \E c \in Controllers :
  \/ Launch(c) \/ HasParam(c) \/ GetParam(c) \/ Refuse(c) \/ SetParam(c)
  \/ Connect(c) \/ InitDone(c) \/ RichThread(c) \/ PlainThread(c) \/ Break(c)
  \/ Finish(c) \/ Part(c) \/ Crash(c)

Spec == Init /\ [][Next]_vars

\* The threads are scheduled, init ends and the loop goes round; ROS may be up for ever.
FairSpec ==
  /\ Spec
  /\ \A c \in Controllers :
       /\ WF_vars(RichThread(c)) /\ WF_vars(PlainThread(c))
       /\ WF_vars(InitDone(c)) /\ WF_vars(ReadExits(c))

-----------------------------------------------------------------------------
\* "The same robotic arm can only be controlled by one controller.": of all that start,
\* crash and end, at any time, no more than one drives the arm, and it holds the lock, but
\* for those that took the lock when the look by which they had found it free was out of
\* date.  Each of these may add one driver for good, whoever ends and starts after it.
OneController ==
  Cardinality({c \in Controllers : Drives(c)}) <= stale + (IF param = "true" THEN 1 ELSE 0)

\* When nobody drives the arm and no process has crashed, the next start is let in.
LockIsFreed == ~crashed /\ (\A c \in Controllers : ~Drives(c)) => param # "true"

\* Without the heartbeat, a controller that has lost its rich reports gets them back or
\* comes to its end.
ReportsOrEnd ==
  \A c \in Controllers :
    protocol = 2 /\ thread[c] # "none" /\ rich[c] # "ok" ~> rich[c] = "ok" \/ ~Drives(c)
=============================================================================
