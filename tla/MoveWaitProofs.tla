---------------------------- MODULE MoveWaitProofs ----------------------------
(***************************************************************************)
(* Proofs about MoveWait, for every number of threads and every            *)
(* interleaving of reports, feedback, stops and faults: a move that waited *)
(* and returned 0 has been carried out, on firmware that sends feedback    *)
(* and, if a stopped arm is not started again behind its back, on the      *)
(* others; set_servo_angle and its like return what became of their        *)
(* request; and the variables have their types.                            *)
(***************************************************************************)
EXTENDS MoveWait, SequenceTheorems, FiniteSetTheorems, TLAPS

Domains ==
  /\ DOMAIN pc = Callers /\ DOMAIN ret = Callers
  /\ DOMAIN wait = Callers /\ DOMAIN trans_id = Callers

\* A result is there, or under way, only for a move that is done.
ResultsAreDone ==
  /\ results \subseteq finished
  /\ feedback \in Seq(finished)

IInv == Domains /\ ResultsAreDone /\ WaitedMoveIsDone

\* The function g is f but for c.
OnlyAt(f, g, c) == DOMAIN g = Callers /\ \A d \in Callers \ {c} : g[d] = f[d]

-----------------------------------------------------------------------------
(* Steps of one thread, by what they do to its locals. *)

LEMMA ExceptOnlyAt ==
  ASSUME NEW f, DOMAIN f = Callers, NEW c \in Callers, NEW v
  PROVE  OnlyAt(f, [f EXCEPT ![c] = v], c) /\ [f EXCEPT ![c] = v][c] = v
  BY DEF OnlyAt

LEMMA SameOnlyAt ==
  ASSUME NEW f, DOMAIN f = Callers, NEW c \in Callers PROVE OnlyAt(f, f, c)
  BY DEF OnlyAt

LEMMA OneThread ==
  ASSUME IInv, NEW c \in Callers,
         OnlyAt(pc, pc', c), OnlyAt(ret, ret', c),
         OnlyAt(wait, wait', c), OnlyAt(trans_id, trans_id', c),
         ResultsAreDone', finished \subseteq finished',
         c \in Movers /\ pc'[c] = "idle" /\ wait'[c] /\ ret'[c] = "ok" =>
           trans_id'[c] \in finished'
  PROVE  IInv'
<1>1. Domains'
  BY DEF OnlyAt, Domains
<1>2. ASSUME NEW d \in Movers, pc'[d] = "idle" /\ wait'[d] /\ ret'[d] = "ok"
      PROVE  trans_id'[d] \in finished'
  <2>1. CASE d = c
    BY <2>1, <1>2
  <2>2. CASE d # c
    <3>1. d \in Callers \ {c}
      BY <2>2 DEF Callers
    <3>2. pc[d] = "idle" /\ wait[d] /\ ret[d] = "ok" /\ trans_id'[d] = trans_id[d]
      BY <1>2, <3>1, Zenon DEF OnlyAt
    <3> QED
      BY <3>2 DEF IInv, WaitedMoveIsDone
  <2> QED
    BY <2>1, <2>2
<1>3. WaitedMoveIsDone'
  BY <1>2, Zenon DEF WaitedMoveIsDone
<1> QED
  BY <1>1, <1>3 DEF IInv

\* A thread that goes on with its move, or with another request.
LEMMA GoesOn ==
  ASSUME IInv, NEW c \in Callers, NEW p, p # "idle" \/ c \notin Movers,
         pc' = [pc EXCEPT ![c] = p],
         UNCHANGED <<ret, wait, trans_id, finished, feedback, results>>
  PROVE  IInv'
<1>1. Domains /\ ResultsAreDone
  BY DEF IInv
<1>2. OnlyAt(pc, pc', c) /\ pc'[c] = p
  BY <1>1, ExceptOnlyAt DEF Domains
<1>3. OnlyAt(ret, ret', c) /\ OnlyAt(wait, wait', c) /\ OnlyAt(trans_id, trans_id', c)
  BY <1>1, SameOnlyAt DEF Domains
<1>4. ResultsAreDone' /\ finished \subseteq finished'
  BY <1>1 DEF ResultsAreDone
<1> QED
  BY <1>2, <1>3, <1>4, OneThread

\* A thread that returns a code other than 0.
LEMMA Fails ==
  ASSUME IInv, NEW c \in Callers, NEW code, code # "ok", Return(c, code),
         UNCHANGED <<wait, trans_id, finished, feedback>>, results' \subseteq results
  PROVE  IInv'
<1>1. Domains /\ ResultsAreDone
  BY DEF IInv
<1>2. OnlyAt(pc, pc', c)
  BY <1>1, ExceptOnlyAt DEF Domains, Return, Goto
<1>3. OnlyAt(ret, ret', c) /\ ret'[c] = code
  BY <1>1, ExceptOnlyAt DEF Domains, Return
<1>4. OnlyAt(wait, wait', c) /\ OnlyAt(trans_id, trans_id', c)
  BY <1>1, SameOnlyAt DEF Domains
<1>5. ResultsAreDone' /\ finished \subseteq finished'
  BY <1>1 DEF ResultsAreDone
<1> QED
  BY <1>2, <1>3, <1>4, <1>5, OneThread

-----------------------------------------------------------------------------
LEMMA InvInit == Init => IInv
<1> SUFFICES ASSUME Init PROVE IInv
  OBVIOUS
<1>1. Domains
  BY DEF Init, Domains
<1>2. results \subseteq finished /\ feedback \in Seq(finished)
  BY EmptySeq DEF Init
<1>3. \A c \in Callers : ~wait[c]
  BY DEF Init
<1> QED
  BY <1>1, <1>2, <1>3 DEF IInv, ResultsAreDone, WaitedMoveIsDone, Callers

(* Steps that leave the threads where they are, or let none return. *)

LEMMA Elsewhere ==
  ASSUME IInv, ResultsAreDone', finished \subseteq finished',
         UNCHANGED <<pc, wait, ret, trans_id>>
  PROVE  IInv'
  BY DEF IInv, Domains, WaitedMoveIsDone

LEMMA ArmNext == ASSUME IInv, Arm PROVE IInv'
<1>0. results \subseteq finished /\ feedback \in Seq(finished)
  BY DEF IInv, ResultsAreDone
<1>1. CASE ArmStarts
  BY <1>0, <1>1, Elsewhere DEF ArmStarts, ResultsAreDone, cached, maps, locals
<1>2. CASE ArmFinishes
  <2>1. finished \subseteq finished' /\ UNCHANGED <<pc, wait, ret, trans_id, results>>
    BY <1>2 DEF ArmFinishes, arm, cached, maps, locals, env, bounds, link, request
  <2>2. feedback \in Seq(finished')
    BY <1>0, <2>1, SeqMonotonic
  <2>3. feedback' \in Seq(finished')
    <3>1. CASE support_feedback
      BY <1>2, <3>1, <2>2 DEF ArmFinishes
    <3>2. CASE ~support_feedback
      BY <1>2, <3>2, <2>2 DEF ArmFinishes
    <3> QED
      BY <3>1, <3>2
  <2> QED
    BY <1>0, <2>1, <2>3, Elsewhere DEF ResultsAreDone
<1>3. CASE ArmFails
  BY <1>0, <1>3, Elsewhere DEF ArmFails, ResultsAreDone, arm, cached, maps, locals, env, bounds, link, request
<1>4. CASE ArmReports
  BY <1>0, <1>4, Elsewhere DEF ArmReports, ResultsAreDone, arm, cached, maps, locals, env, bounds, link, request
<1>5. CASE PortCloses
  BY <1>0, <1>5, EmptySeq, Elsewhere DEF PortCloses, ResultsAreDone, arm, cached, maps, locals, bounds
<1> QED
  BY <1>1, <1>2, <1>3, <1>4, <1>5 DEF Arm

LEMMA UpdateNext == ASSUME IInv, Update PROVE IInv'
<1>1. /\ pc' = [c \in Callers |->
                 IF pc[c] = "waiting" /\ report.state # PAUSED THEN "paused" ELSE pc[c]]
      /\ UNCHANGED <<finished, feedback, results, wait, ret, trans_id>>
  BY DEF Update, NotifyAll, arm, cached, maps, locals, env, bounds, link, request
<1>2. DOMAIN pc' = Callers
  BY <1>1
<1>3. \A c \in Callers : pc'[c] = "idle" => pc[c] = "idle"
  BY <1>1
<1> QED
  BY <1>1, <1>2, <1>3, Zenon
     DEF IInv, Domains, ResultsAreDone, WaitedMoveIsDone, Callers

LEMMA FeedbackNext == ASSUME IInv, FeedbackCallback PROVE IInv'
<1>0. results \subseteq finished /\ feedback \in Seq(finished)
  BY DEF IInv, ResultsAreDone
<1>1. Head(feedback) \in finished /\ feedback' \in Seq(finished)
  BY <1>0 DEF FeedbackCallback
<1>2. results' \subseteq finished
  BY <1>0, <1>1 DEF FeedbackCallback
<1> QED
  BY <1>1, <1>2, Elsewhere DEF FeedbackCallback, ResultsAreDone, arm, cached, maps, locals, env, bounds, link, request

-----------------------------------------------------------------------------
(* The steps of a move, of which only PollFeedback and PollState return 0 to a move that *)
(* waited.                                                                               *)

LEMMA MoveNext ==
  ASSUME IInv, NEW c \in Movers, Call(c) \/ MoveStep(c), PollState(c) => IInv' PROVE IInv'
<1>0. c \in Callers /\ Domains /\ ResultsAreDone
  BY DEF Callers, IInv
<1>1. CASE Call(c)
  <2>1. PICK w \in WaitParamValues : wait' = [wait EXCEPT ![c] = w]
    BY <1>1 DEF Call
  <2>2. OnlyAt(wait, wait', c)
    BY <1>0, <2>1, ExceptOnlyAt DEF Domains
  <2>3. OnlyAt(trans_id, trans_id', c)
    BY <1>0, <1>1, ExceptOnlyAt DEF Call, Domains
  <2>4. OnlyAt(pc, pc', c) /\ pc'[c] = "enter"
    BY <1>0, <1>1, ExceptOnlyAt DEF Call, Goto, Domains
  <2>5. OnlyAt(ret, ret', c)
    BY <1>0, <1>1, SameOnlyAt DEF Call, Domains
  <2>6. ResultsAreDone' /\ finished \subseteq finished'
    BY <1>0, <1>1 DEF Call, ResultsAreDone, arm, maps
  <2> QED
    BY <1>0, <2>2, <2>3, <2>4, <2>5, <2>6, OneThread
<1>2. CASE CheckPause(c)
  <2>1. PICK p : p # "idle" /\ Goto(c, p)
    BY <1>2 DEF CheckPause
  <2> QED
    BY <1>0, <1>2, <2>1, GoesOn DEF CheckPause, Goto, arm, cached, maps, locals, env, bounds, link, request
<1>3. CASE CondWait(c)
  <2>1. PICK p : p # "idle" /\ Goto(c, p)
    BY <1>3 DEF CondWait
  <2> QED
    BY <1>0, <1>3, <2>1, GoesOn DEF CondWait, Goto, arm, cached, maps, locals, env, bounds, link, request
<1>4. CASE CmdnumLtMax(c)
  <2>0. UNCHANGED <<ret, wait, trans_id, finished, feedback, results>>
    BY <1>4 DEF CmdnumLtMax, arm, cached, maps, locals, env, bounds, link, request
  <2>1. CASE Goto(c, "ready?")
    BY <1>0, <2>0, <2>1, GoesOn DEF Goto
  <2>2. CASE UNCHANGED pc
    BY <1>0, <2>0, <2>2, Elsewhere DEF ResultsAreDone
  <2> QED
    BY <1>4, <2>1, <2>2 DEF CmdnumLtMax
<1>5. CASE IsReady(c)
  <2>0. UNCHANGED <<wait, trans_id, finished, feedback, results>>
    BY <1>5 DEF IsReady, arm, cached, maps, locals, env, bounds, link, request
  <2>1. \/ Return(c, "HAS_ERROR") \/ Return(c, "NOT_READY") \/ Return(c, "NOT_CONNECTED")
        \/ Goto(c, "send") /\ UNCHANGED ret
    BY <1>5 DEF IsReady
  <2>2. CASE Return(c, "HAS_ERROR")
    BY <1>0, <2>0, <2>2, Fails
  <2>3. CASE Return(c, "NOT_READY")
    BY <1>0, <2>0, <2>3, Fails
  <2>4. CASE Goto(c, "send") /\ UNCHANGED ret
    BY <1>0, <2>0, <2>4, GoesOn DEF Goto
  <2>5. CASE Return(c, "NOT_CONNECTED")
    BY <1>0, <2>0, <2>5, Fails
  <2> QED
    BY <2>1, <2>2, <2>3, <2>4, <2>5
<1>6. CASE Send(c)
  <2>1. OnlyAt(pc, pc', c) /\ pc'[c] = "sent"
    BY <1>0, <1>6, ExceptOnlyAt DEF Send, Goto, Domains
  <2>2. OnlyAt(trans_id, trans_id', c)
    BY <1>0, <1>6, ExceptOnlyAt DEF Send, Domains
  <2>3. OnlyAt(ret, ret', c)
    BY <1>0, <1>6, SameOnlyAt DEF Send, Domains
  <2>4. OnlyAt(wait, wait', c)
    BY <1>0, <1>6, SameOnlyAt DEF Send, Domains
  <2>5. finished' = finished /\ feedback' = feedback
    BY <1>6 DEF Send
  <2>6. results' \subseteq results
    BY <1>6 DEF Send, Register, maps
  <2> QED
    BY <1>0, <2>1, <2>2, <2>3, <2>4, <2>5, <2>6, OneThread DEF ResultsAreDone
<1>7. CASE Answered(c)
  <2>0. UNCHANGED <<wait, trans_id, finished, feedback, results>>
    BY <1>7 DEF Answered, arm, maps, locals
  <2>1. OnlyAt(ret, ret', c) /\ ret'[c] = CheckCode(c)
    BY <1>0, <1>7, ExceptOnlyAt DEF Answered, Domains
  <2>2. OnlyAt(wait, wait', c) /\ OnlyAt(trans_id, trans_id', c) /\ wait'[c] = wait[c]
    BY <1>0, <2>0, SameOnlyAt DEF Domains
  <2>3. /\ OnlyAt(pc, pc', c)
        /\ pc'[c] = IF wait[c] /\ CheckCode(c) = "ok" THEN "begin" ELSE "idle"
    BY <1>0, <1>7, ExceptOnlyAt DEF Answered, Goto, Domains
  <2>4. ~(pc'[c] = "idle" /\ wait'[c] /\ ret'[c] = "ok")
    BY <2>1, <2>2, <2>3
  <2>5. ResultsAreDone' /\ finished \subseteq finished'
    BY <1>0, <2>0 DEF ResultsAreDone
  <2> QED
    BY <1>0, <2>1, <2>2, <2>3, <2>4, <2>5, OneThread
<1>8. CASE WaitBegins(c)
  <2>1. UNCHANGED <<ret, wait, trans_id, finished, feedback, results>>
    BY <1>8 DEF WaitBegins, arm, cached, maps, locals, env, bounds, link, request
  <2> QED
    BY <1>0, <1>8, <2>1, GoesOn DEF WaitBegins, Goto
<1>9. CASE PollError(c)
  <2>1. results' \subseteq results
    BY <1>9 DEF PollError, Clear
  <2> QED
    BY <1>0, <1>9, <2>1, Fails DEF PollError, arm, cached, maps, locals, env, bounds, link, request
<1>10. CASE PollLost(c)
  <2>1. results' \subseteq results
    BY <1>10 DEF PollLost, maps
  <2> QED
    BY <1>0, <1>10, <2>1, Fails DEF PollLost, arm, cached, maps, locals, env, bounds, link, request
<1>11. CASE PollStopped(c)
  <2>1. results' \subseteq results
    BY <1>11 DEF PollStopped, Clear
  <2> QED
    BY <1>0, <1>11, <2>1, Fails DEF PollStopped, arm, cached, maps, locals, env, bounds, link, request
<1>12. CASE PollFeedback(c)
  <2>0. UNCHANGED <<wait, trans_id, finished, feedback>>
    BY <1>12 DEF PollFeedback, arm, cached, maps, locals, env, bounds, link, request
  <2>1. CASE HasResult(c)
    <3>1. Return(c, "ok") /\ results' \subseteq results
      BY <1>12, <2>1 DEF PollFeedback
    <3>2. OnlyAt(pc, pc', c) /\ OnlyAt(ret, ret', c)
      BY <1>0, <3>1, ExceptOnlyAt DEF Return, Goto, Domains
    <3>3. OnlyAt(wait, wait', c) /\ OnlyAt(trans_id, trans_id', c)
      BY <1>0, <2>0, SameOnlyAt DEF Domains
    <3>4. trans_id'[c] \in finished' /\ ResultsAreDone' /\ finished \subseteq finished'
      BY <1>0, <2>0, <2>1, <3>1 DEF HasResult, ResultsAreDone
    <3> QED
      BY <1>0, <3>2, <3>3, <3>4, OneThread
  <2>2. CASE ~HasResult(c)
    BY <1>0, <1>12, <2>0, <2>2, Elsewhere DEF PollFeedback, ResultsAreDone
  <2> QED
    BY <2>1, <2>2
<1>13. CASE PollState(c)
  BY <1>13
<1>14. CASE PollClosed(c)
  <2>1. results' \subseteq results
    BY <1>14 DEF PollClosed, Clear
  <2> QED
    BY <1>0, <1>14, <2>1, Fails DEF PollClosed, arm, cached, maps, locals, env, bounds
<1> QED
  BY <1>1, <1>2, <1>3, <1>4, <1>5, <1>6, <1>7, <1>8, <1>9, <1>10, <1>11, <1>12, <1>13, <1>14
     DEF MoveStep

LEMMA OperatorNext ==
  ASSUME IInv, NEW c \in Operators,
         (\E op \in Ops \cup {"start"} : SetState(c, op)) \/ OperatorStep(c)
  PROVE IInv'
<1>0. c \in Callers /\ c \notin Movers
  BY MoveWaitAssumption DEF Callers
<1>1. /\ \E p : pc' = [pc EXCEPT ![c] = p]
      /\ UNCHANGED <<ret, wait, trans_id, finished, feedback, results>>
  BY DEF OperatorStep, SetState, AskState, SetReady, ArmObeys, Goto, arm, cached, maps, locals, env, bounds, link, request
<1> QED
  BY <1>0, <1>1, GoesOn

LEMMA ReportNext == ASSUME IInv, ReportThread PROVE IInv'
<1>1. CASE Disconnect
  <2>1. UNCHANGED <<pc, wait, ret, trans_id, finished, feedback, results>>
    BY <1>1 DEF Disconnect, arm, maps, locals
  <2> QED
    BY <2>1, Elsewhere DEF IInv, ResultsAreDone
<1> QED
  BY <1>1, UpdateNext DEF ReportThread

\* The firmware stays what it is.
LEMMA SameFirmware == [Next]_vars => firmware' = firmware
<1> SUFFICES ASSUME [Next]_vars PROVE firmware' = firmware
  OBVIOUS
<1> USE DEF env, link
<1>1. CASE Arm
  BY <1>1 DEF Arm, ArmStarts, ArmFinishes, ArmFails, ArmReports, PortCloses
<1>2. CASE ReportThread \/ FeedbackCallback
  BY <1>2 DEF ReportThread, Update, Disconnect, FeedbackCallback
<1>3. ASSUME NEW c \in Movers, Call(c) \/ MoveStep(c) PROVE firmware' = firmware
  BY <1>3 DEF Call, MoveStep, CheckPause, CondWait, CmdnumLtMax, IsReady, Send, Answered, WaitBegins,
              PollClosed, PollError, PollLost, PollStopped, PollFeedback, PollState
<1>4. ASSUME NEW c \in Operators, NEW op, SetState(c, op) \/ OperatorStep(c)
      PROVE  firmware' = firmware
  BY <1>4 DEF SetState, OperatorStep, AskState, SetReady
<1>5. CASE UNCHANGED vars
  BY <1>5 DEF vars
<1> QED
  BY <1>1, <1>2, <1>3, <1>4, <1>5 DEF Next, Resume

LEMMA IInvNext ==
  ASSUME IInv, [Next]_vars, \A c \in Movers : PollState(c) => IInv' PROVE IInv'
<1>1. CASE UNCHANGED vars
  BY <1>1, Elsewhere DEF vars, IInv, ResultsAreDone, arm, maps, locals
<1>2. CASE Arm \/ ReportThread \/ FeedbackCallback
  BY <1>2, ArmNext, ReportNext, FeedbackNext
<1>3. CASE \E c \in Movers : Call(c) \/ MoveStep(c)
  BY <1>3, MoveNext
<1>4. CASE \E c \in Operators :
             (\E op \in Ops \cup {"start"} : SetState(c, op)) \/ OperatorStep(c)
  BY <1>4, OperatorNext
<1> QED
  BY <1>1, <1>2, <1>3, <1>4 DEF Next, Resume

\* Where the arm sends feedback, a move that waited and returned 0 has been carried out.
THEOREM WaitedMoves == ASSUME Firmwares = {"new"} PROVE Spec => []WaitedMoveIsDone
<1> DEFINE Inv == support_feedback /\ IInv
<1>1. Init => Inv
  BY InvInit DEF Init, support_feedback
<1>2. Inv /\ [Next]_vars => Inv'
  <2> SUFFICES ASSUME support_feedback, IInv, [Next]_vars PROVE Inv'
    OBVIOUS
  <2>1. support_feedback'
    BY SameFirmware DEF support_feedback
  <2>2. \A c \in Movers : ~PollState(c)
    BY DEF PollState
  <2> QED
    BY <2>1, <2>2, IInvNext
<1>3. Inv => WaitedMoveIsDone
  BY DEF IInv
<1> QED
  BY <1>1, <1>2, <1>3, PTL DEF Spec

-----------------------------------------------------------------------------
(* Errors of the request.  Only a move whose answer has not been looked at, or one that *)
(* has returned it, has anything but 0 in answer. *)

Told(c) ==
  /\ command[c] = "joint"
  /\ answer[c] # "ok" => pc[c] = "sent" \/ (pc[c] = "idle" /\ ret[c] # "ok")

EInv ==
  /\ DOMAIN pc = Callers /\ DOMAIN ret = Callers
  /\ DOMAIN command = Callers /\ DOMAIN answer = Callers
  /\ \A c \in Movers : Told(c)

LEMMA OneTold ==
  ASSUME EInv, NEW c \in Callers,
         OnlyAt(pc, pc', c), OnlyAt(ret, ret', c),
         OnlyAt(command, command', c), OnlyAt(answer, answer', c),
         c \in Movers => Told(c)'
  PROVE  EInv'
<1>1. ASSUME NEW d \in Movers PROVE Told(d)'
  <2>1. CASE d = c
    BY <2>1, <1>1
  <2>2. CASE d # c
    <3>1. d \in Callers \ {c}
      BY <2>2 DEF Callers
    <3>2. pc'[d] = pc[d] /\ ret'[d] = ret[d] /\ command'[d] = command[d] /\ answer'[d] = answer[d]
      BY <3>1 DEF OnlyAt
    <3> QED
      BY <3>2 DEF EInv, Told
  <2> QED
    BY <2>1, <2>2
<1> QED
  BY <1>1, Zenon DEF EInv, OnlyAt

\* A step of a thread that is past its request, or is not about a move.
LEMMA Past ==
  ASSUME EInv, NEW c \in Callers, c \in Movers => pc[c] \notin {"idle", "sent"},
         OnlyAt(pc, pc', c), OnlyAt(ret, ret', c), UNCHANGED <<command, answer>>
  PROVE  EInv'
<1>1. OnlyAt(command, command', c) /\ OnlyAt(answer, answer', c)
  BY SameOnlyAt DEF EInv
<1>2. c \in Movers => Told(c)'
  BY DEF EInv, Told
<1> QED
  BY <1>1, <1>2, OneTold

LEMMA PastGoto ==
  ASSUME EInv, NEW c \in Callers, c \in Movers => pc[c] \notin {"idle", "sent"},
         NEW p, Goto(c, p), UNCHANGED <<ret, command, answer>>
  PROVE  EInv'
<1>1. OnlyAt(pc, pc', c) /\ OnlyAt(ret, ret', c)
  BY ExceptOnlyAt, SameOnlyAt DEF EInv, Goto
<1> QED
  BY <1>1, Past

LEMMA PastReturn ==
  ASSUME EInv, NEW c \in Callers, c \in Movers => pc[c] \notin {"idle", "sent"},
         NEW code, Return(c, code), UNCHANGED <<command, answer>>
  PROVE  EInv'
<1>1. OnlyAt(pc, pc', c) /\ OnlyAt(ret, ret', c)
  BY ExceptOnlyAt DEF EInv, Goto, Return
<1> QED
  BY <1>1, Past

LEMMA Quiet == ASSUME EInv, UNCHANGED <<pc, ret, command, answer>> PROVE EInv'
  BY DEF EInv, Told

LEMMA EInvMove ==
  ASSUME Commands = {"joint"}, EInv, NEW c \in Movers, Call(c) \/ MoveStep(c) PROVE EInv'
<1>0. c \in Callers
  BY DEF Callers
<1>1. CASE Call(c)
  <2>1. /\ OnlyAt(pc, pc', c) /\ OnlyAt(answer, answer', c) /\ answer'[c] = "ok"
        /\ OnlyAt(ret, ret', c)
    BY <1>0, <1>1, ExceptOnlyAt, SameOnlyAt DEF Call, Goto, EInv
  <2>2. command' = [command EXCEPT ![c] = "joint"]
    BY <1>1 DEF Call
  <2>3. OnlyAt(command, command', c) /\ command'[c] = "joint"
    BY <1>0, <2>2, ExceptOnlyAt DEF EInv
  <2> QED
    BY <1>0, <2>1, <2>3, OneTold DEF Told
<1>2. CASE Send(c)
  <2>1. PICK code : answer' = [answer EXCEPT ![c] = code]
    BY <1>2, Zenon DEF Send
  <2>2. OnlyAt(answer, answer', c)
    BY <1>0, <2>1, ExceptOnlyAt DEF EInv
  <2>3. OnlyAt(pc, pc', c) /\ pc'[c] = "sent"
    BY <1>0, <1>2, ExceptOnlyAt DEF Send, Goto, EInv
  <2>4. OnlyAt(ret, ret', c) /\ OnlyAt(command, command', c) /\ command' = command
    BY <1>0, <1>2, SameOnlyAt DEF Send, EInv
  <2> QED
    BY <1>0, <2>2, <2>3, <2>4, OneTold DEF Told, EInv
<1>3. CASE Answered(c)
  <2>1. UNCHANGED <<command, answer>>
    BY <1>3 DEF Answered, env, request
  <2>2. OnlyAt(ret, ret', c) /\ ret'[c] = CheckCode(c)
    BY <1>0, <1>3, ExceptOnlyAt DEF Answered, EInv
  <2>3. /\ OnlyAt(pc, pc', c)
        /\ pc'[c] = IF wait[c] /\ CheckCode(c) = "ok" THEN "begin" ELSE "idle"
    BY <1>0, <1>3, ExceptOnlyAt DEF Answered, Goto, EInv
  <2>4. OnlyAt(command, command', c) /\ OnlyAt(answer, answer', c)
    BY <1>0, <2>1, SameOnlyAt DEF EInv
  <2>5. answer[c] # "ok" => CheckCode(c) # "ok"
    BY DEF CheckCode, Returned, EInv, Told
  <2>6. Told(c)'
    BY <2>1, <2>2, <2>3, <2>5 DEF Told, EInv
  <2> QED
    BY <1>0, <2>2, <2>3, <2>4, <2>6, OneTold
<1>4. CASE CheckPause(c) \/ CondWait(c) \/ WaitBegins(c)
  <2>1. (\E p : Goto(c, p)) /\ UNCHANGED <<ret, command, answer>>
    BY <1>4 DEF CheckPause, CondWait, WaitBegins, env, request
  <2>2. pc[c] \in {"enter", "paused", "begin"}
    BY <1>4 DEF CheckPause, CondWait, WaitBegins
  <2> QED
    BY <1>0, <2>1, <2>2, PastGoto
<1>5. CASE CmdnumLtMax(c)
  <2>1. Goto(c, "ready?") \/ UNCHANGED pc
    BY <1>5 DEF CmdnumLtMax
  <2>2. pc[c] = "room" /\ UNCHANGED <<ret, command, answer>>
    BY <1>5 DEF CmdnumLtMax, request
  <2> QED
    BY <1>0, <2>1, <2>2, PastGoto, Quiet
<1>6. CASE IsReady(c)
  <2>1. \/ \E code : Return(c, code)
        \/ Goto(c, "send") /\ UNCHANGED ret
    BY <1>6 DEF IsReady
  <2>2. pc[c] = "ready?" /\ UNCHANGED <<command, answer>>
    BY <1>6 DEF IsReady, env, request
  <2> QED
    BY <1>0, <2>1, <2>2, PastGoto, PastReturn
<1>7. CASE PollClosed(c) \/ PollError(c) \/ PollLost(c) \/ PollStopped(c)
  <2>1. (\E code : Return(c, code)) /\ UNCHANGED <<command, answer>>
    BY <1>7 DEF PollClosed, PollError, PollLost, PollStopped, env, request
  <2>2. pc[c] = "poll"
    BY <1>7 DEF PollClosed, PollError, PollLost, PollStopped
  <2> QED
    BY <1>0, <2>1, <2>2, PastReturn
<1>8. CASE PollFeedback(c) \/ PollState(c)
  <2>1. Return(c, "ok") \/ UNCHANGED <<pc, ret>>
    BY <1>8 DEF PollFeedback, PollState
  <2>2. pc[c] = "poll" /\ UNCHANGED <<command, answer>>
    BY <1>8 DEF PollFeedback, PollState, request
  <2> QED
    BY <1>0, <2>1, <2>2, PastReturn, Quiet
<1> QED
  BY <1>1, <1>2, <1>3, <1>4, <1>5, <1>6, <1>7, <1>8 DEF MoveStep

\* What set_servo_angle and its like return tells of every request that came to nothing,
\* whoever else changes state_is_ready in between.
THEOREM ErrorsReported == ASSUME Commands = {"joint"} PROVE Spec => []ErrorsAreReported
<1>1. Init => EInv
  BY DEF Init, EInv, Told, Callers
<1>2. EInv /\ [Next]_vars => EInv'
  <2> SUFFICES ASSUME EInv, [Next]_vars PROVE EInv'
    OBVIOUS
  <2>1. CASE UNCHANGED vars
    BY <2>1, Quiet DEF vars, env, request
  <2>2. CASE Arm \/ Disconnect \/ FeedbackCallback
    BY <2>2, Quiet DEF Arm, ArmStarts, ArmFinishes, ArmFails, ArmReports, PortCloses, Disconnect,
                       FeedbackCallback, env, request
  <2>3. CASE Update
    <3>1. /\ pc' = [c \in Callers |->
                      IF pc[c] = "waiting" /\ report.state # PAUSED THEN "paused" ELSE pc[c]]
          /\ UNCHANGED <<ret, command, answer>>
      BY <2>3 DEF Update, NotifyAll, env, request
    <3> QED
      BY <3>1, Zenon DEF EInv, Told, Callers
  <2>4. CASE \E c \in Movers : Call(c) \/ MoveStep(c)
    BY <2>4, EInvMove
  <2>5. ASSUME NEW c \in Operators, NEW op, SetState(c, op) \/ OperatorStep(c) PROVE EInv'
    <3>1. c \in Callers /\ c \notin Movers
      BY MoveWaitAssumption DEF Callers
    <3>2. (\E p : Goto(c, p)) /\ UNCHANGED <<ret, command, answer>>
      BY <2>5 DEF SetState, OperatorStep, AskState, SetReady, env, request
    <3> QED
      BY <3>1, <3>2, PastGoto
  <2> QED
    BY <2>1, <2>2, <2>3, <2>4, <2>5 DEF Next, ReportThread, Resume
<1>3. EInv => ErrorsAreReported
  BY DEF EInv, Told, ErrorsAreReported
<1> QED
  BY <1>1, <1>2, <1>3, PTL DEF Spec

-----------------------------------------------------------------------------
(* The types.  The numbers of the moves stay within the bound because a move that is called *)
(* and has not been sent yet has a number left for it.                                      *)

EarlySteps == {"enter", "paused", "waiting", "room", "ready?", "send"}
Early == {c \in Movers : pc[c] \in EarlySteps}

Answers == {"ok", "ERR_CODE", "ERR_TOUT", "ERR_NOTTCP"}
Reports == [state : 1..4, err : BOOLEAN, cmdnum : 0..MaxMoves]

ArmTyped ==
  /\ armState \in 1..4 /\ armErr \in BOOLEAN
  /\ armQueue \in Seq(1..MaxMoves) /\ (armState = RUNNING => armQueue # <<>>)
  /\ finished \subseteq 1..MaxMoves /\ feedback \in Seq(finished)
  /\ report = <<>> \/ report \in Reports

CacheTyped ==
  /\ state \in 0..4 /\ error_code \in BOOLEAN /\ cmd_num \in 0..MaxMoves
  /\ is_ready \in BOOLEAN /\ state_is_ready \in BOOLEAN
  /\ port \in {"open", "lost", "closed"} /\ firmware \in Firmwares

MapsTyped == expected \subseteq 1..MaxMoves /\ results \subseteq finished

ThreadsTyped ==
  /\ pc \in [Callers -> MoveSteps \cup {"idle", "ask", "set ready"}]
  /\ ret \in [Callers -> Codes] /\ answer \in [Callers -> Answers]

Numbered ==
  /\ moves \in 0..MaxMoves /\ next_id \in Nat
  /\ IsFiniteSet(Early) /\ Cardinality(Early) + next_id <= moves + 1
  /\ Len(armQueue) < next_id

TInv == ArmTyped /\ CacheTyped /\ MapsTyped /\ ThreadsTyped /\ Numbered

\* What becomes of the moves that have not been sent, by the step of one thread.
LEMMA Enters ==
  ASSUME NEW c \in Movers, DOMAIN pc = Callers, pc[c] = "idle", Goto(c, "enter"),
         IsFiniteSet(Early)
  PROVE  IsFiniteSet(Early') /\ Cardinality(Early') = Cardinality(Early) + 1
<1>1. c \in Callers /\ c \notin Early
  BY DEF Callers, Early, EarlySteps
<1>2. OnlyAt(pc, pc', c) /\ pc'[c] = "enter"
  BY <1>1, ExceptOnlyAt DEF Goto
<1>3. \A d \in Movers : d \in Early' <=> d \in Early \/ d = c
  <2> TAKE d \in Movers
  <2>1. d = c \/ pc'[d] = pc[d]
    BY <1>2 DEF OnlyAt, Callers
  <2> QED
    BY <1>2, <2>1 DEF Early, EarlySteps
<1>4. Early' = Early \cup {c}
  BY <1>3 DEF Early
<1> QED
  BY <1>1, <1>4, FS_AddElement

LEMMA Leaves ==
  ASSUME NEW c \in Callers, DOMAIN pc = Callers, NEW p, p \notin EarlySteps, Goto(c, p),
         IsFiniteSet(Early)
  PROVE  /\ IsFiniteSet(Early') /\ Cardinality(Early') <= Cardinality(Early)
         /\ c \in Early => Cardinality(Early') = Cardinality(Early) - 1
<1>1. OnlyAt(pc, pc', c) /\ pc'[c] = p
  BY ExceptOnlyAt DEF Goto
<1>2. \A d \in Movers : d \in Early' <=> d \in Early /\ d # c
  <2> TAKE d \in Movers
  <2>1. d = c \/ pc'[d] = pc[d]
    BY <1>1 DEF OnlyAt, Callers
  <2> QED
    BY <1>1, <2>1 DEF Early
<1>3. Early' = Early \ {c}
  BY <1>2 DEF Early
<1>4. Cardinality(Early) \in Nat
  BY FS_CardinalityType
<1>5. /\ IsFiniteSet(Early \ {c})
      /\ Cardinality(Early \ {c}) =
           IF c \in Early THEN Cardinality(Early) - 1 ELSE Cardinality(Early)
  BY FS_RemoveElement
<1> QED
  BY <1>3, <1>4, <1>5

LEMMA StaysEarly ==
  ASSUME NEW c \in Callers, DOMAIN pc = Callers, NEW p, Goto(c, p),
         c \in Movers => (p \in EarlySteps <=> pc[c] \in EarlySteps)
  PROVE  Early' = Early
<1>1. OnlyAt(pc, pc', c) /\ pc'[c] = p
  BY ExceptOnlyAt DEF Goto
<1>2. \A d \in Movers : d \in Early' <=> d \in Early
  <2> TAKE d \in Movers
  <2>1. d = c \/ pc'[d] = pc[d]
    BY <1>1 DEF OnlyAt, Callers
  <2> QED
    BY <1>1, <2>1 DEF Early
<1> QED
  BY <1>2 DEF Early

\* The steps of a thread but for a call and Send keep the numbers.
LEMMA NumbersKept ==
  ASSUME Numbered, UNCHANGED <<moves, next_id>>, Len(armQueue') <= Len(armQueue),
         Len(armQueue) \in Nat, Len(armQueue') \in Nat,
         IsFiniteSet(Early'), Cardinality(Early') <= Cardinality(Early)
  PROVE  Numbered'
<1>1. Cardinality(Early) \in Nat /\ Cardinality(Early') \in Nat
  BY FS_CardinalityType DEF Numbered
<1> QED
  BY <1>1 DEF Numbered

\* The threads, by the step of one.
Steps == MoveSteps \cup {"idle", "ask", "set ready"}

LEMMA GotoTyped ==
  ASSUME ThreadsTyped, NEW c \in Callers, NEW p \in Steps, Goto(c, p),
         UNCHANGED <<ret, answer>>
  PROVE  ThreadsTyped'
  BY DEF ThreadsTyped, Goto, Steps

LEMMA ReturnTyped ==
  ASSUME ThreadsTyped, NEW c \in Callers, NEW code \in Codes, Return(c, code),
         UNCHANGED answer
  PROVE  ThreadsTyped'
  BY DEF ThreadsTyped, Return, Goto

\* A thread that returns or goes on past Send, or is not there yet.
LEMMA PastNumbers ==
  ASSUME TInv, NEW c \in Callers, NEW p, Goto(c, p),
         p \notin EarlySteps \/ (c \in Movers => pc[c] \in EarlySteps),
         UNCHANGED <<moves, next_id>>, armQueue' = armQueue \/ armQueue' = <<>>
  PROVE  Numbered'
<1>1. DOMAIN pc = Callers /\ Numbered /\ Len(armQueue) \in Nat
  BY LenProperties DEF TInv, ThreadsTyped, ArmTyped
<1>2. Len(<<>>) = 0
  OBVIOUS
<1>3. Len(armQueue') \in Nat /\ Len(armQueue') <= Len(armQueue)
  BY <1>1, <1>2
<1>4. IsFiniteSet(Early) /\ Cardinality(Early) \in Nat
  BY <1>1, FS_CardinalityType DEF Numbered
<1>5. IsFiniteSet(Early') /\ Cardinality(Early') <= Cardinality(Early)
  <2>1. CASE p \notin EarlySteps
    BY <1>1, <1>4, <2>1, Leaves
  <2>2. CASE p \in EarlySteps
    BY <1>1, <1>4, <2>2, StaysEarly
  <2> QED
    BY <2>1, <2>2
<1> QED
  BY <1>1, <1>3, <1>5, NumbersKept

LEMMA SameNumbers ==
  ASSUME TInv, UNCHANGED <<pc, moves, next_id>>,
         armQueue' = armQueue \/ armQueue' = <<>> \/ (armQueue # <<>> /\ armQueue' = Tail(armQueue))
  PROVE  Numbered'
<1>1. Numbered /\ armQueue \in Seq(1..MaxMoves)
  BY DEF TInv, ArmTyped
<1>2. Len(armQueue) \in Nat /\ Len(armQueue') \in Nat /\ Len(armQueue') <= Len(armQueue)
  BY <1>1
<1>3. Early' = Early
  BY DEF Early
<1>4. IsFiniteSet(Early) /\ Cardinality(Early) \in Nat
  BY <1>1, FS_CardinalityType DEF Numbered
<1> QED
  BY <1>1, <1>2, <1>3, <1>4, NumbersKept

LEMMA TInvInit == Init => TInv
<1> SUFFICES ASSUME Init PROVE TInv
  OBVIOUS
<1>0. armErr \in BOOLEAN /\ error_code \in BOOLEAN /\ is_ready \in BOOLEAN
      /\ state_is_ready \in BOOLEAN
  BY Zenon DEF Init
<1>1. ArmTyped
  <2>1. armQueue \in Seq(1..MaxMoves) /\ feedback \in Seq(finished)
    BY EmptySeq DEF Init
  <2>2. finished \subseteq 1..MaxMoves /\ report = <<>>
    BY DEF Init
  <2>3. armState \in 1..4 /\ armState # RUNNING
    BY DEF Init, READY, RUNNING
  <2> QED
    BY <1>0, <2>1, <2>2, <2>3, Zenon DEF ArmTyped
<1>2. CacheTyped /\ MapsTyped
  <2>1. cmd_num \in 0..MaxMoves
    BY MoveWaitAssumption DEF Init
  <2>2. MapsTyped
    BY DEF Init, MapsTyped
  <2>3. state \in 0..4
    BY DEF Init, READY
  <2>4. port \in {"open", "lost", "closed"} /\ firmware \in Firmwares
    BY DEF Init
  <2> QED
    BY <1>0, <2>1, <2>2, <2>3, <2>4, Zenon DEF CacheTyped
<1>3. ThreadsTyped
  BY DEF Init, ThreadsTyped, Codes, Answers
<1>4. Early = {}
  BY DEF Init, Early, EarlySteps, Callers
<1>5. Numbered
  <2>1. IsFiniteSet(Early) /\ Cardinality(Early) = 0
    BY <1>4, FS_EmptySet
  <2>2. Len(armQueue) = 0
    BY DEF Init
  <2> QED
    BY <2>1, <2>2, MoveWaitAssumption DEF Init, Numbered
<1> QED
  BY <1>1, <1>2, <1>3, <1>5 DEF TInv

-----------------------------------------------------------------------------
(* The parts of the invariant, by what a step does to them. *)

LEMMA ArmKept == ASSUME ArmTyped, UNCHANGED <<arm, report, feedback>> PROVE ArmTyped'
  BY DEF ArmTyped, arm

LEMMA CacheKept == ASSUME CacheTyped, UNCHANGED <<cached, state_is_ready, link>> PROVE CacheTyped'
  BY DEF CacheTyped, cached, link

LEMMA MapsKept == ASSUME MapsTyped, UNCHANGED maps, finished \subseteq finished' PROVE MapsTyped'
  BY DEF MapsTyped, maps

LEMMA ResultsFewer ==
  ASSUME MapsTyped, UNCHANGED <<expected, finished>>, results' \subseteq results
  PROVE  MapsTyped'
  BY DEF MapsTyped

LEMMA ThreadsKept == ASSUME ThreadsTyped, UNCHANGED <<pc, ret, answer>> PROVE ThreadsTyped'
  BY DEF ThreadsTyped

\* What an answer of the arm does to what is known of it.
LEMMA CacheAnswered ==
  ASSUME CacheTyped, state' \in 0..4,
         (\E s : StateBit(s)) \/ UNCHANGED state_is_ready,
         is_ready' \in BOOLEAN, cmd_num' \in 0..MaxMoves, UNCHANGED <<error_code, link>>
  PROVE  CacheTyped'
<1>1. state_is_ready' \in BOOLEAN
  BY Zenon DEF StateBit, CacheTyped
<1>2. error_code' \in BOOLEAN
  BY Zenon DEF CacheTyped
<1>3. port' = port /\ firmware' = firmware
  BY DEF link
<1> QED
  BY <1>1, <1>2, <1>3, Zenon DEF CacheTyped

LEMMA CacheAsked ==
  ASSUME CacheTyped, ArmTyped, GetState, UNCHANGED <<is_ready, error_code, cmd_num, link>>
  PROVE  CacheTyped'
<1>1. state' \in 0..4
  BY DEF GetState, ArmTyped
<1>2. \E s : StateBit(s)
  BY Zenon DEF GetState
<1>3. is_ready' \in BOOLEAN /\ cmd_num' \in 0..MaxMoves
  BY Zenon DEF CacheTyped
<1> QED
  BY <1>1, <1>2, <1>3, CacheAnswered

\* The buffer of the arm never has more moves than have been called.
LEMMA QueueBound == ASSUME TInv PROVE Len(armQueue) \in 0..MaxMoves
<1>1. Numbered /\ Len(armQueue) \in Nat
  BY LenProperties DEF TInv, ArmTyped
<1>2. Cardinality(Early) \in Nat
  BY <1>1, FS_CardinalityType DEF Numbered
<1> QED
  BY <1>1, <1>2, MoveWaitAssumption DEF Numbered

-----------------------------------------------------------------------------
LEMMA ArmTypes == ASSUME TInv, Arm PROVE TInv'
<1>0. ArmTyped /\ CacheTyped /\ MapsTyped /\ ThreadsTyped
  BY DEF TInv
<1>1. CASE ArmStarts
  <2>1. UNCHANGED <<cached, state_is_ready, link, maps, finished, pc, ret, answer, moves, next_id,
                    armQueue>>
    BY <1>1 DEF ArmStarts, request, bounds
  <2>2. ArmTyped'
    <3>1. /\ armState' = RUNNING /\ armQueue # <<>>
          /\ UNCHANGED <<armErr, armQueue, finished, report, feedback>>
      BY <1>1 DEF ArmStarts
    <3>2. armState' \in 1..4
      BY <3>1 DEF RUNNING
    <3> QED
      BY <1>0, <3>1, <3>2 DEF ArmTyped
  <2> QED
    BY <1>0, <2>1, <2>2, CacheKept, MapsKept, ThreadsKept, SameNumbers DEF TInv
<1>2. CASE ArmFinishes
  <2>1. /\ UNCHANGED <<cached, state_is_ready, link, maps, pc, ret, answer, moves, next_id>>
        /\ UNCHANGED <<armErr, report>>
        /\ armQueue' = Tail(armQueue) /\ finished' = finished \cup {Head(armQueue)}
        /\ armState' = IF armQueue' = <<>> THEN READY ELSE RUNNING
        /\ feedback' = IF support_feedback THEN Append(feedback, Head(armQueue)) ELSE feedback
    BY <1>2 DEF ArmFinishes, env, request, bounds
  <2>2. armQueue # <<>> /\ Head(armQueue) \in 1..MaxMoves /\ armQueue' \in Seq(1..MaxMoves)
    <3>1. armState = RUNNING
      BY <1>2 DEF ArmFinishes
    <3>2. armQueue # <<>> /\ armQueue \in Seq(1..MaxMoves)
      BY <1>0, <3>1, Zenon DEF ArmTyped
    <3>3. Head(armQueue) \in 1..MaxMoves /\ Tail(armQueue) \in Seq(1..MaxMoves)
      BY <3>2, HeadTailProperties
    <3> QED
      BY <2>1, <3>2, <3>3
  <2>3. feedback' \in Seq(finished')
    <3>1. feedback \in Seq(finished') /\ Head(armQueue) \in finished'
      BY <1>0, <2>1, SeqMonotonic DEF ArmTyped
    <3> QED
      BY <2>1, <3>1
  <2>4. ArmTyped'
    <3>1. armState' \in 1..4 /\ (armState' = RUNNING => armQueue' # <<>>)
      BY <2>1 DEF READY, RUNNING
    <3>2. finished' \subseteq 1..MaxMoves
      BY <1>0, <2>1, <2>2 DEF ArmTyped
    <3> QED
      BY <1>0, <2>1, <2>2, <2>3, <3>1, <3>2, Zenon DEF ArmTyped
  <2>5. Numbered'
    BY <2>1, <2>2, SameNumbers
  <2>6. CacheTyped' /\ MapsTyped' /\ ThreadsTyped'
    BY <1>0, <2>1, CacheKept, MapsKept, ThreadsKept
  <2> QED
    BY <2>4, <2>5, <2>6 DEF TInv
<1>3. CASE ArmFails
  <2>1. /\ UNCHANGED <<cached, state_is_ready, link, maps, finished, pc, ret, answer, moves, next_id>>
        /\ UNCHANGED <<report, feedback>>
        /\ armErr' = TRUE /\ armState' = STOPPED /\ armQueue' = <<>>
    BY <1>3 DEF ArmFails, env, request, bounds
  <2>2. ArmTyped'
    <3>1. armState' \in 1..4 /\ armState' # RUNNING /\ armQueue' \in Seq(1..MaxMoves)
      BY <2>1, EmptySeq DEF STOPPED, RUNNING
    <3> QED
      BY <1>0, <2>1, <3>1, Zenon DEF ArmTyped
  <2> QED
    BY <1>0, <2>1, <2>2, CacheKept, MapsKept, ThreadsKept, SameNumbers DEF TInv
<1>4. CASE ArmReports
  <2>1. /\ UNCHANGED <<cached, state_is_ready, link, maps, finished, pc, ret, answer, moves, next_id>>
        /\ UNCHANGED <<armState, armErr, armQueue, feedback>>
        /\ report' = [state |-> armState, err |-> armErr, cmdnum |-> Len(armQueue)]
    BY <1>4 DEF ArmReports, env, request, bounds, arm
  <2>2. report' \in Reports
    BY <1>0, <2>1, QueueBound DEF ArmTyped, Reports
  <2>3. ArmTyped'
    BY <1>0, <2>1, <2>2 DEF ArmTyped
  <2> QED
    BY <1>0, <2>1, <2>3, CacheKept, MapsKept, ThreadsKept, SameNumbers DEF TInv
<1>5. CASE PortCloses
  <2>1. /\ UNCHANGED <<arm, report, cached, maps, pc, ret, answer, moves, next_id>>
        /\ UNCHANGED <<state_is_ready, firmware>> /\ port' = "lost" /\ feedback' = <<>>
    BY <1>5 DEF PortCloses, request, bounds
  <2>2. feedback' \in Seq(finished)
    BY <2>1, EmptySeq
  <2>3. ArmTyped'
    BY <1>0, <2>1, <2>2 DEF ArmTyped, arm
  <2>4. CacheTyped'
    BY <1>0, <2>1 DEF CacheTyped, cached
  <2> QED
    BY <1>0, <2>1, <2>3, <2>4, MapsKept, ThreadsKept, SameNumbers DEF TInv, arm
<1> QED
  BY <1>1, <1>2, <1>3, <1>4, <1>5 DEF Arm

LEMMA UpdateTypes == ASSUME TInv, Update PROVE TInv'
<1>0. ArmTyped /\ CacheTyped /\ MapsTyped /\ ThreadsTyped /\ Numbered
  BY DEF TInv
<1>1. /\ UNCHANGED <<arm, feedback, maps, ret, answer, moves, next_id, state_is_ready, link>>
      /\ report # <<>> /\ report' = <<>>
      /\ state' = report.state /\ error_code' = report.err /\ cmd_num' = report.cmdnum
      /\ is_ready' = ~Stopped(report.state)
      /\ pc' = [c \in Callers |->
                  IF pc[c] = "waiting" /\ report.state # PAUSED THEN "paused" ELSE pc[c]]
  BY DEF Update, UpdateReady, NotifyAll, env, request, bounds
<1>2. report \in Reports
  BY <1>0, <1>1 DEF ArmTyped
<1>3. ArmTyped'
  BY <1>0, <1>1 DEF ArmTyped, arm
<1>4. CacheTyped'
  <2>1. state' \in 0..4 /\ cmd_num' \in 0..MaxMoves
    BY <1>1, <1>2 DEF Reports
  <2>2. error_code' \in BOOLEAN
    BY <1>1, <1>2 DEF Reports
  <2>3. is_ready' \in BOOLEAN
    BY <1>1, Zenon
  <2> QED
    BY <1>0, <1>1, <2>1, <2>2, <2>3 DEF CacheTyped, link
<1>5. MapsTyped'
  BY <1>0, <1>1, MapsKept DEF arm
<1>6. ThreadsTyped'
  BY <1>0, <1>1 DEF ThreadsTyped, MoveSteps
<1>7. Early' = Early
  <2>1. \A c \in Movers : pc'[c] \in EarlySteps <=> pc[c] \in EarlySteps
    BY <1>1 DEF Callers, EarlySteps
  <2> QED
    BY <2>1, Zenon DEF Early
<1>8. Numbered'
  BY <1>0, <1>1, <1>7 DEF Numbered, arm
<1> QED
  BY <1>3, <1>4, <1>5, <1>6, <1>8 DEF TInv

LEMMA DisconnectTypes == ASSUME TInv, Disconnect PROVE TInv'
<1>0. ArmTyped /\ CacheTyped /\ MapsTyped /\ ThreadsTyped
  BY DEF TInv
<1>1. /\ UNCHANGED <<arm, feedback, maps, pc, ret, answer, moves, next_id>>
      /\ UNCHANGED <<state, error_code, cmd_num, state_is_ready, firmware>>
      /\ report' = <<>> /\ is_ready' = FALSE /\ port' = "closed"
  BY DEF Disconnect, request, bounds
<1>2. ArmTyped'
  BY <1>0, <1>1 DEF ArmTyped, arm
<1>3. CacheTyped'
  BY <1>0, <1>1 DEF CacheTyped
<1> QED
  BY <1>0, <1>1, <1>2, <1>3, MapsKept, ThreadsKept, SameNumbers DEF TInv, arm

LEMMA FeedbackTypes == ASSUME TInv, FeedbackCallback PROVE TInv'
<1>0. ArmTyped /\ CacheTyped /\ MapsTyped /\ ThreadsTyped
  BY DEF TInv
<1>1. /\ UNCHANGED <<arm, report, cached, state_is_ready, link, pc, ret, answer, moves, next_id>>
      /\ feedback # <<>> /\ feedback' = Tail(feedback)
      /\ expected' = expected \ {Head(feedback)}
      /\ results' = results \cup (expected \cap {Head(feedback)})
  BY DEF FeedbackCallback, env, request, bounds
<1>2. Head(feedback) \in finished /\ feedback' \in Seq(finished)
  BY <1>0, <1>1 DEF ArmTyped
<1>3. ArmTyped'
  BY <1>0, <1>1, <1>2 DEF ArmTyped, arm
<1>4. MapsTyped'
  BY <1>0, <1>1, <1>2 DEF MapsTyped, arm
<1> QED
  BY <1>0, <1>1, <1>3, <1>4, CacheKept, ThreadsKept, SameNumbers DEF TInv, arm

-----------------------------------------------------------------------------
\* A step of one thread that leaves the arm and the numbers alone.
LEMMA OneThreadTypes ==
  ASSUME TInv, NEW c \in Callers, UNCHANGED <<arm, report, feedback, moves, next_id, answer>>,
         CacheTyped', MapsTyped',
         \/ \E p \in Steps : /\ Goto(c, p) /\ UNCHANGED ret
                             /\ p \notin EarlySteps \/ (c \in Movers => pc[c] \in EarlySteps)
         \/ \E code \in Codes : Return(c, code)
         \/ UNCHANGED <<pc, ret>>
  PROVE  TInv'
<1>0. ArmTyped /\ CacheTyped /\ MapsTyped /\ ThreadsTyped /\ armQueue' = armQueue
  BY DEF TInv, arm
<1>1. ArmTyped'
  BY <1>0, ArmKept
<1>2. ASSUME NEW p \in Steps, Goto(c, p), UNCHANGED ret,
             p \notin EarlySteps \/ (c \in Movers => pc[c] \in EarlySteps)
      PROVE  ThreadsTyped' /\ Numbered'
  BY <1>0, <1>2, GotoTyped, PastNumbers
<1>3. ASSUME NEW code \in Codes, Return(c, code) PROVE ThreadsTyped' /\ Numbered'
  <2>1. Goto(c, "idle") /\ "idle" \notin EarlySteps
    BY <1>3 DEF Return, EarlySteps
  <2> QED
    BY <1>0, <1>3, <2>1, ReturnTyped, PastNumbers
<1>4. ASSUME UNCHANGED <<pc, ret>> PROVE ThreadsTyped' /\ Numbered'
  <2>1. ThreadsTyped'
    BY <1>0, <1>4, ThreadsKept
  <2>2. Numbered'
    BY <1>0, <1>4, SameNumbers
  <2> QED
    BY <2>1, <2>2
<1>5. ThreadsTyped' /\ Numbered'
  <2>1. CASE \E p \in Steps :
               /\ Goto(c, p) /\ UNCHANGED ret
               /\ p \notin EarlySteps \/ (c \in Movers => pc[c] \in EarlySteps)
    BY <2>1, <1>2, Zenon
  <2>2. CASE \E code \in Codes : Return(c, code)
    BY <2>2, <1>3, Zenon
  <2> QED
    BY <1>4, <2>1, <2>2, Zenon
<1> QED
  BY <1>1, <1>5 DEF TInv

LEMMA CallTypes == ASSUME TInv, NEW c \in Movers, Call(c) PROVE TInv'
<1>0. ArmTyped /\ CacheTyped /\ MapsTyped /\ ThreadsTyped /\ Numbered /\ c \in Callers
  BY DEF TInv, Callers
<1>1. /\ UNCHANGED <<arm, report, feedback, cached, state_is_ready, link, maps, ret, next_id>>
      /\ pc[c] = "idle" /\ Goto(c, "enter") /\ answer' = [answer EXCEPT ![c] = "ok"]
      /\ moves < MaxMoves /\ moves' = moves + 1
  BY DEF Call
<1>2. ArmTyped' /\ CacheTyped' /\ MapsTyped'
  BY <1>0, <1>1, ArmKept, CacheKept, MapsKept DEF arm
<1>3. ThreadsTyped'
  BY <1>0, <1>1 DEF ThreadsTyped, Goto, MoveSteps, Answers
<1>4. IsFiniteSet(Early') /\ Cardinality(Early') = Cardinality(Early) + 1
  BY <1>0, <1>1, Enters DEF ThreadsTyped, Numbered
<1>5. Cardinality(Early) \in Nat
  BY <1>0, FS_CardinalityType DEF Numbered
<1>6. Numbered'
  BY <1>0, <1>1, <1>4, <1>5, MoveWaitAssumption DEF Numbered, arm
<1> QED
  BY <1>2, <1>3, <1>6 DEF TInv

\* A move is sent under one of the numbers that the moves not sent yet have left.
LEMMA SendTypes == ASSUME TInv, NEW c \in Movers, Send(c) PROVE TInv'
<1> DEFINE accepts == connected /\ ~armErr /\ armState # STOPPED
<1>0. ArmTyped /\ CacheTyped /\ MapsTyped /\ ThreadsTyped /\ Numbered /\ c \in Callers
  BY DEF TInv, Callers
<1>1. /\ UNCHANGED <<armState, armErr, finished, report, feedback, cached, link, ret, moves>>
      /\ pc[c] = "send" /\ Goto(c, "sent")
      /\ next_id' = IF connected THEN next_id + 1 ELSE next_id
      /\ armQueue' = IF accepts THEN Append(armQueue, next_id) ELSE armQueue
  BY DEF Send
<1>2. c \in Early
  BY <1>1 DEF Early, EarlySteps
<1>3. /\ IsFiniteSet(Early') /\ Cardinality(Early') = Cardinality(Early) - 1
      /\ Cardinality(Early) \in Nat /\ Cardinality(Early') \in Nat
  <2>1. "sent" \notin EarlySteps
    BY DEF EarlySteps
  <2>2. IsFiniteSet(Early') /\ Cardinality(Early') = Cardinality(Early) - 1
    BY <1>0, <1>1, <1>2, <2>1, Leaves DEF ThreadsTyped, Numbered
  <2> QED
    BY <1>0, <2>2, FS_CardinalityType DEF Numbered
<1>4. armQueue \in Seq(1..MaxMoves) /\ Len(armQueue) \in Nat
  BY <1>0, LenProperties DEF ArmTyped
<1>5. next_id \in 1..MaxMoves
  BY <1>0, <1>3, <1>4, MoveWaitAssumption DEF Numbered
<1>6. ArmTyped'
  <2>1. armQueue' \in Seq(1..MaxMoves)
    <3>1. Append(armQueue, next_id) \in Seq(1..MaxMoves)
      BY <1>4, <1>5, AppendProperties
    <3> QED
      BY <1>1, <1>4, <3>1, Zenon
  <2>2. armQueue # <<>> => armQueue' # <<>>
    BY <1>1, <1>4, <1>5
  <2>3. armErr' \in BOOLEAN
    BY <1>0, <1>1, Zenon DEF ArmTyped
  <2> QED
    BY <1>0, <1>1, <2>1, <2>2, <2>3 DEF ArmTyped
<1>7. CacheTyped'
  <2>1. (\E s : StateBit(s)) \/ UNCHANGED state_is_ready
    BY Zenon DEF Send
  <2>2. state' \in 0..4
    BY <1>0, <1>1 DEF CacheTyped, cached
  <2>3. is_ready' \in BOOLEAN
    BY <1>0, <1>1, Zenon DEF CacheTyped, cached
  <2>4. cmd_num' \in 0..MaxMoves
    BY <1>0, <1>1 DEF CacheTyped, cached
  <2> QED
    BY <1>0, <1>1, <2>1, <2>2, <2>3, <2>4, CacheAnswered DEF cached
<1>8. MapsTyped'
  <2>1. Register(next_id) \/ UNCHANGED maps
    BY DEF Send
  <2> QED
    BY <1>0, <1>1, <1>5, <2>1 DEF MapsTyped, Register, maps
<1>9. ThreadsTyped'
  <2>1. \E code \in Answers : answer' = [answer EXCEPT ![c] = code]
    <3>1. /\ {"ok", "ERR_CODE", "ERR_TOUT", "ERR_NOTTCP"} = Answers
          /\ (IF armErr THEN "ERR_CODE" ELSE "ok") \in Answers
      BY DEF Answers
    <3> QED
      BY <3>1 DEF Send
  <2>2. answer' \in [Callers -> Answers]
    BY <1>0, <2>1 DEF ThreadsTyped
  <2> QED
    BY <1>0, <1>1, <2>2 DEF ThreadsTyped, Goto, MoveSteps
<1>10. Numbered'
  <2>1. CASE connected
    <3>1. Len(armQueue') \in Nat /\ Len(armQueue') <= Len(armQueue) + 1
      BY <1>1, <1>4, <1>5
    <3> QED
      BY <1>0, <1>1, <1>3, <1>4, <2>1, <3>1 DEF Numbered
  <2>2. CASE ~connected
    BY <1>0, <1>1, <1>3, <1>4, <2>2 DEF Numbered
  <2> QED
    BY <2>1, <2>2
<1> QED
  BY <1>6, <1>7, <1>8, <1>9, <1>10 DEF TInv

LEMMA ChecksTypes ==
  ASSUME TInv, NEW c \in Movers,
         CheckPause(c) \/ CondWait(c) \/ CmdnumLtMax(c) \/ IsReady(c) \/ Answered(c)
  PROVE  TInv'
<1>0. /\ ArmTyped /\ CacheTyped /\ MapsTyped /\ ThreadsTyped /\ c \in Callers
      /\ pc \in [Callers -> Steps]
  BY DEF TInv, Callers, ThreadsTyped, Steps
<1> DEFINE Quiet1 == UNCHANGED <<arm, report, feedback, moves, next_id, answer>>
<1>1. CASE CheckPause(c) \/ CondWait(c)
  <2>1. Quiet1 /\ UNCHANGED <<cached, state_is_ready, link, maps, ret>>
    BY <1>1 DEF CheckPause, CondWait, env, request, bounds
  <2>2. pc[c] \in EarlySteps
    BY <1>1 DEF CheckPause, CondWait, EarlySteps
  <2>3. \E p \in Steps : Goto(c, p)
    <3>1. {"paused", "waiting", "room"} \subseteq Steps
      BY DEF Steps, MoveSteps
    <3> QED
      BY <1>1, <3>1 DEF CheckPause, CondWait
  <2>4. CacheTyped' /\ MapsTyped'
    BY <1>0, <2>1, CacheKept, MapsKept DEF arm
  <2> QED
    BY <1>0, <2>1, <2>2, <2>3, <2>4, OneThreadTypes
<1>2. CASE CmdnumLtMax(c)
  <2>1. Quiet1 /\ UNCHANGED <<state, error_code, is_ready, link, maps, ret>>
    BY <1>2 DEF CmdnumLtMax, request, bounds
  <2>2. pc[c] \in EarlySteps
    BY <1>2 DEF CmdnumLtMax, EarlySteps
  <2>3. Goto(c, "ready?") \/ UNCHANGED pc
    BY <1>2 DEF CmdnumLtMax
  <2>4. (\E s : StateBit(s)) \/ UNCHANGED state_is_ready
    BY <1>2, Zenon DEF CmdnumLtMax
  <2>5. cmd_num' \in 0..MaxMoves
    <3>1. cmd_num' = cmd_num \/ cmd_num' = Len(armQueue)
      BY <1>2 DEF CmdnumLtMax
    <3> QED
      BY <1>0, <3>1, QueueBound DEF CacheTyped
  <2>6. is_ready' \in BOOLEAN /\ state' \in 0..4
    BY <1>0, <2>1, Zenon DEF CacheTyped
  <2>7. CacheTyped'
    BY <1>0, <2>1, <2>4, <2>5, <2>6, CacheAnswered
  <2>8. MapsTyped'
    BY <1>0, <2>1, MapsKept DEF arm
  <2>9. "ready?" \in Steps
    BY DEF Steps, MoveSteps
  <2> QED
    BY <1>0, <2>1, <2>2, <2>3, <2>7, <2>8, <2>9, OneThreadTypes
<1>3. CASE IsReady(c)
  <2>1. Quiet1 /\ UNCHANGED <<cached, state_is_ready, link, maps>>
    BY <1>3 DEF IsReady, env, request, bounds
  <2>2. pc[c] \in EarlySteps
    BY <1>3 DEF IsReady, EarlySteps
  <2>3. \/ \E code \in Codes : Return(c, code)
        \/ Goto(c, "send") /\ UNCHANGED ret
    <3>1. {"HAS_ERROR", "NOT_READY", "NOT_CONNECTED"} \subseteq Codes
      BY DEF Codes
    <3> QED
      BY <1>3, <3>1 DEF IsReady
  <2>4. CacheTyped' /\ MapsTyped'
    BY <1>0, <2>1, CacheKept, MapsKept DEF arm
  <2>5. "send" \in Steps
    BY DEF Steps, MoveSteps
  <2> QED
    BY <1>0, <2>1, <2>2, <2>3, <2>4, <2>5, OneThreadTypes
<1>4. CASE Answered(c)
  <2>1. UNCHANGED <<arm, report, feedback, moves, next_id, answer, cached, state_is_ready, link, maps>>
    BY <1>4 DEF Answered, env, request, bounds
  <2>2. CheckCode(c) \in Codes
    <3>1. Returned(c) \in Answers
      BY <1>0 DEF Returned, ThreadsTyped, Answers
    <3> QED
      BY <3>1 DEF CheckCode, Answers, Codes
  <2>3. \E p \in {"begin", "idle"} : Goto(c, p)
    BY <1>4 DEF Answered
  <2>4. ret' = [ret EXCEPT ![c] = CheckCode(c)]
    BY <1>4 DEF Answered
  <2>5. \A p \in {"begin", "idle"} : p \in Steps /\ p \notin EarlySteps
    BY DEF Steps, MoveSteps, EarlySteps
  <2>6. ArmTyped' /\ CacheTyped' /\ MapsTyped'
    BY <1>0, <2>1, ArmKept, CacheKept, MapsKept DEF arm
  <2>7. ThreadsTyped'
    BY <1>0, <2>1, <2>2, <2>3, <2>4, <2>5 DEF ThreadsTyped, Goto, Steps
  <2>8. Numbered'
    BY <1>0, <2>1, <2>3, <2>5, PastNumbers DEF arm
  <2> QED
    BY <2>6, <2>7, <2>8 DEF TInv
<1> QED
  BY <1>1, <1>2, <1>3, <1>4

LEMMA WaitTypes ==
  ASSUME TInv, NEW c \in Movers,
         \/ WaitBegins(c) \/ PollClosed(c) \/ PollError(c) \/ PollLost(c)
         \/ PollStopped(c) \/ PollFeedback(c) \/ PollState(c)
  PROVE  TInv'
<1>0. /\ ArmTyped /\ CacheTyped /\ MapsTyped /\ ThreadsTyped /\ c \in Callers
  BY DEF TInv, Callers
<1>1. UNCHANGED <<arm, report, feedback, moves, next_id, answer, error_code, cmd_num, is_ready, link>>
  BY DEF WaitBegins, PollClosed, PollError, PollLost, PollStopped, PollFeedback, PollState,
         env, request, bounds, cached
<1>2. GetState \/ UNCHANGED <<state, state_is_ready>>
  BY DEF WaitBegins, PollClosed, PollError, PollLost, PollStopped, PollFeedback, PollState,
         env, cached
<1>3. CacheTyped'
  <2>1. CASE GetState
    BY <1>0, <1>1, <2>1, CacheAsked
  <2>2. CASE UNCHANGED <<state, state_is_ready>>
    BY <1>0, <1>1, <2>2, CacheKept DEF cached
  <2> QED
    BY <1>2, <2>1, <2>2
<1>4. expected' = expected /\ results' \subseteq results
  BY DEF WaitBegins, PollClosed, PollError, PollLost, PollStopped, PollFeedback, PollState,
         Clear, maps
<1>5. MapsTyped'
  BY <1>0, <1>1, <1>4, ResultsFewer DEF arm
<1>6. \/ Goto(c, "poll") /\ UNCHANGED ret
      \/ \E code \in Codes : Return(c, code)
      \/ UNCHANGED <<pc, ret>>
  <2>1. {"NOT_CONNECTED", "HAS_ERROR", "ERR_TOUT", "EMERGENCY_STOP", "ok"} \subseteq Codes
    BY DEF Codes
  <2> QED
    BY <2>1 DEF WaitBegins, PollClosed, PollError, PollLost, PollStopped, PollFeedback, PollState
<1>7. "poll" \in Steps /\ "poll" \notin EarlySteps
  BY DEF Steps, MoveSteps, EarlySteps
<1> QED
  BY <1>0, <1>1, <1>3, <1>5, <1>6, <1>7, OneThreadTypes

LEMMA OperatorTypes ==
  ASSUME TInv, NEW c \in Operators, NEW op, SetState(c, op) \/ OperatorStep(c) PROVE TInv'
<1>0. /\ ArmTyped /\ CacheTyped /\ MapsTyped /\ ThreadsTyped /\ c \in Callers /\ c \notin Movers
  BY MoveWaitAssumption DEF TInv, Callers
<1>1. CASE SetState(c, op)
  <2>1. /\ UNCHANGED <<report, feedback, cached, link, maps, ret, answer, moves, next_id>>
        /\ ArmObeys(op) /\ StateBit(armState') /\ Goto(c, "ask")
    BY <1>1 DEF SetState, request
  <2>2. ArmTyped'
    <3>1. /\ finished' = finished /\ armErr' = (armErr /\ op # "clean")
          /\ armQueue' = IF op = "stop" THEN <<>> ELSE armQueue
      BY <2>1 DEF ArmObeys
    <3>2. armErr' \in BOOLEAN
      BY <3>1, Zenon
    <3>3. armState' \in 1..4 /\ (armState' = RUNNING => armQueue' # <<>>)
      BY <1>0, <2>1, <3>1 DEF ArmObeys, ArmTyped, RUNNING, READY, PAUSED, STOPPED
    <3>4. armQueue' \in Seq(1..MaxMoves)
      BY <1>0, <3>1, EmptySeq DEF ArmTyped
    <3> QED
      BY <1>0, <2>1, <3>1, <3>2, <3>3, <3>4, Zenon DEF ArmTyped
  <2>3. CacheTyped'
    <3>1. /\ state' \in 0..4 /\ cmd_num' \in 0..MaxMoves /\ is_ready' \in BOOLEAN
          /\ UNCHANGED error_code
      BY <1>0, <2>1, Zenon DEF CacheTyped, cached
    <3> QED
      BY <1>0, <2>1, <3>1, CacheAnswered
  <2>4. MapsTyped' /\ ThreadsTyped'
    <3>1. finished' = finished /\ "ask" \in Steps
      BY <2>1 DEF ArmObeys, Steps
    <3> QED
      BY <1>0, <2>1, <3>1, MapsKept, GotoTyped
  <2>5. Numbered'
    <3>1. armQueue' = armQueue \/ armQueue' = <<>>
      BY <2>1 DEF ArmObeys
    <3>2. "ask" \notin EarlySteps
      BY DEF EarlySteps
    <3> QED
      BY <1>0, <2>1, <3>1, <3>2, PastNumbers
  <2> QED
    BY <2>2, <2>3, <2>4, <2>5 DEF TInv
<1>2. CASE OperatorStep(c)
  <2>1. UNCHANGED <<arm, report, feedback, moves, next_id, answer, maps, ret, error_code, cmd_num, link>>
    BY <1>2 DEF OperatorStep, AskState, SetReady, env, request, bounds
  <2>2. \E p \in {"set ready", "idle"} : Goto(c, p)
    BY <1>2 DEF OperatorStep, AskState, SetReady
  <2>3. \A p \in {"set ready", "idle"} : p \in Steps /\ p \notin EarlySteps
    BY DEF Steps, EarlySteps
  <2>4. CacheTyped'
    <3>1. state' \in {state, armState, 0}
      BY <1>2 DEF OperatorStep, AskState, SetReady
    <3>2. (\E s : StateBit(s)) \/ UNCHANGED state_is_ready
      BY <1>2, Zenon DEF OperatorStep, AskState, SetReady, env
    <3>3. is_ready' = is_ready \/ is_ready' = ~Stopped(state)
      BY <1>2, Zenon DEF OperatorStep, AskState, SetReady
    <3>4. is_ready' \in BOOLEAN
      BY <1>0, <3>3, Zenon DEF CacheTyped
    <3>5. state' \in 0..4 /\ cmd_num' \in 0..MaxMoves
      BY <1>0, <2>1, <3>1 DEF ArmTyped, CacheTyped
    <3> QED
      BY <1>0, <2>1, <3>2, <3>4, <3>5, CacheAnswered
  <2>5. MapsTyped'
    BY <1>0, <2>1, MapsKept DEF arm
  <2> QED
    BY <1>0, <2>1, <2>2, <2>3, <2>4, <2>5, OneThreadTypes
<1> QED
  BY <1>1, <1>2

LEMMA TInvNext == ASSUME TInv, [Next]_vars PROVE TInv'
<1>1. CASE UNCHANGED vars
  <2>1. UNCHANGED <<arm, report, feedback, cached, state_is_ready, link, maps, pc, ret, answer,
                    moves, next_id>>
    BY <1>1 DEF vars, env, request, bounds
  <2>2. UNCHANGED <<armQueue, finished>>
    BY <2>1 DEF arm
  <2> QED
    BY <2>1, <2>2, ArmKept, CacheKept, MapsKept, ThreadsKept, SameNumbers DEF TInv
<1>2. CASE Arm \/ ReportThread \/ FeedbackCallback
  BY <1>2, ArmTypes, UpdateTypes, DisconnectTypes, FeedbackTypes DEF ReportThread
<1>3. ASSUME NEW c \in Movers, Call(c) \/ MoveStep(c) PROVE TInv'
  BY <1>3, CallTypes, SendTypes, ChecksTypes, WaitTypes DEF MoveStep
<1>4. ASSUME NEW c \in Operators, NEW op, SetState(c, op) \/ OperatorStep(c) PROVE TInv'
  BY <1>4, OperatorTypes
<1> QED
  BY <1>1, <1>2, <1>3, <1>4 DEF Next, Resume

\* Every variable of the model has its type, and the numbers that moves are sent under, with
\* what the arm says of its buffer, stay within the moves that were called: get_cmdnum never
\* reports more, whoever else sends, stops or fails in between.
THEOREM TypeCorrect == Spec => []TypeOK
<1>1. TInv => TypeOK
  <2> SUFFICES ASSUME TInv PROVE TypeOK
    OBVIOUS
  <2>1. feedback \in Seq(1..MaxMoves)
    BY SeqMonotonic DEF TInv, ArmTyped
  <2> QED
    BY <2>1, Zenon DEF TInv, ArmTyped, CacheTyped, MapsTyped, ThreadsTyped, TypeOK
<1>2. TInv /\ [Next]_vars => TInv'
  BY TInvNext
<1> QED
  BY <1>1, <1>2, TInvInit, PTL DEF Spec

-----------------------------------------------------------------------------
(* Without feedback a move that waits counts polls without motion.  Its move is done, in    *)
(* the buffer of the arm, or lost with the arm stopped; an arm that has it in the buffer    *)
(* and has not started is asked less often than the wait allows for.                        *)

Waiting(c) == wait[c] /\ pc[c] \in {"sent"} \cup WaitSteps

InBuffer(id) == \E i \in 1..Len(armQueue) : armQueue[i] = id

\* Where the move is that c waits for.
Accounted(c) ==
  Waiting(c) => \/ trans_id[c] \in finished \/ InBuffer(trans_id[c])
                \/ armState = STOPPED \/ ~connected

\* The polls that c has counted are answers the arm was late by.
Patient(c) ==
  Waiting(c) /\ pc[c] = "poll" /\ armState = READY /\ connected /\ trans_id[c] \notin finished =>
    max_cnt[c] = IdlePolls /\ cnt[c] <= lagging

Counts ==
  /\ lagging \in 0..StartLag
  /\ cnt \in [Callers -> Nat] /\ max_cnt \in [Callers -> Nat]
  /\ armErr => armState = STOPPED

WInv == Counts /\ \A c \in Movers : Accounted(c) /\ Patient(c)

\* A thread waits for what it waited for, with the count it had.
GoesOnWaiting(d) ==
  Waiting(d)' => /\ Waiting(d) /\ trans_id'[d] = trans_id[d]
                 /\ pc'[d] = "poll" =>
                      pc[d] = "poll" /\ cnt'[d] = cnt[d] /\ max_cnt'[d] = max_cnt[d]

LEMMA KeepsWaiting ==
  ASSUME WInv, Counts', NEW d \in Movers, GoesOnWaiting(d), lagging' >= lagging,
         UNCHANGED <<armState, armQueue, finished>>, connected' => connected
  PROVE  Accounted(d)' /\ Patient(d)'
<1>1. Accounted(d) /\ Patient(d) /\ d \in Callers
  BY DEF WInv, Callers
<1>2. InBuffer(trans_id[d]) /\ trans_id'[d] = trans_id[d] => InBuffer(trans_id[d])'
  BY DEF InBuffer
<1>3. Accounted(d)'
  <2> SUFFICES ASSUME Waiting(d)'
               PROVE  \/ trans_id'[d] \in finished' \/ InBuffer(trans_id[d])'
                      \/ armState' = STOPPED \/ ~connected'
    BY Zenon DEF Accounted
  <2>1. Waiting(d) /\ trans_id'[d] = trans_id[d]
    BY DEF GoesOnWaiting
  <2> QED
    BY <1>1, <1>2, <2>1 DEF Accounted
<1>4. Patient(d)'
  <2> SUFFICES ASSUME Waiting(d)', pc'[d] = "poll", armState' = READY, connected',
                      trans_id'[d] \notin finished'
               PROVE  max_cnt'[d] = IdlePolls /\ cnt'[d] <= lagging'
    BY Zenon DEF Patient
  <2>1. /\ Waiting(d) /\ trans_id'[d] = trans_id[d]
        /\ pc[d] = "poll" /\ cnt'[d] = cnt[d] /\ max_cnt'[d] = max_cnt[d]
    BY Zenon DEF GoesOnWaiting
  <2>2. max_cnt[d] = IdlePolls /\ cnt[d] <= lagging
    BY <1>1, <2>1, Zenon DEF Patient
  <2>3. cnt[d] \in Nat /\ lagging \in Nat /\ lagging' \in Nat
    BY <1>1 DEF WInv, Counts
  <2> QED
    BY <2>1, <2>2, <2>3
<1> QED
  BY <1>3, <1>4

\* The thread c waits no more, or is not at its polls yet; the others wait on.
LEMMA OneGoesOn ==
  ASSUME NEW c \in Callers, OnlyAt(pc, pc', c), UNCHANGED <<wait, trans_id>>,
         OnlyAt(cnt, cnt', c), OnlyAt(max_cnt, max_cnt', c),
         \/ c \notin Movers
         \/ pc'[c] \notin {"sent"} \cup WaitSteps
         \/ pc'[c] = "begin" /\ pc[c] = "sent"
         \/ pc'[c] = pc[c] /\ cnt'[c] = cnt[c] /\ max_cnt'[c] = max_cnt[c]
  PROVE  \A d \in Movers : GoesOnWaiting(d)
<1> SUFFICES ASSUME NEW d \in Movers PROVE GoesOnWaiting(d)
  OBVIOUS
<1>1. CASE d # c
  <2>1. pc'[d] = pc[d] /\ cnt'[d] = cnt[d] /\ max_cnt'[d] = max_cnt[d]
    BY <1>1 DEF OnlyAt, Callers
  <2> QED
    BY <2>1, Zenon DEF GoesOnWaiting, Waiting
<1>2. CASE d = c
  BY <1>2 DEF GoesOnWaiting, Waiting, WaitSteps
<1> QED
  BY <1>1, <1>2

\* The step of one thread, but for those below.
LEMMA KeepsCounts ==
  ASSUME WInv, UNCHANGED <<armState, armErr, armQueue, finished, port>>,
         cnt' \in [Callers -> Nat], max_cnt' \in [Callers -> Nat],
         lagging' \in 0..StartLag, lagging' >= lagging,
         \A d \in Movers : GoesOnWaiting(d)
  PROVE  WInv'
<1>1. Counts'
  <2>1. armErr' <=> armErr
    OBVIOUS
  <2>2. armErr' => armState' = STOPPED
    BY <2>1 DEF WInv, Counts
  <2> QED
    BY <2>2, Zenon DEF Counts
<1>2. connected' => connected
  BY DEF connected
<1> QED
  BY <1>1, <1>2, KeepsWaiting DEF WInv

LEMMA KeepsLagging ==
  ASSUME WInv, UNCHANGED lagging PROVE lagging' \in 0..StartLag /\ lagging' >= lagging
<1>1. lagging \in 0..StartLag
  BY DEF WInv, Counts
<1> QED
  BY <1>1, MoveWaitAssumption

LEMMA WInvInit == Init => WInv
<1> SUFFICES ASSUME Init PROVE WInv
  OBVIOUS
<1>1. Counts
  <2>1. lagging \in 0..StartLag /\ cnt \in [Callers -> Nat] /\ max_cnt \in [Callers -> Nat]
    BY MoveWaitAssumption DEF Init
  <2>2. ~armErr
    BY Zenon DEF Init
  <2> QED
    BY <2>1, <2>2, Zenon DEF Counts
<1>2. \A c \in Movers : ~Waiting(c)
  BY DEF Init, Waiting, Callers
<1> QED
  BY <1>1, <1>2, Zenon DEF WInv, Accounted, Patient

\* Threads that stay where they are.
LEMMA NobodyMoves ==
  ASSUME UNCHANGED <<pc, wait, trans_id, cnt, max_cnt>> PROVE \A d \in Movers : GoesOnWaiting(d)
  BY Zenon DEF GoesOnWaiting, Waiting

LEMMA ArmWaits == ASSUME TInv, WInv, Arm PROVE WInv'
<1>0. Counts /\ \A d \in Movers : Accounted(d) /\ Patient(d) /\ d \in Callers
  BY DEF WInv, Callers
<1>00. RUNNING # READY /\ STOPPED # READY /\ STOPPED # RUNNING
  BY DEF RUNNING, READY, STOPPED
<1>1. CASE ArmStarts
  <2>1. /\ UNCHANGED <<pc, wait, trans_id, cnt, max_cnt, armErr, armQueue, finished, port>>
        /\ armState = READY /\ armState' = RUNNING /\ lagging' = 0
    BY <1>1 DEF ArmStarts, locals, link
  <2>2. Counts'
    <3>1. ~armErr /\ (armErr' <=> armErr)
      BY <1>0, <1>00, <2>1, Zenon DEF Counts
    <3>2. 0 \in 0..StartLag
      BY MoveWaitAssumption
    <3> QED
      BY <1>0, <2>1, <3>1, <3>2, Zenon DEF Counts
  <2>3. ASSUME NEW d \in Movers PROVE Accounted(d)' /\ Patient(d)'
    <3>1. Waiting(d)' <=> Waiting(d)
      BY <2>1, Zenon DEF Waiting
    <3>2. Accounted(d)'
      BY <1>0, <1>00, <2>1, <3>1 DEF Accounted, InBuffer, connected
    <3>3. Patient(d)'
      BY <1>00, <2>1 DEF Patient
    <3> QED
      BY <3>2, <3>3
  <2> QED
    BY <2>2, <2>3 DEF WInv
<1>2. CASE ArmFinishes
  <2>1. /\ UNCHANGED <<pc, wait, trans_id, cnt, max_cnt, armErr, port, lagging>>
        /\ armState = RUNNING /\ armQueue' = Tail(armQueue)
        /\ armState' = IF armQueue' = <<>> THEN READY ELSE RUNNING
        /\ finished' = finished \cup {Head(armQueue)}
    BY <1>2 DEF ArmFinishes, locals, env, link
  <2>2. armQueue \in Seq(1..MaxMoves) /\ armQueue # <<>>
    <3>1. ArmTyped
      BY DEF TInv
    <3> QED
      BY <2>1, <3>1, Zenon DEF ArmTyped
  <2>3. Counts'
    <3>1. ~armErr /\ (armErr' <=> armErr)
      BY <1>0, <1>00, <2>1, Zenon DEF Counts
    <3> QED
      BY <1>0, <2>1, <3>1, Zenon DEF Counts
  <2>4. ASSUME NEW id, InBuffer(id) PROVE id \in finished' \/ InBuffer(id)'
    <3>1. PICK i \in 1..Len(armQueue) : armQueue[i] = id
      BY <2>4 DEF InBuffer
    <3>2. /\ Head(armQueue) = armQueue[1] /\ Len(armQueue) \in Nat
          /\ Len(Tail(armQueue)) = Len(armQueue) - 1
          /\ \A k \in 1..Len(Tail(armQueue)) : Tail(armQueue)[k] = armQueue[k + 1]
      BY <2>2, HeadTailProperties, LenProperties
    <3>3. CASE i = 1
      BY <2>1, <3>1, <3>2, <3>3
    <3>4. CASE i # 1
      <4>1. i - 1 \in 1..Len(Tail(armQueue)) /\ Tail(armQueue)[i - 1] = id
        BY <3>1, <3>2, <3>4
      <4> QED
        BY <2>1, <4>1 DEF InBuffer
    <3> QED
      BY <3>3, <3>4
  <2>5. ASSUME NEW d \in Movers PROVE Accounted(d)' /\ Patient(d)'
    <3>1. Waiting(d)' <=> Waiting(d)
      BY <2>1, Zenon DEF Waiting
    <3>2. Accounted(d)'
      BY <1>0, <1>00, <2>1, <2>4, <3>1 DEF Accounted, connected
    <3>3. armState' = READY => ~InBuffer(trans_id[d])'
      <4>1. Len(<<>>) = 0
        OBVIOUS
      <4>2. armState' = READY => armQueue' = <<>>
        BY <1>00, <2>1
      <4>3. armState' = READY => Len(armQueue') = 0
        BY <4>1, <4>2
      <4> QED
        BY <4>3 DEF InBuffer
    <3>4. Patient(d)'
      BY <1>00, <3>2, <3>3, Zenon DEF Accounted, Patient
    <3> QED
      BY <3>2, <3>4
  <2> QED
    BY <2>3, <2>5 DEF WInv
<1>3. CASE ArmFails
  <2>1. UNCHANGED <<cnt, max_cnt, lagging>> /\ armState' = STOPPED
    BY <1>3 DEF ArmFails, locals, env
  <2>2. Counts'
    BY <1>0, <2>1, Zenon DEF Counts
  <2>3. \A d \in Movers : Accounted(d)' /\ Patient(d)'
    BY <1>00, <2>1, Zenon DEF Accounted, Patient
  <2> QED
    BY <2>2, <2>3 DEF WInv
<1>4. CASE ArmReports
  <2>1. UNCHANGED <<pc, wait, trans_id, cnt, max_cnt, armState, armErr, armQueue, finished, port,
                    lagging>>
    BY <1>4 DEF ArmReports, arm, locals, env, link
  <2> QED
    BY <1>0, <2>1, NobodyMoves, KeepsLagging, KeepsCounts DEF Counts
<1>5. CASE PortCloses
  <2>1. UNCHANGED <<cnt, max_cnt, lagging, armState, armErr>> /\ port' = "lost"
    BY <1>5 DEF PortCloses, arm, locals
  <2>2. Counts'
    <3>1. armErr' <=> armErr
      BY <2>1
    <3> QED
      BY <1>0, <2>1, <3>1, Zenon DEF Counts
  <2>3. ~connected'
    BY <2>1 DEF connected
  <2>4. \A d \in Movers : Accounted(d)' /\ Patient(d)'
    BY <2>3, Zenon DEF Accounted, Patient
  <2> QED
    BY <2>2, <2>4 DEF WInv
<1> QED
  BY <1>1, <1>2, <1>3, <1>4, <1>5 DEF Arm

LEMMA ReportWaits == ASSUME WInv, ReportThread \/ FeedbackCallback PROVE WInv'
<1>0. cnt \in [Callers -> Nat] /\ max_cnt \in [Callers -> Nat]
  BY DEF WInv, Counts
<1>1. UNCHANGED <<wait, trans_id, cnt, max_cnt, armState, armErr, armQueue, finished, lagging>>
  BY DEF ReportThread, Update, Disconnect, FeedbackCallback, arm, locals, env
<1>2. CASE Update
  <2>1. /\ pc' = [c \in Callers |->
                    IF pc[c] = "waiting" /\ report.state # PAUSED THEN "paused" ELSE pc[c]]
        /\ port' = port
    BY <1>2 DEF Update, NotifyAll, env, link
  <2>2. \A d \in Movers : pc'[d] = pc[d] \/ pc'[d] = "paused"
    BY <2>1 DEF Callers
  <2>3. \A d \in Movers : GoesOnWaiting(d)
    BY <1>1, <2>2 DEF GoesOnWaiting, Waiting, WaitSteps
  <2> QED
    BY <1>0, <1>1, <2>1, <2>3, KeepsLagging, KeepsCounts
<1>3. CASE Disconnect
  <2>1. pc' = pc /\ port' = "closed"
    BY <1>3 DEF Disconnect
  <2>2. ~connected'
    BY <2>1 DEF connected
  <2>3. \A d \in Movers : Accounted(d)' /\ Patient(d)'
    BY <2>2, Zenon DEF Accounted, Patient
  <2>4. Counts'
    <3>1. armErr' <=> armErr
      BY <1>1
    <3> QED
      BY <1>1, <3>1, Zenon DEF WInv, Counts
  <2> QED
    BY <2>3, <2>4 DEF WInv
<1>4. CASE FeedbackCallback
  <2>1. UNCHANGED <<pc, port>>
    BY <1>4 DEF FeedbackCallback, env, link
  <2> QED
    BY <1>0, <1>1, <2>1, NobodyMoves, KeepsLagging, KeepsCounts
<1> QED
  BY <1>2, <1>3, <1>4 DEF ReportThread

\* The steps of a move up to its request, and what follows at once.
LEMMA ChecksWait ==
  ASSUME TInv, WInv, IInv, NEW c \in Movers,
         CheckPause(c) \/ CondWait(c) \/ CmdnumLtMax(c) \/ IsReady(c) \/ Answered(c)
  PROVE  WInv'
<1>0. /\ cnt \in [Callers -> Nat] /\ max_cnt \in [Callers -> Nat]
      /\ DOMAIN pc = Callers /\ c \in Callers
  BY DEF WInv, Counts, IInv, Domains, Callers
<1>1. UNCHANGED <<wait, trans_id, cnt, max_cnt, armState, armErr, armQueue, finished, lagging, port>>
  BY DEF CheckPause, CondWait, CmdnumLtMax, IsReady, Answered, arm, locals, env, link
<1>2. CASE UNCHANGED pc
  BY <1>0, <1>1, <1>2, NobodyMoves, KeepsLagging, KeepsCounts
<1>3. ASSUME NEW p, Goto(c, p),
             p \notin {"sent"} \cup WaitSteps \/ (p = "begin" /\ pc[c] = "sent")
      PROVE  WInv'
  <2>1. OnlyAt(pc, pc', c) /\ pc'[c] = p
    BY <1>0, <1>3, ExceptOnlyAt DEF Goto
  <2>2. OnlyAt(cnt, cnt', c) /\ OnlyAt(max_cnt, max_cnt', c)
    BY <1>0, <1>1, SameOnlyAt
  <2>3. \A d \in Movers : GoesOnWaiting(d)
    BY <1>0, <1>1, <1>3, <2>1, <2>2, OneGoesOn
  <2> QED
    BY <1>0, <1>1, <2>3, KeepsLagging, KeepsCounts
<1>4. \/ UNCHANGED pc
      \/ \E p \in {"paused", "waiting", "room", "ready?", "send", "idle"} : Goto(c, p)
      \/ Goto(c, "begin") /\ pc[c] = "sent"
  BY DEF CheckPause, CondWait, CmdnumLtMax, IsReady, Answered, Return
<1>5. \A p \in {"paused", "waiting", "room", "ready?", "send", "idle"} : p \notin {"sent"} \cup WaitSteps
  BY DEF WaitSteps
<1> QED
  BY <1>2, <1>3, <1>4, <1>5

LEMMA CallWaits == ASSUME WInv, IInv, NEW c \in Movers, Call(c) PROVE WInv'
<1>0. /\ cnt \in [Callers -> Nat] /\ max_cnt \in [Callers -> Nat]
      /\ DOMAIN pc = Callers /\ DOMAIN trans_id = Callers /\ DOMAIN wait = Callers /\ c \in Callers
  BY DEF WInv, Counts, IInv, Domains, Callers
<1>1. /\ UNCHANGED <<cnt, max_cnt, armState, armErr, armQueue, finished, lagging, port>>
      /\ Goto(c, "enter") /\ trans_id' = [trans_id EXCEPT ![c] = 0]
      /\ \E w \in WaitParamValues : wait' = [wait EXCEPT ![c] = w]
  BY DEF Call, arm, link
<1>2. OnlyAt(pc, pc', c) /\ pc'[c] = "enter"
  BY <1>0, <1>1, ExceptOnlyAt DEF Goto
<1>3. OnlyAt(trans_id, trans_id', c) /\ OnlyAt(wait, wait', c)
  <2>1. PICK w : wait' = [wait EXCEPT ![c] = w]
    BY <1>1
  <2> QED
    BY <1>0, <1>1, <2>1, ExceptOnlyAt
<1>4. ASSUME NEW d \in Movers PROVE GoesOnWaiting(d)
  <2>1. CASE d = c
    BY <1>2, <2>1 DEF GoesOnWaiting, Waiting, WaitSteps
  <2>2. CASE d # c
    <3>1. d \in Callers \ {c}
      BY <2>2 DEF Callers
    <3>2. pc'[d] = pc[d] /\ trans_id'[d] = trans_id[d] /\ wait'[d] = wait[d]
      BY <1>2, <1>3, <3>1, Zenon DEF OnlyAt
    <3> QED
      BY <1>1, <3>2, Zenon DEF GoesOnWaiting, Waiting
  <2> QED
    BY <2>1, <2>2
<1> QED
  BY <1>0, <1>1, <1>4, KeepsLagging, KeepsCounts

\* A request that the arm does not take finds it stopped, or the port closed.
LEMMA SendWaits == ASSUME TInv, WInv, IInv, NEW c \in Movers, Send(c) PROVE WInv'
<1> DEFINE accepts == connected /\ ~armErr /\ armState # STOPPED
<1>0. /\ Counts /\ cnt \in [Callers -> Nat] /\ max_cnt \in [Callers -> Nat] /\ c \in Callers
      /\ DOMAIN pc = Callers /\ DOMAIN trans_id = Callers
  BY DEF WInv, Counts, IInv, Domains, Callers
<1>1. /\ UNCHANGED <<wait, cnt, max_cnt, armState, finished, lagging, port>>
      /\ Goto(c, "sent") /\ trans_id' = [trans_id EXCEPT ![c] = next_id]
      /\ armQueue' = IF accepts THEN Append(armQueue, next_id) ELSE armQueue
  BY DEF Send, link
<1>2. OnlyAt(pc, pc', c) /\ pc'[c] = "sent"
  BY <1>0, <1>1, ExceptOnlyAt DEF Goto
<1>3. OnlyAt(trans_id, trans_id', c) /\ trans_id'[c] = next_id
  BY <1>0, <1>1, ExceptOnlyAt
<1>4. Counts'
  <2>1. armErr' <=> armErr
    BY DEF Send
  <2> QED
    BY <1>0, <1>1, <2>1, Zenon DEF Counts
<1>5. /\ armQueue \in Seq(1..MaxMoves) /\ Len(armQueue) \in Nat
      /\ next_id \in Nat
  BY LenProperties DEF TInv, ArmTyped, Numbered
<1>6. /\ Len(Append(armQueue, next_id)) = Len(armQueue) + 1
      /\ \A i \in 1..Len(armQueue) : Append(armQueue, next_id)[i] = armQueue[i]
      /\ Append(armQueue, next_id)[Len(armQueue) + 1] = next_id
  <2>1. armQueue \in Seq(Nat)
    <3>1. 1..MaxMoves \subseteq Nat
      OBVIOUS
    <3> QED
      BY <1>5, <3>1, SeqMonotonic
  <2> QED
    BY <1>5, <2>1, AppendProperties
<1>7. ASSUME NEW d \in Movers PROVE Accounted(d)' /\ Patient(d)'
  <2>1. CASE d = c
    <3>1. Patient(d)'
      BY <1>2, <2>1 DEF Patient
    <3>2. CASE accepts
      <4>1. Len(armQueue) + 1 \in 1..Len(armQueue') /\ armQueue'[Len(armQueue) + 1] = trans_id'[c]
        BY <1>1, <1>3, <1>5, <1>6, <3>2
      <4>2. InBuffer(trans_id[c])'
        BY <4>1 DEF InBuffer
      <4> QED
        BY <2>1, <3>1, <4>2 DEF Accounted
    <3>3. CASE ~accepts
      <4>1. armErr => armState = STOPPED
        BY <1>0, Zenon DEF Counts
      <4>2. armState' = STOPPED \/ ~connected'
        BY <1>1, <3>3, <4>1 DEF connected
      <4> QED
        BY <3>1, <4>2, Zenon DEF Accounted
    <3> QED
      BY <3>2, <3>3
  <2>2. CASE d # c
    <3>1. d \in Callers \ {c}
      BY <2>2 DEF Callers
    <3>2. pc'[d] = pc[d] /\ trans_id'[d] = trans_id[d] /\ wait'[d] = wait[d]
      BY <1>1, <1>2, <1>3, <3>1, Zenon DEF OnlyAt
    <3>3. Waiting(d)' <=> Waiting(d)
      BY <3>2, Zenon DEF Waiting
    <3>4. InBuffer(trans_id[d]) => InBuffer(trans_id[d])'
      BY <1>1, <1>5, <1>6, <3>2 DEF InBuffer
    <3>5. Accounted(d) /\ Patient(d)
      BY DEF WInv
    <3>6. Accounted(d)'
      BY <1>1, <3>2, <3>3, <3>4, <3>5 DEF Accounted, connected
    <3>7. Patient(d)'
      BY <1>1, <3>2, <3>3, <3>5 DEF Patient, connected
    <3> QED
      BY <3>6, <3>7
  <2> QED
    BY <2>1, <2>2
<1> QED
  BY <1>4, <1>7 DEF WInv

\* An answer to get_state.
LEMMA AskedWaits ==
  ASSUME WInv, GetState \/ UNCHANGED lagging
  PROVE  lagging' \in 0..StartLag /\ lagging' >= lagging
<1>1. CASE UNCHANGED lagging
  BY <1>1, KeepsLagging
<1>2. CASE GetState
  <2>1. lagging \in 0..StartLag
    BY DEF WInv, Counts
  <2>2. lagging' = lagging \/ (lagging < StartLag /\ lagging' = lagging + 1)
    BY <1>2 DEF GetState
  <2> QED
    BY <2>1, <2>2, MoveWaitAssumption
<1> QED
  BY <1>1, <1>2

\* The count starts when the wait does.
LEMMA BeginWaits ==
  ASSUME ~support_feedback, TInv, WInv, IInv, NEW c \in Movers, WaitBegins(c) PROVE WInv'
<1>0. /\ Counts /\ cnt \in [Callers -> Nat] /\ max_cnt \in [Callers -> Nat]
      /\ DOMAIN pc = Callers /\ c \in Callers
  BY DEF WInv, Counts, IInv, Domains, Callers
<1>1. /\ UNCHANGED <<wait, trans_id, armState, armErr, armQueue, finished, port>>
      /\ pc[c] = "begin" /\ Goto(c, "poll") /\ cnt' = [cnt EXCEPT ![c] = 0]
      /\ \E m \in {2, IdlePolls} : /\ max_cnt' = [max_cnt EXCEPT ![c] = m]
                                   /\ armState = READY => m = IdlePolls
  BY DEF WaitBegins, arm, link, READY, RUNNING
<1>2. lagging' \in 0..StartLag /\ lagging' >= lagging
  <2>1. GetState \/ UNCHANGED lagging
    BY DEF WaitBegins
  <2> QED
    BY <2>1, AskedWaits
<1>3. PICK m \in {2, IdlePolls} : /\ max_cnt' = [max_cnt EXCEPT ![c] = m]
                                  /\ armState = READY => m = IdlePolls
  BY <1>1
<1>4. OnlyAt(pc, pc', c) /\ pc'[c] = "poll"
  BY <1>0, <1>1, ExceptOnlyAt DEF Goto
<1>5. OnlyAt(cnt, cnt', c) /\ cnt'[c] = 0 /\ OnlyAt(max_cnt, max_cnt', c) /\ max_cnt'[c] = m
  BY <1>0, <1>1, <1>3, ExceptOnlyAt
<1>6. Counts'
  <2>1. cnt' \in [Callers -> Nat] /\ max_cnt' \in [Callers -> Nat]
    BY <1>0, <1>1, <1>3, MoveWaitAssumption
  <2>2. armErr' <=> armErr
    BY <1>1
  <2> QED
    BY <1>0, <1>1, <1>2, <2>1, <2>2, Zenon DEF Counts
<1>7. connected' => connected
  BY <1>1 DEF connected
<1>8. ASSUME NEW d \in Movers PROVE Accounted(d)' /\ Patient(d)'
  <2>1. CASE d = c
    <3>1. Accounted(c) /\ (Waiting(c)' => Waiting(c))
      BY <1>1, Zenon DEF WInv, Waiting, WaitSteps
    <3>2. Accounted(c)'
      BY <1>1, <1>7, <3>1 DEF Accounted, InBuffer
    <3>3. cnt'[c] <= lagging'
      BY <1>2, <1>5
    <3>4. Patient(c)'
      BY <1>1, <1>3, <1>5, <3>3 DEF Patient
    <3> QED
      BY <2>1, <3>2, <3>4
  <2>2. CASE d # c
    <3>1. d \in Callers \ {c}
      BY <2>2 DEF Callers
    <3>2. pc'[d] = pc[d] /\ cnt'[d] = cnt[d] /\ max_cnt'[d] = max_cnt[d]
      BY <1>4, <1>5, <3>1, Zenon DEF OnlyAt
    <3>3. GoesOnWaiting(d)
      BY <1>1, <3>2, Zenon DEF GoesOnWaiting, Waiting
    <3> QED
      BY <1>1, <1>2, <1>6, <1>7, <3>3, KeepsWaiting
  <2> QED
    BY <2>1, <2>2
<1> QED
  BY <1>6, <1>8 DEF WInv

LEMMA FailsWaiting ==
  ASSUME WInv, IInv, NEW c \in Movers,
         PollClosed(c) \/ PollError(c) \/ PollLost(c) \/ PollStopped(c)
  PROVE  WInv'
<1>0. /\ cnt \in [Callers -> Nat] /\ max_cnt \in [Callers -> Nat]
      /\ DOMAIN pc = Callers /\ c \in Callers
  BY DEF WInv, Counts, IInv, Domains, Callers
<1>1. UNCHANGED <<wait, trans_id, cnt, max_cnt, armState, armErr, armQueue, finished, port>>
  BY DEF PollClosed, PollError, PollLost, PollStopped, arm, locals, env, link
<1>2. lagging' \in 0..StartLag /\ lagging' >= lagging
  <2>1. GetState \/ UNCHANGED lagging
    BY DEF PollClosed, PollError, PollLost, PollStopped, env
  <2> QED
    BY <2>1, AskedWaits
<1>3. Goto(c, "idle")
  BY DEF PollClosed, PollError, PollLost, PollStopped, Return
<1>4. OnlyAt(pc, pc', c) /\ pc'[c] = "idle"
  BY <1>0, <1>3, ExceptOnlyAt DEF Goto
<1>5. OnlyAt(cnt, cnt', c) /\ OnlyAt(max_cnt, max_cnt', c)
  BY <1>0, <1>1, SameOnlyAt
<1>6. pc'[c] \notin {"sent"} \cup WaitSteps
  BY <1>4 DEF WaitSteps
<1>7. \A d \in Movers : GoesOnWaiting(d)
  BY <1>0, <1>1, <1>4, <1>5, <1>6, OneGoesOn
<1> QED
  BY <1>0, <1>1, <1>2, <1>7, KeepsCounts

-----------------------------------------------------------------------------
\* A poll that finds the arm ready, with a move that is not done, counts an answer that the
\* arm is late by.
LEMMA ReadyPoll ==
  ASSUME WInv, NEW c \in Movers, wait[c], pc[c] = "poll", GetState, armState = READY,
         trans_id[c] \notin finished
  PROVE  lagging' = lagging + 1 /\ cnt[c] + 1 <= lagging' /\ ~LongIdle(c)
<1>1. Accounted(c) /\ Patient(c) /\ Counts /\ c \in Callers
  BY DEF WInv, Callers
<1>2. Waiting(c) /\ connected /\ armState # STOPPED
  BY DEF Waiting, WaitSteps, GetState, READY, STOPPED
<1>3. InBuffer(trans_id[c])
  BY <1>1, <1>2 DEF Accounted
<1>4. armQueue # <<>>
  <2>1. Len(<<>>) = 0
    OBVIOUS
  <2> QED
    BY <1>3, <2>1 DEF InBuffer
<1>5. lagging < StartLag /\ lagging' = lagging + 1
  BY <1>4 DEF GetState
<1>6. max_cnt[c] = IdlePolls /\ cnt[c] <= lagging
  BY <1>1, <1>2, Zenon DEF Patient
<1>7. lagging \in Nat /\ cnt[c] \in Nat
  BY <1>1 DEF Counts
<1> QED
  BY <1>5, <1>6, <1>7, MoveWaitAssumption DEF LongIdle

LEMMA PollStateDone ==
  ASSUME TInv, IInv, WInv, NEW c \in Movers, PollState(c) PROVE IInv'
<1>0. c \in Callers /\ Domains /\ ResultsAreDone /\ ArmTyped
  BY DEF Callers, IInv, TInv
<1>1. UNCHANGED <<wait, trans_id, finished, feedback, results>>
  BY DEF PollState, arm, maps
<1>2. CASE UNCHANGED <<pc, ret>>
  BY <1>0, <1>1, <1>2, Elsewhere DEF ResultsAreDone
<1>3. CASE ~UNCHANGED <<pc, ret>>
  <2>1. /\ Return(c, "ok") /\ LongIdle(c) /\ pc[c] = "poll" /\ GetState
        /\ ~Stopped(armState) /\ armState \notin {RUNNING, PAUSED}
    BY <1>3 DEF PollState
  <2>2. armState = READY
    BY <1>0, <2>1 DEF ArmTyped, Stopped, RUNNING, PAUSED, READY
  <2>3. wait[c] => trans_id[c] \in finished
    BY <2>1, <2>2, ReadyPoll
  <2>4. OnlyAt(pc, pc', c) /\ OnlyAt(ret, ret', c)
    BY <1>0, <2>1, ExceptOnlyAt DEF Return, Goto, Domains
  <2>5. OnlyAt(wait, wait', c) /\ OnlyAt(trans_id, trans_id', c)
    BY <1>0, <1>1, SameOnlyAt DEF Domains
  <2>6. ResultsAreDone' /\ finished \subseteq finished'
    BY <1>0, <1>1 DEF ResultsAreDone
  <2> QED
    BY <1>0, <1>1, <2>3, <2>4, <2>5, <2>6, OneThread
<1> QED
  BY <1>2, <1>3

LEMMA PollStateWaits ==
  ASSUME TInv, IInv, WInv, NEW c \in Movers, PollState(c) PROVE WInv'
<1>0. /\ Counts /\ cnt \in [Callers -> Nat] /\ max_cnt \in [Callers -> Nat]
      /\ DOMAIN pc = Callers /\ c \in Callers /\ armState \in 1..4
  BY DEF WInv, Counts, IInv, Domains, Callers, TInv, ArmTyped
<1>1. /\ UNCHANGED <<wait, trans_id, armState, armErr, armQueue, finished, port>>
      /\ pc[c] = "poll" /\ GetState /\ ~Stopped(armState)
  BY DEF PollState, arm, link
<1>2. lagging' \in 0..StartLag /\ lagging' >= lagging
  BY <1>1, AskedWaits
<1>3. \/ armState \in {RUNNING, PAUSED} /\ CountAnew(c) /\ UNCHANGED pc
      \/ LongIdle(c) /\ cnt' = [cnt EXCEPT ![c] = 0] /\ Goto(c, "idle") /\ UNCHANGED max_cnt
      \/ /\ armState \notin {RUNNING, PAUSED} /\ ~LongIdle(c)
         /\ cnt' = [cnt EXCEPT ![c] = cnt[c] + 1] /\ UNCHANGED <<pc, max_cnt>>
  BY DEF PollState, Return
<1>4. /\ OnlyAt(pc, pc', c) /\ OnlyAt(cnt, cnt', c) /\ OnlyAt(max_cnt, max_cnt', c)
      /\ cnt' \in [Callers -> Nat] /\ max_cnt' \in [Callers -> Nat]
  <2>1. OnlyAt(pc, pc', c)
    BY <1>0, <1>3, ExceptOnlyAt, SameOnlyAt DEF Goto
  <2>2. PICK n \in Nat : cnt' = [cnt EXCEPT ![c] = n]
    <3>1. 0 \in Nat /\ cnt[c] + 1 \in Nat
      BY <1>0
    <3> QED
      BY <1>3, <3>1, Zenon DEF CountAnew
  <2>3. max_cnt' = max_cnt \/ max_cnt' = [max_cnt EXCEPT ![c] = 2]
    BY <1>3, Zenon DEF CountAnew
  <2>4. OnlyAt(cnt, cnt', c) /\ cnt' \in [Callers -> Nat]
    BY <1>0, <2>2, ExceptOnlyAt
  <2>5. OnlyAt(max_cnt, max_cnt', c) /\ max_cnt' \in [Callers -> Nat]
    BY <1>0, <2>3, ExceptOnlyAt, SameOnlyAt
  <2> QED
    BY <2>1, <2>4, <2>5
<1>5. Counts'
  <2>1. armErr' <=> armErr
    BY <1>1
  <2> QED
    BY <1>0, <1>1, <1>2, <1>4, <2>1, Zenon DEF Counts
<1>6. connected' => connected
  BY <1>1 DEF connected
<1>7. Accounted(c)' /\ Patient(c)'
  <2>1. CASE LongIdle(c) /\ Goto(c, "idle")
    <3>1. pc'[c] = "idle"
      BY <1>0, <2>1, ExceptOnlyAt DEF Goto
    <3> QED
      BY <3>1 DEF Accounted, Patient, Waiting, WaitSteps
  <2>2. CASE UNCHANGED pc
    <3>1. Accounted(c) /\ (Waiting(c)' <=> Waiting(c)) /\ (Waiting(c) => wait[c])
      BY <1>1, <2>2, Zenon DEF WInv, Waiting
    <3>2. Accounted(c)'
      BY <1>1, <1>6, <3>1 DEF Accounted, InBuffer
    <3>3. CASE armState \in {RUNNING, PAUSED}
      BY <1>1, <3>2, <3>3 DEF Patient, RUNNING, PAUSED, READY
    <3>4. CASE armState \notin {RUNNING, PAUSED}
      <4>1. armState = READY
        BY <1>0, <1>1, <3>4 DEF Stopped, RUNNING, PAUSED, READY
      <4> SUFFICES ASSUME Waiting(c)', trans_id'[c] \notin finished'
                   PROVE  max_cnt'[c] = IdlePolls /\ cnt'[c] <= lagging'
        BY <3>2, Zenon DEF Patient
      <4>2. trans_id[c] \notin finished /\ wait[c] /\ Waiting(c)
        BY <1>1, <3>1
      <4>3. lagging' = lagging + 1 /\ cnt[c] + 1 <= lagging' /\ ~LongIdle(c)
        BY <1>1, <4>1, <4>2, ReadyPoll
      <4>4. Patient(c) /\ connected
        BY <1>1 DEF WInv, GetState
      <4>5. max_cnt[c] = IdlePolls
        BY <1>1, <4>1, <4>2, <4>4, Zenon DEF Patient
      <4>6. cnt'[c] = cnt[c] + 1 /\ max_cnt' = max_cnt
        BY <1>0, <1>3, <3>4, <4>3
      <4> QED
        BY <4>3, <4>5, <4>6
    <3> QED
      BY <3>2, <3>3, <3>4
  <2> QED
    BY <1>3, <2>1, <2>2
<1>8. ASSUME NEW d \in Movers, d # c PROVE Accounted(d)' /\ Patient(d)'
  <2>1. d \in Callers \ {c}
    BY <1>8 DEF Callers
  <2>2. pc'[d] = pc[d] /\ cnt'[d] = cnt[d] /\ max_cnt'[d] = max_cnt[d]
    BY <1>4, <2>1, Zenon DEF OnlyAt
  <2>3. GoesOnWaiting(d)
    BY <1>1, <2>2, Zenon DEF GoesOnWaiting, Waiting
  <2> QED
    BY <1>1, <1>2, <1>5, <1>6, <2>3, KeepsWaiting
<1> QED
  BY <1>5, <1>7, <1>8 DEF WInv

\* A stopped arm is not started while a move waits, so that none is dropped unseen.
LEMMA OperatorWaits ==
  ASSUME EarlyRestart = FALSE, TInv, WInv, IInv, NEW c \in Operators, NEW op,
         SetState(c, op) \/ OperatorStep(c)
  PROVE  WInv'
<1>0. /\ Counts /\ cnt \in [Callers -> Nat] /\ max_cnt \in [Callers -> Nat]
      /\ DOMAIN pc = Callers /\ c \in Callers /\ c \notin Movers /\ armState \in 1..4
  BY MoveWaitAssumption DEF WInv, Counts, IInv, Domains, Callers, TInv, ArmTyped
<1>1. UNCHANGED <<wait, trans_id, cnt, max_cnt, lagging, port>>
  BY DEF SetState, OperatorStep, AskState, SetReady, locals, env, link
<1>2. PICK p : Goto(c, p)
  BY DEF SetState, OperatorStep, AskState, SetReady
<1>3. OnlyAt(pc, pc', c)
  BY <1>0, <1>2, ExceptOnlyAt DEF Goto
<1>4. OnlyAt(cnt, cnt', c) /\ OnlyAt(max_cnt, max_cnt', c)
  BY <1>0, <1>1, SameOnlyAt
<1>5. CASE OperatorStep(c)
  <2>1. UNCHANGED <<armState, armErr, armQueue, finished>>
    BY <1>5 DEF OperatorStep, AskState, SetReady, arm
  <2>2. \A d \in Movers : GoesOnWaiting(d)
    BY <1>0, <1>1, <1>3, <1>4, OneGoesOn
  <2> QED
    BY <1>0, <1>1, <2>1, <2>2, KeepsLagging, KeepsCounts
<1>6. CASE SetState(c, op)
  <2>1. /\ ArmObeys(op)
        /\ op = "start" /\ armState = STOPPED =>
             \A d \in Movers : pc[d] \notin {"sent"} \cup WaitSteps
    BY <1>6 DEF SetState
  <2>2. /\ armErr' = (armErr /\ op # "clean") /\ finished' = finished
        /\ armQueue' = IF op = "stop" THEN <<>> ELSE armQueue
    BY <2>1 DEF ArmObeys
  <2>3. \/ armState' = STOPPED
        \/ armState' = PAUSED /\ op = "pause" /\ armState \in {RUNNING, READY}
        \/ /\ op = "start" /\ ~armErr /\ armState \in {PAUSED, STOPPED}
           /\ armState' = IF armQueue = <<>> THEN READY ELSE RUNNING
        \/ armState' = armState /\ op # "stop"
    BY <2>1 DEF ArmObeys
  <2>4. Counts'
    <3>1. armErr' => armErr
      BY <2>2
    <3>2. armErr => armState = STOPPED
      BY <1>0, Zenon DEF Counts
    <3>3. armErr' => armState' = STOPPED
      BY <2>3, <3>1, <3>2 DEF STOPPED, RUNNING, READY
    <3> QED
      BY <1>0, <1>1, <3>3, Zenon DEF Counts
  <2>5. ASSUME NEW d \in Movers PROVE Accounted(d)' /\ Patient(d)'
    <3>1. d \in Callers \ {c}
      BY <1>0 DEF Callers
    <3>2. pc'[d] = pc[d]
      BY <1>3, <3>1, Zenon DEF OnlyAt
    <3>3. Waiting(d)' <=> Waiting(d)
      BY <1>1, <3>2, Zenon DEF Waiting
    <3>4. Accounted(d) /\ Patient(d)
      BY DEF WInv
    <3>5. connected' <=> connected
      BY <1>1 DEF connected
    <3>6. CASE armState' = STOPPED
      <4>1. STOPPED # READY
        BY DEF STOPPED, READY
      <4> QED
        BY <3>6, <4>1, Zenon DEF Accounted, Patient
    <3>7. CASE armState' # STOPPED
      <4>1. armQueue' = armQueue
        BY <2>1, <2>2, <3>7 DEF ArmObeys
      <4>2. armState = STOPPED => ~Waiting(d)
        BY <2>1, <2>3, <3>7 DEF Waiting, STOPPED, RUNNING, READY
      <4>3. Accounted(d)'
        BY <1>1, <2>2, <3>3, <3>4, <3>5, <4>1, <4>2 DEF Accounted, InBuffer
      <4>4. armState' = READY /\ armState # READY => ~InBuffer(trans_id[d])'
        <5>1. Len(<<>>) = 0
          OBVIOUS
        <5>2. armState' = READY /\ armState # READY => armQueue' = <<>>
          BY <2>3, <4>1 DEF READY, RUNNING, PAUSED, STOPPED
        <5>3. armState' = READY /\ armState # READY => Len(armQueue') = 0
          BY <5>1, <5>2, Zenon
        <5> QED
          BY <5>3 DEF InBuffer
      <4>5. CASE armState = READY
        <5> SUFFICES ASSUME Waiting(d)', pc'[d] = "poll", connected', trans_id'[d] \notin finished'
                     PROVE  max_cnt'[d] = IdlePolls /\ cnt'[d] <= lagging'
          BY <4>3, Zenon DEF Patient
        <5>1. Waiting(d) /\ pc[d] = "poll" /\ connected /\ trans_id[d] \notin finished
          BY <1>1, <2>2, <3>2, <3>3, <3>5
        <5>2. max_cnt[d] = IdlePolls /\ cnt[d] <= lagging
          BY <3>4, <4>5, <5>1, Zenon DEF Patient
        <5> QED
          BY <1>1, <5>2
      <4>6. CASE armState # READY
        BY <3>7, <4>3, <4>4, <4>6, Zenon DEF Accounted, Patient
      <4> QED
        BY <4>3, <4>5, <4>6
    <3> QED
      BY <3>6, <3>7
  <2> QED
    BY <2>4, <2>5 DEF WInv
<1> QED
  BY <1>5, <1>6

LEMMA WInvNext ==
  ASSUME EarlyRestart = FALSE, ~support_feedback, TInv, IInv, WInv, [Next]_vars PROVE WInv'
<1>1. CASE UNCHANGED vars
  <2>1. UNCHANGED <<pc, wait, trans_id, cnt, max_cnt, armState, armErr, armQueue, finished, port,
                    lagging>>
    BY <1>1 DEF vars, arm, locals, env, link
  <2> QED
    BY <2>1, NobodyMoves, KeepsLagging, KeepsCounts DEF WInv, Counts
<1>2. CASE Arm \/ ReportThread \/ FeedbackCallback
  BY <1>2, ArmWaits, ReportWaits
<1>3. ASSUME NEW c \in Movers, Call(c) \/ MoveStep(c) PROVE WInv'
  <2>1. ~PollFeedback(c)
    BY DEF PollFeedback
  <2> QED
    BY <1>3, <2>1, CallWaits, ChecksWait, SendWaits, BeginWaits, FailsWaiting, PollStateWaits
       DEF MoveStep
<1>4. ASSUME NEW c \in Operators, NEW op, SetState(c, op) \/ OperatorStep(c) PROVE WInv'
  BY <1>4, OperatorWaits
<1> QED
  BY <1>1, <1>2, <1>3, <1>4 DEF Next, Resume

\* With or without feedback, a move that waited and returned 0 has been carried out, when a
\* stopped arm is not started again before the moves that wait have seen it: ten polls
\* without motion are more than the answers by which the arm may be late.
THEOREM PolledMoves == ASSUME EarlyRestart = FALSE PROVE Spec => []WaitedMoveIsDone
<1> DEFINE Inv == TInv /\ IInv /\ (support_feedback \/ WInv)
<1>1. Init => Inv
  BY TInvInit, InvInit, WInvInit
<1>2. Inv /\ [Next]_vars => Inv'
  <2> SUFFICES ASSUME TInv, IInv, support_feedback \/ WInv, [Next]_vars PROVE Inv'
    OBVIOUS
  <2>1. TInv'
    BY TInvNext
  <2>2. support_feedback' <=> support_feedback
    BY SameFirmware DEF support_feedback
  <2>3. \A c \in Movers : PollState(c) => IInv'
    <3> SUFFICES ASSUME NEW c \in Movers, PollState(c) PROVE IInv'
      OBVIOUS
    <3>1. ~support_feedback
      BY DEF PollState
    <3> QED
      BY <3>1, PollStateDone
  <2>4. IInv'
    BY <2>3, IInvNext
  <2>5. ~support_feedback => WInv'
    BY WInvNext
  <2> QED
    BY <2>1, <2>2, <2>4, <2>5
<1>3. Inv => WaitedMoveIsDone
  BY DEF IInv
<1> QED
  BY <1>1, <1>2, <1>3, PTL DEF Spec
=============================================================================
