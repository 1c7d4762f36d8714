---------------------------- MODULE UxbusTcpProofs ----------------------------
(***************************************************************************)
(* A request takes no answer but its own, and no header ends it, however   *)
(* late the answers come and however a flush has mixed up the queue; and   *)
(* when nothing is late its answer is the next frame to be read.           *)
(***************************************************************************)
EXTENDS UxbusTcp, SequenceTheorems, TLAPS

\* The queue between the two threads, with what is proved about it for any threads.
QP == INSTANCE QueueMemcpyProofs WITH Frames <- Answers, Uses <- {Calls}, calls <- Calls

Zero == [id |-> 0, prot |-> 0, unit |-> 0, req |-> 0]

BusTyped ==
  /\ transId \in 1..IdMax
  /\ cur \in Answers \cup {Zero}
  /\ phase \in {"idle", "flush", "read", "pop"}
  /\ phase # "idle" => cur \in Answers /\ cur.id \in 1..IdMax
  /\ pending \in Seq(Answers) /\ wire \in Seq(Answers)
  /\ holding \in BOOLEAN
  /\ holding => data["recv"] \in Answers

\* Where the two threads are in the queue.
ThreadsInStep ==
  /\ pc["recv"] # "idle" => holding /\ pc["recv"] \in QP!PushSteps \cup {"push"}
  /\ phase \in {"idle", "read"} => pc["request"] = "idle"
  /\ phase = "flush" => pc["request"] \in QP!FlushSteps \cup {"idle"}
  /\ phase = "pop" => pc["request"] \in QP!PopSteps \cup {"pop", "idle"}
  /\ pc["request"] \in {"pop", "empty"} => cnt > 0

\* j is i after at most n requests, in numbers that start again at 1.
Ahead(i, j, n) == \E d \in 1..n : j = i + d \/ j = i + d - IdMax

\* What is under way was sent under a number that the requests since have not reached.
Behind(f) ==
  IF phase = "flush"
  THEN /\ cur.req - f.req \in 1..(IdMax - 1)
       /\ Ahead(f.id, cur.id, cur.req - f.req)
  ELSE f.req <= cur.req /\ Ahead(f.id, transId, cur.req + 1 - f.req)

\* A cell is an answer to the request, or one that shows another number.
Told(c) == c \in {Empty, Torn, cur} \/ c.id # cur.id

Numbers ==
  /\ phase = "flush" => cur.id = transId
  /\ \A f \in UnderWay : Behind(f) /\ (phase # "idle" => Told(f))

\* What is in the queue since the flush, and what was read of it.
Cells ==
  /\ phase \in {"read", "pop"} \/ (phase = "flush" /\ pc["request"] = "idle") =>
       \A i \in QP!Slots : Told(buf[i])
  /\ phase = "pop" /\ pc["request"] \in {"tail+1", "cnt-1", "idle"} => Told(data["request"])

Ends ==
  /\ result = "answered" => accepted.req = cur.req
  /\ NoHeaderErrors

\* The inductive invariant of AnswerMatches and NoHeaderErrors.
BusInv == BusTyped /\ ThreadsInStep /\ Numbers /\ Cells /\ Ends

-----------------------------------------------------------------------------
\* What was proved of the queue was proved of this one.
LEMMA ThisQueue ==
  /\ QP!QueueAssumption
  /\ UNCHANGED Calls
  /\ \A t \in Threads : (Q!Step(t) <=> QP!Step(t)) /\ (Q!CallPop(t) <=> QP!CallPop(t))
                        /\ (Q!CallFlush(t) <=> QP!CallFlush(t))
                        /\ \A f \in Answers : Q!CallPush(t, f) <=> QP!CallPush(t, f)
  /\ Q!Init <=> QP!Init
<1>1. QP!QueueAssumption
  BY UxbusAssumption DEF QP!QueueAssumption, Calls, Threads
<1>2. UNCHANGED Calls
  BY DEF Calls, Threads
<1>3. ASSUME NEW t \in Threads PROVE Q!Step(t) <=> QP!Step(t)
  BY DEF Q!Step, Q!Acquire, Q!PushFull, Q!PushCopy, Q!PushCopied, Q!PushReadHead, Q!PushWriteHead,
    Q!PushReadCnt, Q!PushWriteCnt, Q!PopEmpty, Q!PopRead, Q!PopTail, Q!PopCnt, Q!FlushCnt, Q!FlushHead,
    Q!FlushTail, Q!FlushMemset, Q!Lock, Q!Unlock, Q!Goto, Q!Return, Q!fields, Q!Room, Q!Wrap, Q!Some, Q!Slots,
    QP!Step, QP!Acquire, QP!PushFull, QP!PushCopy, QP!PushCopied, QP!PushReadHead, QP!PushWriteHead,
    QP!PushReadCnt, QP!PushWriteCnt, QP!PopEmpty, QP!PopRead, QP!PopTail, QP!PopCnt, QP!FlushCnt,
    QP!FlushHead, QP!FlushTail, QP!FlushMemset, QP!Lock, QP!Unlock, QP!Goto, QP!Return, QP!fields,
    QP!Room, QP!Wrap, QP!Some, QP!Slots
<1>4. ASSUME NEW t \in Threads
      PROVE  /\ (Q!CallPop(t) <=> QP!CallPop(t)) /\ (Q!CallFlush(t) <=> QP!CallFlush(t))
             /\ \A f \in Answers : Q!CallPush(t, f) <=> QP!CallPush(t, f)
  BY DEF Q!CallPop, Q!CallFlush, Q!CallPush, QP!CallPop, QP!CallFlush, QP!CallPush,
    Q!Goto, Q!fields, QP!Goto, QP!fields
<1>5. Q!Init <=> QP!Init
  BY DEF Q!Init, QP!Init, Q!Slots, QP!Slots
<1> QED
  BY <1>1, <1>2, <1>3, <1>4, <1>5

\* Every action leaves the queue alone, calls one of its operations or makes a step in one.
LEMMA QueueNext ==
  ASSUME QP!IInv, BusTyped, [Next]_vars
  PROVE  QP!IInv'
<1>1. CASE UNCHANGED queue
  BY <1>1 DEF queue, QP!IInv, QP!TypeOK, QP!Discipline, QP!Checked, Calls, Threads
<1>2. ASSUME NEW t \in Threads, \/ Q!CallPop(t) \/ Q!CallFlush(t) \/ Q!Step(t)
                                \/ \E f \in Answers : Q!CallPush(t, f)
      PROVE  QP!IInv'
  BY <1>2, ThisQueue, QP!NextIInv DEF QP!Call
<1>3. CASE Next
  <2>1. CASE WriteFrame \/ CheckFrame \/ Timeout \/ GiveUp \/ Disconnect \/ Answer
    BY <1>1, <2>1 DEF WriteFrame, CheckFrame, Timeout, GiveUp, Disconnect, Answer
  <2>2. CASE (\E k \in Kinds : Request(k)) \/ ReadFrame
    BY <1>2, <2>2 DEF Request, ReadFrame, Threads
  <2>3. CASE Receive
    BY <1>2, <2>3, HeadTailProperties DEF Receive, Threads, BusTyped
  <2>4. CASE Pushed
    BY <1>1, <1>2, <2>4 DEF Pushed, Threads, BusTyped
  <2>5. CASE QueueStep
    BY <1>2, <2>5 DEF QueueStep
  <2> QED
    BY <1>3, <2>1, <2>2, <2>3, <2>4, <2>5 DEF Next
<1> QED
  BY <1>1, <1>3 DEF vars

\* What a step of the receiving thread's push does to what the request looks at.
LEMMA RecvStep ==
  ASSUME QP!IInv, ThreadsInStep, Q!Step("recv")
  PROVE  /\ pc["recv"] # "idle" /\ pc'["recv"] \in QP!PushSteps \cup {"idle"}
         /\ pc'["request"] = pc["request"] /\ data' = data
         /\ cnt' = cnt \/ cnt' > 0
         /\ \A i \in QP!Slots : buf'[i] \in {buf[i], data["recv"], Empty, Torn}
<1> USE DEF QP!IInv, QP!TypeOK, Threads, ThreadsInStep, QP!Goto, QP!Return, QP!fields, QP!PushSteps, QP!PopSteps, QP!FlushSteps
<1> DEFINE t == "recv"
<1>0. QP!Step(t)
  BY ThisQueue
<1>1. CASE QP!Acquire(t)
  BY <1>1 DEF QP!Acquire
<1>2. CASE QP!PushFull(t)
  BY <1>2 DEF QP!PushFull
<1>3. CASE QP!PushCopy(t)
  BY <1>3 DEF QP!PushCopy
<1>4. CASE QP!PushCopied(t)
  BY <1>4 DEF QP!PushCopied
<1>5. CASE QP!PushReadHead(t) \/ QP!PushWriteHead(t) \/ QP!PushReadCnt(t)
  BY <1>5 DEF QP!PushReadHead, QP!PushWriteHead, QP!PushReadCnt
<1>6. CASE QP!PushWriteCnt(t)
  BY <1>6 DEF QP!PushWriteCnt
<1>7. CASE QP!PopEmpty(t) \/ QP!PopRead(t) \/ QP!PopTail(t) \/ QP!PopCnt(t)
  BY <1>7 DEF QP!PopEmpty, QP!PopRead, QP!PopTail, QP!PopCnt
<1>8. CASE QP!FlushCnt(t) \/ QP!FlushHead(t) \/ QP!FlushTail(t) \/ QP!FlushMemset(t)
  BY <1>8 DEF QP!FlushCnt, QP!FlushHead, QP!FlushTail, QP!FlushMemset
<1> QED
  BY <1>0, <1>1, <1>2, <1>3, <1>4, <1>5, <1>6, <1>7, <1>8 DEF QP!Step

Flushing ==
  /\ pc["request"] \in QP!FlushSteps /\ pc'["request"] \in QP!FlushSteps \cup {"idle"} /\ data' = data
  /\ pc'["request"] = "idle" => \A i \in QP!Slots : buf'[i] = Empty

Popping ==
  /\ pc["request"] \in QP!PopSteps \cup {"pop"} /\ pc'["request"] \in QP!PopSteps \cup {"idle"}
  /\ buf' = buf
  /\ pc'["request"] = "empty" => pc["request"] = "pop" /\ cnt' = cnt
  /\ pc'["request"] \in {"tail+1", "cnt-1", "idle"} =>
       \/ pc["request"] \in {"tail+1", "cnt-1"} /\ data' = data
       \/ \E i \in QP!Slots : data'["request"] = buf[i]

\* What a step of the request's thread in the queue does.
LEMMA RequestStep ==
  ASSUME QP!IInv, BusTyped, ThreadsInStep, Q!Step("request")
  PROVE  /\ pc'["recv"] = pc["recv"] /\ data'["recv"] = data["recv"]
         /\ (Flushing /\ phase = "flush") \/ (Popping /\ phase = "pop")
<1> USE DEF QP!IInv, QP!TypeOK, Threads, ThreadsInStep, QP!Goto, QP!Return, QP!fields, QP!PushSteps, QP!PopSteps, QP!FlushSteps
<1> DEFINE t == "request"
<1> phase \in {"idle", "flush", "read", "pop"}
  BY DEF BusTyped
<1>0. QP!Step(t)
  BY ThisQueue
<1>1. CASE QP!Acquire(t)
  BY <1>1 DEF QP!Acquire, Popping, BusTyped
<1>2. CASE QP!PushFull(t) \/ QP!PushCopy(t) \/ QP!PushCopied(t) \/ QP!PushReadHead(t)
  BY <1>2 DEF QP!PushFull, QP!PushCopy, QP!PushCopied, QP!PushReadHead
<1>3. CASE QP!PushWriteHead(t) \/ QP!PushReadCnt(t) \/ QP!PushWriteCnt(t)
  BY <1>3 DEF QP!PushWriteHead, QP!PushReadCnt, QP!PushWriteCnt
<1>4. CASE QP!PopEmpty(t)
  BY <1>4 DEF QP!PopEmpty, QP!Some, Popping
<1>5. CASE QP!PopRead(t)
  <2>1. pc[t] = "read" /\ pc' = [pc EXCEPT ![t] = "tail+1"] /\ data' = [data EXCEPT ![t] = buf[tail]]
        /\ buf' = buf
    BY <1>5 DEF QP!PopRead
  <2>2. tail \in QP!Slots
    BY <2>1, UxbusAssumption DEF QP!Checked, QP!Slots
  <2>3. data'["request"] = buf[tail] /\ data'["recv"] = data["recv"]
    BY <2>1
  <2>4. pc'["request"] = "tail+1" /\ pc'["recv"] = pc["recv"]
    BY <2>1
  <2> QED
    BY <2>1, <2>2, <2>3, <2>4 DEF Popping
<1>6. CASE QP!PopTail(t)
  BY <1>6 DEF QP!PopTail, Popping
<1>7. CASE QP!PopCnt(t)
  BY <1>7 DEF QP!PopCnt, Popping
<1>8. CASE QP!FlushCnt(t) \/ QP!FlushHead(t) \/ QP!FlushTail(t)
  BY <1>8 DEF QP!FlushCnt, QP!FlushHead, QP!FlushTail, Flushing
<1>9. CASE QP!FlushMemset(t)
  BY <1>9 DEF QP!FlushMemset, Flushing
<1> QED
  BY <1>0, <1>1, <1>2, <1>3, <1>4, <1>5, <1>6, <1>7, <1>8, <1>9 DEF QP!Step

-----------------------------------------------------------------------------
(* Types, and where the threads are.                                        *)

\* The initial state.
LEMMA InitBus == Init => QP!IInv /\ BusInv
<1> SUFFICES ASSUME Init PROVE QP!IInv /\ BusInv
  OBVIOUS
<1>1. QP!IInv
  BY ThisQueue, QP!InitIInv DEF Init
<1>2. pc = [t \in Threads |-> "idle"] /\ buf = [i \in QP!Slots |-> Empty]
  BY ThisQueue DEF Init, QP!Init
<1>3. UnderWay = {}
  BY DEF Init, UnderWay, Range
<1>4. BusTyped
  <2>1. <<>> \in Seq(Answers) /\ 1 \in 1..IdMax
    BY UxbusAssumption
  <2> QED
    BY <2>1 DEF Init, BusTyped, Zero
<1>5. ThreadsInStep
  BY <1>2 DEF Init, ThreadsInStep, Threads
<1>6. Numbers /\ Cells /\ Ends
  BY <1>3 DEF Init, Numbers, Cells, Ends, NoHeaderErrors
<1> QED
  BY <1>1, <1>4, <1>5, <1>6 DEF BusInv

\* The number that follows one of them.
LEMMA NextIdIs ==
  ASSUME NEW i \in 1..IdMax
  PROVE  NextId(i) = IF i = IdMax THEN 1 ELSE i + 1
<1>1. CASE i = IdMax
  <2>1. i % IdMax = 0
    BY <1>1, UxbusAssumption, SMT
  <2> QED
    BY <1>1, <2>1 DEF NextId
<1>2. CASE i < IdMax
  <2>1. i % IdMax = i
    BY <1>2, UxbusAssumption, SMT
  <2> QED
    BY <1>2, <2>1 DEF NextId
<1> QED
  BY <1>1, <1>2, UxbusAssumption

\* Every step keeps the types.
LEMMA BusTypedNext ==
  ASSUME QP!IInv, BusTyped, ThreadsInStep, [Next]_vars
  PROVE  BusTyped'
<1> USE DEF BusTyped
<1>1. CASE UNCHANGED vars
  BY <1>1 DEF vars, queue
<1>2. ASSUME NEW k \in Kinds, Request(k) PROVE BusTyped'
  <2>1. cur.req \in Nat /\ cur.req + 1 \in 1..MaxRequests
    BY <1>2, UxbusAssumption DEF Request, Answers, Zero
  <2>2. cur' \in Answers
    BY <1>2, <2>1 DEF Request, Answers
  <2>3. cur'.id = transId
    BY <1>2 DEF Request
  <2> QED
    BY <1>2, <2>2, <2>3 DEF Request, Q!CallFlush
<1>3. CASE WriteFrame
  <2>1. NextId(transId) \in 1..IdMax
    BY NextIdIs, UxbusAssumption
  <2>2. Append(pending, cur) \in Seq(Answers)
    BY <1>3, AppendProperties DEF WriteFrame
  <2> QED
    BY <1>3, <2>1, <2>2 DEF WriteFrame, queue
<1>4. CASE ReadFrame
  BY <1>4 DEF ReadFrame, Q!CallPop
<1>5. CASE CheckFrame
  BY <1>5 DEF CheckFrame, queue
<1>6. CASE Timeout
  BY <1>6 DEF Timeout, queue
<1>7. CASE Receive
  <2>1. Tail(wire) \in Seq(Answers) /\ Head(wire) \in Answers
    BY <1>7, HeadTailProperties DEF Receive
  <2>2. data'["recv"] = Head(wire)
    BY <1>7 DEF Receive, Q!CallPush, QP!IInv, QP!TypeOK, Threads
  <2> QED
    BY <1>7, <2>1, <2>2 DEF Receive
<1>8. CASE Pushed
  <2>1. data'["recv"] = data["recv"]
    BY <1>8 DEF Pushed, Q!CallPush, queue, QP!IInv, QP!TypeOK, Threads
  <2> QED
    BY <1>8, <2>1 DEF Pushed
<1>9. CASE GiveUp \/ Disconnect
  <2>1. (holding' <=> FALSE) /\ UNCHANGED <<transId, cur, phase, pending, wire>>
    BY <1>9 DEF GiveUp, Disconnect
  <2> QED
    BY <2>1
<1>10. CASE QueueStep
  <2>1. data'["recv"] = data["recv"]
    BY <1>10, RecvStep, RequestStep DEF QueueStep, Threads
  <2> QED
    BY <1>10, <2>1 DEF QueueStep
<1>11. CASE Answer
  <2>1. Tail(pending) \in Seq(Answers) /\ Append(wire, Head(pending)) \in Seq(Answers)
    BY <1>11, HeadTailProperties, AppendProperties DEF Answer
  <2> QED
    BY <1>11, <2>1 DEF Answer, queue
<1> QED
  BY <1>1, <1>2, <1>3, <1>4, <1>5, <1>6, <1>7, <1>8, <1>9, <1>10, <1>11 DEF Next

\* Every step keeps the threads where their calls are.
LEMMA ThreadsNext ==
  ASSUME QP!IInv, BusTyped, ThreadsInStep, [Next]_vars
  PROVE  ThreadsInStep'
<1> USE DEF ThreadsInStep, QP!PushSteps, QP!PopSteps, QP!FlushSteps
<1>0. pc \in [Threads -> QP!Steps] /\ "recv" \in Threads /\ "request" \in Threads
      /\ phase \in {"idle", "flush", "read", "pop"} /\ cnt \in Nat
  BY UxbusAssumption DEF QP!IInv, QP!TypeOK, Threads, BusTyped
<1>1. CASE UNCHANGED vars
  BY <1>1 DEF vars, queue
<1>2. ASSUME NEW k \in Kinds, Request(k) PROVE ThreadsInStep'
  BY <1>0, <1>2 DEF Request, Q!CallFlush, Q!Goto, Q!fields
<1>3. CASE WriteFrame \/ CheckFrame \/ Timeout \/ Answer
  BY <1>0, <1>3 DEF WriteFrame, CheckFrame, Timeout, Answer, queue
<1>4. CASE ReadFrame
  BY <1>0, <1>4 DEF ReadFrame, Q!CallPop, Q!Goto, Q!fields
<1>5. CASE Receive
  BY <1>0, <1>5 DEF Receive, Q!CallPush, Q!Goto, Q!fields
<1>6. CASE Pushed
  BY <1>0, <1>6 DEF Pushed, Q!CallPush, Q!Goto, Q!fields, queue
<1>7. CASE GiveUp \/ Disconnect
  BY <1>0, <1>7 DEF GiveUp, Disconnect, queue
<1>8. CASE QueueStep
  <2>1. CASE Q!Step("recv")
    BY <1>0, <1>8, <2>1, RecvStep DEF QueueStep
  <2>2. CASE Q!Step("request")
    BY <1>0, <1>8, <2>2, RequestStep DEF QueueStep, Flushing, Popping
  <2> QED
    BY <1>8, <2>1, <2>2 DEF QueueStep, Threads
<1> QED
  BY <1>1, <1>2, <1>3, <1>4, <1>5, <1>6, <1>7, <1>8 DEF Next

-----------------------------------------------------------------------------
(* The transaction numbers.                                                 *)

\* What is in a sequence that has lost its head, or got one more.
LEMMA Ranges ==
  ASSUME NEW S, NEW s \in Seq(S)
  PROVE  /\ Range(s) \subseteq S
         /\ s # <<>> => Head(s) \in Range(s) /\ Range(Tail(s)) \subseteq Range(s)
         /\ \A x \in S : Range(Append(s, x)) \subseteq Range(s) \cup {x}
<1>1. DOMAIN s = 1..Len(s) /\ \A i \in 1..Len(s) : s[i] \in S
  BY ElementOfSeq, LenProperties
<1>2. ASSUME s # <<>> PROVE Head(s) \in Range(s) /\ Range(Tail(s)) \subseteq Range(s)
  <2>1. /\ Len(s) \in Nat /\ Len(s) >= 1 /\ Head(s) = s[1]
        /\ Len(Tail(s)) = Len(s) - 1 /\ DOMAIN Tail(s) = 1..Len(Tail(s))
        /\ \A i \in 1..Len(Tail(s)) : Tail(s)[i] = s[i + 1]
    BY <1>2, HeadTailProperties, EmptySeq, LenProperties
  <2> QED
    BY <1>1, <2>1 DEF Range
<1>3. ASSUME NEW x \in S PROVE Range(Append(s, x)) \subseteq Range(s) \cup {x}
  <2>1. /\ Append(s, x) \in Seq(S) /\ Len(Append(s, x)) = Len(s) + 1
        /\ \A i \in 1..Len(s) : Append(s, x)[i] = s[i]
        /\ Append(s, x)[Len(s) + 1] = x
    BY AppendProperties
  <2>2. DOMAIN Append(s, x) = 1..(Len(s) + 1) /\ Len(s) \in Nat
    BY <2>1, LenProperties
  <2> QED
    BY <1>1, <2>1, <2>2 DEF Range
<1> QED
  BY <1>1, <1>2, <1>3 DEF Range

\* Answers under way are answers.
LEMMA UnderWayTyped == BusTyped => UnderWay \subseteq Answers
BY Ranges DEF BusTyped, UnderWay

\* A number that fewer than IdMax requests have passed is not used again yet, and one more
\* request passes it once more.
LEMMA AheadOf ==
  ASSUME NEW i \in 0..IdMax, NEW j \in 1..IdMax, NEW n \in Nat, n < IdMax, Ahead(i, j, n)
  PROVE  i # j /\ Ahead(i, NextId(j), n + 1)
<1>1. PICK d \in 1..n : j = i + d \/ j = i + d - IdMax
  BY DEF Ahead
<1>2. d \in Nat /\ d + 1 \in 1..(n + 1) /\ IdMax \in Nat
  BY UxbusAssumption
<1>3. NextId(j) = i + (d + 1) \/ NextId(j) = i + (d + 1) - IdMax
  BY <1>1, <1>2, NextIdIs
<1>4. i # j
  BY <1>1, <1>2
<1> QED
  BY <1>2, <1>3, <1>4 DEF Ahead

\* What most steps do: nothing new is under way, and no number changes.
LEMMA NumbersKept ==
  ASSUME Numbers, UNCHANGED <<cur, transId>>, UnderWay' \subseteq UnderWay,
         phase' = phase \/ (phase # "flush" /\ phase' \in {"idle", "pop", "read"} /\ phase # "idle")
  PROVE  Numbers'
BY DEF Numbers, Behind, Told, Ahead

\* Every step keeps the numbers apart.
LEMMA NumbersNext ==
  ASSUME QP!IInv, BusTyped, ThreadsInStep, Numbers, [Next]_vars
  PROVE  Numbers'
<1>0. UnderWay \subseteq Answers /\ \A f \in Answers : f.req \in 1..MaxRequests /\ f.id \in 0..IdMax
  BY UnderWayTyped DEF Answers
<1>1. CASE UNCHANGED vars
  <2>1. UnderWay' = UnderWay
    BY <1>1 DEF vars, queue, UnderWay
  <2> QED
    BY <1>1, <2>1, NumbersKept DEF vars
<1>2. ASSUME NEW k \in Kinds, Request(k) PROVE Numbers'
  <2>1. /\ cur'.id = transId /\ cur'.req = cur.req + 1 /\ cur.req \in Nat /\ transId \in 1..IdMax
        /\ phase = "idle" /\ phase' = "flush" /\ UNCHANGED transId
    BY <1>2, UxbusAssumption DEF Request, BusTyped, Answers, Zero
  <2>2. UnderWay' = UnderWay
    BY <1>2 DEF Request, Q!CallFlush, UnderWay
  <2>3. ASSUME NEW f \in UnderWay PROVE Behind(f)' /\ f.id # cur'.id
    <3>1. f.req \in Nat /\ f.id \in 0..IdMax /\ f.req <= cur.req /\ Ahead(f.id, transId, cur.req + 1 - f.req)
      BY <1>0, <2>1 DEF Numbers, Behind
    <3>2. cur.req + 1 - f.req < IdMax
      BY <1>2 DEF Request, NotARoundBehind, Outstanding
    <3>3. cur.req + 1 - f.req \in 1..(IdMax - 1) /\ f.id # transId
      BY <2>1, <3>1, <3>2, AheadOf, UxbusAssumption
    <3>4. cur'.req - f.req = cur.req + 1 - f.req
      BY <2>1, <3>1
    <3>5. Ahead(f.id, cur'.id, cur'.req - f.req)
      BY <2>1, <3>1, <3>4, Zenon
    <3>6. Ahead(f.id, cur.id, cur.req - f.req)'
      BY <3>5 DEF Ahead
    <3> QED
      BY <2>1, <3>3, <3>4, <3>6 DEF Behind
  <2> QED
    BY <2>1, <2>2, <2>3 DEF Numbers, Told
<1>3. CASE WriteFrame
  <2>1. /\ phase = "flush" /\ cur.id = transId /\ cur \in Answers /\ transId \in 1..IdMax /\ cur' = cur
        /\ phase' = "idle" \/ phase' = "read"
    BY <1>3 DEF WriteFrame, BusTyped, Numbers
  <2>2. ASSUME NEW f \in UnderWay
        PROVE  /\ cur.req - f.req \in 1..(IdMax - 1) /\ f.id # cur.id
               /\ Ahead(f.id, transId, cur.req - f.req)
               /\ Ahead(f.id, NextId(transId), cur.req - f.req + 1)
    <3>1. cur.req - f.req \in 1..(IdMax - 1) /\ Ahead(f.id, transId, cur.req - f.req) /\ f.id \in 0..IdMax
      BY <1>0, <2>1 DEF Numbers, Behind
    <3>2. f.id # transId /\ Ahead(f.id, NextId(transId), cur.req - f.req + 1)
      BY <2>1, <3>1, AheadOf, UxbusAssumption
    <3> QED
      BY <2>1, <3>1, <3>2
  <2>3. CASE transId' = transId /\ pending' = pending
    <3>1. UnderWay' = UnderWay
      BY <1>3, <2>3 DEF WriteFrame, UnderWay, queue
    <3>2. phase' = "idle"
      BY <1>3, <2>3, AppendProperties DEF WriteFrame, BusTyped
    <3>3. ASSUME NEW f \in UnderWay PROVE Behind(f)'
      <4>1. cur.req \in Int /\ f.req \in Int /\ f.req <= cur.req
            /\ 1..(cur.req - f.req) \subseteq 1..(cur.req + 1 - f.req)
        BY <1>0, <2>1, <2>2
      <4>2. Ahead(f.id, transId, cur.req + 1 - f.req)
        BY <2>2, <4>1 DEF Ahead
      <4> QED
        BY <2>1, <2>3, <3>2, <4>1, <4>2 DEF Behind, Ahead
    <3> QED
      BY <3>1, <3>2, <3>3 DEF Numbers
  <2>4. CASE transId' = NextId(transId) /\ pending' = Append(pending, cur) /\ phase' = "read"
    <3>1. UnderWay' \subseteq UnderWay \cup {cur}
      BY <1>3, <2>1, <2>4, Ranges DEF WriteFrame, UnderWay, queue, BusTyped
    <3>2. ASSUME NEW f \in UnderWay PROVE Behind(f)' /\ Told(f)'
      <4>1. cur.req \in Int /\ f.req \in Int /\ f.req <= cur.req
            /\ cur.req - f.req + 1 = cur.req + 1 - f.req
        BY <1>0, <2>1, <2>2
      <4> QED
        BY <2>1, <2>2, <2>4, <4>1 DEF Behind, Ahead, Told
    <3>3. Behind(cur)' /\ Told(cur)'
      <4>1. cur.req \in Int /\ cur.req + 1 - cur.req = 1 /\ 1 \in 1..1
        BY <1>0, <2>1
      <4>2. transId' = cur.id + 1 \/ transId' = cur.id + 1 - IdMax
        BY <2>1, <2>4, NextIdIs, UxbusAssumption
      <4> QED
        BY <2>1, <2>4, <4>1, <4>2 DEF Behind, Ahead, Told
    <3> QED
      BY <2>1, <2>4, <3>1, <3>2, <3>3 DEF Numbers
  <2> QED
    BY <1>3, <2>3, <2>4 DEF WriteFrame
<1>4. CASE ReadFrame
  <2>1. UnderWay' = UnderWay
    BY <1>4 DEF ReadFrame, Q!CallPop, UnderWay
  <2> QED
    BY <1>4, <2>1, NumbersKept DEF ReadFrame
<1>5. CASE CheckFrame \/ Timeout
  <2>1. UnderWay' = UnderWay
    BY <1>5 DEF CheckFrame, Timeout, queue, UnderWay
  <2> QED
    BY <1>5, <2>1, NumbersKept DEF CheckFrame, Timeout
<1>6. CASE Receive
  <2>1. data'["recv"] = Head(wire)
    BY <1>6 DEF Receive, Q!CallPush, QP!IInv, QP!TypeOK, Threads
  <2>2. UnderWay' \subseteq UnderWay
    BY <1>6, <2>1, Ranges DEF Receive, UnderWay, BusTyped
  <2> QED
    BY <1>6, <2>2, NumbersKept DEF Receive
<1>7. CASE Pushed
  <2>1. data'["recv"] = data["recv"]
    BY <1>7 DEF Pushed, Q!CallPush, queue, QP!IInv, QP!TypeOK, Threads
  <2>2. UnderWay' \subseteq UnderWay
    BY <1>7, <2>1 DEF Pushed, UnderWay
  <2> QED
    BY <1>7, <2>2, NumbersKept DEF Pushed
<1>8. CASE GiveUp \/ Disconnect
  <2>1. UnderWay' \subseteq UnderWay
    BY <1>8 DEF GiveUp, Disconnect, UnderWay, queue
  <2> QED
    BY <1>8, <2>1, NumbersKept DEF GiveUp, Disconnect
<1>9. CASE QueueStep
  <2>1. data'["recv"] = data["recv"]
    BY <1>9, RecvStep, RequestStep DEF QueueStep, Threads
  <2>2. UnderWay' = UnderWay
    BY <1>9, <2>1 DEF QueueStep, UnderWay
  <2> QED
    BY <1>9, <2>2, NumbersKept DEF QueueStep
<1>10. CASE Answer
  <2>1. UnderWay' \subseteq UnderWay
    <3>1. /\ Range(Tail(pending)) \subseteq Range(pending)
          /\ Range(Append(wire, Head(pending))) \subseteq Range(wire) \cup Range(pending)
      BY <1>10, Ranges, HeadTailProperties DEF Answer, BusTyped
    <3> QED
      BY <1>10, <3>1 DEF Answer, UnderWay, queue
  <2> QED
    BY <1>10, <2>1, NumbersKept DEF Answer
<1> QED
  BY <1>1, <1>2, <1>3, <1>4, <1>5, <1>6, <1>7, <1>8, <1>9, <1>10 DEF Next

-----------------------------------------------------------------------------
(* What is read.                                                            *)

\* Every step keeps what is in the queue, and read of it, apart from other requests.
LEMMA CellsNext ==
  ASSUME QP!IInv, BusTyped, ThreadsInStep, Numbers, Cells, [Next]_vars
  PROVE  Cells'
<1>0. /\ phase \in {"idle", "flush", "read", "pop"}
      /\ pc \in [Threads -> QP!Steps] /\ "recv" \in Threads /\ "request" \in Threads
  BY DEF BusTyped, QP!IInv, QP!TypeOK, Threads
<1>1. CASE UNCHANGED vars
  BY <1>1 DEF vars, queue, Cells, Told
<1>2. ASSUME NEW k \in Kinds, Request(k) PROVE Cells'
  BY <1>0, <1>2 DEF Request, Q!CallFlush, Q!Goto, Cells
<1>3. CASE WriteFrame \/ CheckFrame \/ Timeout
  BY <1>3 DEF WriteFrame, CheckFrame, Timeout, queue, Cells, Told
<1>4. CASE ReadFrame
  <2>1. phase = "read" /\ phase' = "pop" /\ pc'["request"] = "pop" /\ UNCHANGED <<cur, buf>>
    BY <1>0, <1>4 DEF ReadFrame, Q!CallPop, Q!Goto, Q!fields
  <2> QED
    BY <2>1 DEF Cells, Told
<1>5. CASE Receive \/ Pushed
  <2>1. pc'["request"] = pc["request"] /\ data'["request"] = data["request"] /\ UNCHANGED <<cur, buf, phase>>
    BY <1>0, <1>5 DEF Receive, Pushed, Q!CallPush, Q!Goto, Q!fields, queue, QP!IInv, QP!TypeOK
  <2> QED
    BY <2>1 DEF Cells, Told
<1>6. CASE GiveUp \/ Disconnect \/ Answer
  BY <1>6 DEF GiveUp, Disconnect, Answer, queue, Cells, Told
<1>7. CASE QueueStep /\ Q!Step("recv")
  <2>1. /\ pc'["request"] = pc["request"] /\ data' = data /\ UNCHANGED <<cur, phase>>
        /\ \A i \in QP!Slots : buf'[i] \in {buf[i], data["recv"], Empty, Torn}
    BY <1>7, RecvStep DEF QueueStep
  <2>2. phase # "idle" => Told(data["recv"])
    <3>1. holding
      BY <1>7, RecvStep DEF ThreadsInStep
    <3> QED
      BY <3>1 DEF Numbers, UnderWay
  <2> QED
    BY <2>1, <2>2 DEF Cells, Told
<1>8. CASE QueueStep /\ Q!Step("request")
  <2>1. UNCHANGED <<cur, phase>> /\ ((Flushing /\ phase = "flush") \/ (Popping /\ phase = "pop"))
    BY <1>8, RequestStep DEF QueueStep
  <2>2. CASE Flushing /\ phase = "flush"
    BY <2>1, <2>2 DEF Flushing, Cells, Told
  <2>3. CASE Popping /\ phase = "pop"
    BY <2>1, <2>3 DEF Popping, Cells, Told
  <2> QED
    BY <2>1, <2>2, <2>3
<1> QED
  BY <1>1, <1>2, <1>3, <1>4, <1>5, <1>6, <1>7, <1>8 DEF Next, QueueStep, Threads

\* Of what a request may have read only its own answer ends it.
LEMMA HeaderTells ==
  ASSUME BusTyped, phase = "pop", Told(data["request"]), CheckHeader(Header(data["request"])) # "ERR_NUM"
  PROVE  CheckHeader(Header(data["request"])) = "answered" /\ Header(data["request"]) = cur
<1> DEFINE c == data["request"]
<1>1. cur \in Answers /\ cur.id \in 1..IdMax /\ cur \notin {Empty, Torn}
  BY UxbusAssumption DEF BusTyped
<1>2. Header(c).id = cur.id
  BY DEF CheckHeader
<1>3. c \notin {Empty, Torn}
  BY <1>1, <1>2 DEF Header
<1>4. c = cur
  BY <1>2, <1>3 DEF Header, Told
<1> QED
  BY <1>1, <1>3, <1>4 DEF Header, CheckHeader

\* Every step keeps how a request has ended.
LEMMA EndsNext ==
  ASSUME BusTyped, Cells, Ends, [Next]_vars
  PROVE  Ends'
<1> USE DEF Ends, NoHeaderErrors
<1>1. CASE UNCHANGED <<result, accepted, cur>>
  BY <1>1
<1>2. ASSUME NEW k \in Kinds, Request(k) PROVE Ends'
  BY <1>2 DEF Request
<1>3. CASE WriteFrame \/ Timeout
  BY <1>3 DEF WriteFrame, Timeout
<1>4. CASE CheckFrame
  BY <1>4, HeaderTells DEF CheckFrame, Cells
<1>5. CASE ReadFrame \/ Receive \/ Pushed \/ GiveUp \/ Disconnect \/ QueueStep \/ Answer
  BY <1>1, <1>5 DEF ReadFrame, Receive, Pushed, GiveUp, Disconnect, QueueStep, Answer
<1> QED
  BY <1>1, <1>2, <1>3, <1>4, <1>5 DEF Next, vars

\* The invariant holds in every reachable state.
THEOREM BusInvariance == Spec => [](QP!IInv /\ BusInv)
<1>1. QP!IInv /\ BusInv /\ [Next]_vars => (QP!IInv /\ BusInv)'
  BY QueueNext, BusTypedNext, ThreadsNext, NumbersNext, CellsNext, EndsNext DEF BusInv
<1> QED
  BY <1>1, InitBus, PTL DEF Spec

\* A request takes no answer but its own, for every number of slots and of transaction
\* numbers, as long as the arm is not a whole round of them behind.
THEOREM OwnAnswer == Spec => []AnswerMatches
<1>1. BusInv => AnswerMatches
  BY DEF BusInv, Ends, AnswerMatches
<1> QED
  BY <1>1, BusInvariance, PTL

\* No request ends with an error of its header, although the slots of the queue may hold
\* zeros and standard Modbus TCP has protocol number 0.
THEOREM HeadersFit == Spec => []NoHeaderErrors
<1>1. BusInv => NoHeaderErrors
  BY DEF BusInv, Ends
<1> QED
  BY <1>1, BusInvariance, PTL

-----------------------------------------------------------------------------
(* When nothing earlier is under way.                                       *)

\* The flush has nobody to race with.
Flushed ==
  /\ pending = <<>> /\ wire = <<>> /\ ~holding
  /\ pc["request"] \in {"head=0", "tail=0", "memset", "idle"} => cnt = 0
  /\ pc["request"] \in {"tail=0", "memset", "idle"} => head = 0
  /\ pc["request"] \in {"memset", "idle"} => tail = 0

\* The answer is still to come, or lost.
Coming ==
  /\ phase = "read" /\ ~holding /\ cnt = 0 /\ head = 0 /\ tail = 0
  /\ \/ pending = <<cur>> /\ wire = <<>>
     \/ pending = <<>> /\ wire \in {<<cur>>, <<>>}

\* It is being pushed into the first slot.
Pushing ==
  /\ phase = "read" /\ pending = <<>> /\ wire = <<>>
  /\ pc["recv"] # "idle" /\ data["recv"] = cur
  /\ cnt = 0 /\ tail = 0
  /\ head = IF pc["recv"] \in {"cnt", "cnt+1"} THEN 1 ELSE 0
  /\ pc["recv"] \in {"copying", "head+1", "cnt+1"} => reg["recv"] = 0
  /\ pc["recv"] = "copying" => buf[0] = Torn
  /\ pc["recv"] \in {"head", "head+1", "cnt", "cnt+1"} => buf[0] = cur

\* It is there, and is read.
There ==
  /\ pending = <<>> /\ wire = <<>>
  /\ pc["recv"] = "idle" /\ (holding => ret["recv"] = 0)
  /\ phase = "read" => cnt = 1
  /\ phase = "read" \/ pc["request"] \in {"pop", "empty", "read"} => tail = 0 /\ buf[0] = cur
  /\ phase = "pop" /\ pc["request"] \in {"tail+1", "cnt-1", "idle"} => data["request"] = cur

\* The inductive invariant of AnswerIsNext.
CleanInv ==
  clean => /\ phase = "flush" => Flushed
           /\ phase \in {"read", "pop"} => Coming \/ Pushing \/ There

Underway == Coming \/ Pushing \/ There

\* The push of the one answer that is under way.
LEMMA PushingStep ==
  ASSUME QP!IInv, BusTyped, ThreadsInStep, Pushing, QueueStep, Q!Step("recv")
  PROVE  Pushing' \/ There'
<1> DEFINE t == "recv"
<1> USE DEF Pushing, QP!Goto, QP!Return, QP!fields, QP!Slots, Threads
<1>0. /\ QP!Step(t) /\ Total \in Nat \ {0} /\ cur # Torn
      /\ pc \in [Threads -> QP!Steps] /\ reg \in [Threads -> 0..Total] /\ data \in [Threads -> QP!Cells]
      /\ buf \in [QP!Slots -> QP!Cells] /\ ret \in [Threads -> {0, -1}]
      /\ pc[t] \in QP!PushSteps \cup {"push"} /\ phase = "read" /\ 0 \in QP!Slots
      /\ UNCHANGED <<cur, phase, pending, wire>>
  BY ThisQueue, UxbusAssumption DEF QP!IInv, QP!TypeOK, ThreadsInStep, QueueStep, BusTyped
<1>1. CASE QP!Acquire(t)
  BY <1>0, <1>1 DEF QP!Acquire
<1>2. CASE QP!PushFull(t)
  BY <1>0, <1>2 DEF QP!PushFull, QP!Room, QP!Wrap
<1>3. CASE QP!PushCopy(t)
  BY <1>0, <1>3 DEF QP!PushCopy
<1>4. CASE QP!PushCopied(t)
  BY <1>0, <1>4 DEF QP!PushCopied
<1>5. CASE QP!PushReadHead(t)
  BY <1>0, <1>5 DEF QP!PushReadHead
<1>6. CASE QP!PushWriteHead(t)
  BY <1>0, <1>6 DEF QP!PushWriteHead
<1>7. CASE QP!PushReadCnt(t)
  BY <1>0, <1>7 DEF QP!PushReadCnt
<1>8. CASE QP!PushWriteCnt(t)
  BY <1>0, <1>8 DEF QP!PushWriteCnt, There
<1>9. CASE QP!PopEmpty(t) \/ QP!PopRead(t) \/ QP!PopTail(t) \/ QP!PopCnt(t)
  BY <1>0, <1>9 DEF QP!PopEmpty, QP!PopRead, QP!PopTail, QP!PopCnt, QP!PushSteps
<1>10. CASE QP!FlushCnt(t) \/ QP!FlushHead(t) \/ QP!FlushTail(t) \/ QP!FlushMemset(t)
  BY <1>0, <1>10 DEF QP!FlushCnt, QP!FlushHead, QP!FlushTail, QP!FlushMemset, QP!PushSteps
<1> QED
  BY <1>0, <1>1, <1>2, <1>3, <1>4, <1>5, <1>6, <1>7, <1>8, <1>9, <1>10 DEF QP!Step

\* The flush before it, and the pop after.
LEMMA AloneStep ==
  ASSUME QP!IInv, BusTyped, ThreadsInStep, QueueStep, Q!Step("request")
  PROVE  /\ phase = "flush" /\ Flushed => Flushed'
         /\ phase = "pop" /\ There => There'
<1> DEFINE t == "request"
<1> USE DEF QP!Goto, QP!Return, QP!fields, QP!Slots, Threads
<1>0. /\ QP!Step(t) /\ Total \in Nat \ {0}
      /\ pc \in [Threads -> QP!Steps] /\ data \in [Threads -> QP!Cells] /\ ret \in [Threads -> {0, -1}]
      /\ phase = "flush" => pc[t] \in QP!FlushSteps \cup {"idle"}
      /\ phase = "pop" => pc[t] \in QP!PopSteps \cup {"pop", "idle"}
      /\ pc[t] \in {"pop", "empty"} => cnt > 0
      /\ UNCHANGED <<cur, phase, pending, wire>>
      /\ holding' <=> holding
  BY ThisQueue, UxbusAssumption DEF QP!IInv, QP!TypeOK, ThreadsInStep, QueueStep
<1>1. ASSUME phase = "flush", Flushed PROVE Flushed'
  <2>1. CASE QP!FlushCnt(t) \/ QP!FlushHead(t) \/ QP!FlushTail(t) \/ QP!FlushMemset(t)
    BY <1>0, <1>1, <2>1 DEF QP!FlushCnt, QP!FlushHead, QP!FlushTail, QP!FlushMemset, Flushed
  <2>2. CASE ~(QP!FlushCnt(t) \/ QP!FlushHead(t) \/ QP!FlushTail(t) \/ QP!FlushMemset(t))
    BY <1>0, <1>1, <2>2 DEF QP!Step, QP!Acquire, QP!PushFull, QP!PushCopy, QP!PushCopied, QP!PushReadHead,
      QP!PushWriteHead, QP!PushReadCnt, QP!PushWriteCnt, QP!PopEmpty, QP!PopRead, QP!PopTail, QP!PopCnt,
      QP!FlushSteps
  <2> QED
    BY <2>1, <2>2
<1>2. ASSUME phase = "pop", There PROVE There'
  <2>1. CASE QP!Acquire(t)
    BY <1>0, <1>2, <2>1 DEF QP!Acquire, There
  <2>2. CASE QP!PopEmpty(t)
    BY <1>0, <1>2, <2>2 DEF QP!PopEmpty, QP!Some, QP!Wrap, There
  <2>3. CASE QP!PopRead(t)
    BY <1>0, <1>2, <2>3 DEF QP!PopRead, There
  <2>4. CASE QP!PopTail(t) \/ QP!PopCnt(t)
    BY <1>0, <1>2, <2>4 DEF QP!PopTail, QP!PopCnt, There
  <2>5. CASE ~(QP!Acquire(t) \/ QP!PopEmpty(t) \/ QP!PopRead(t) \/ QP!PopTail(t) \/ QP!PopCnt(t))
    BY <1>0, <1>2, <2>5 DEF QP!Step, QP!PushFull, QP!PushCopy, QP!PushCopied, QP!PushReadHead,
      QP!PushWriteHead, QP!PushReadCnt, QP!PushWriteCnt, QP!FlushCnt, QP!FlushHead, QP!FlushTail,
      QP!FlushMemset, QP!PopSteps
  <2> QED
    BY <2>1, <2>2, <2>3, <2>4, <2>5
<1> QED
  BY <1>1, <1>2

\* Every step keeps it.
LEMMA CleanNext ==
  ASSUME QP!IInv, BusInv, CleanInv, [Next]_vars
  PROVE  CleanInv'
<1> USE DEF BusInv
<1>0. /\ pc \in [Threads -> QP!Steps] /\ "recv" \in Threads /\ "request" \in Threads
      /\ data \in [Threads -> QP!Cells] /\ cnt \in Nat
      /\ phase \in {"idle", "flush", "read", "pop"}
  BY UxbusAssumption DEF BusTyped, QP!IInv, QP!TypeOK, Threads
<1>1. CASE UNCHANGED vars
  <2>1. /\ UNCHANGED <<cnt, head, tail, buf, pc, reg, data, ret, cur, phase, pending, wire>>
        /\ holding' <=> holding
        /\ clean' <=> clean
    BY <1>1 DEF vars, queue
  <2> QED
    BY <2>1 DEF CleanInv, Flushed, Coming, Pushing, There
<1>2. ASSUME NEW k \in Kinds, Request(k) PROVE CleanInv'
  <2>1. /\ phase' = "flush" /\ pc'["request"] = "cnt=0" /\ UNCHANGED <<pending, wire>>
        /\ holding' <=> holding
        /\ clean' <=> (Outstanding = {})
    BY <1>0, <1>2 DEF Request, Q!CallFlush, Q!Goto
  <2>2. Outstanding = {} => pending = <<>> /\ wire = <<>> /\ ~holding
    <3>1. UnderWay # {} => Outstanding # {}
      BY DEF Outstanding
    <3>2. /\ pending # <<>> => Head(pending) \in UnderWay
          /\ wire # <<>> => Head(wire) \in UnderWay
          /\ holding => data["recv"] \in UnderWay
      BY Ranges DEF UnderWay, BusTyped
    <3> QED
      BY <3>1, <3>2
  <2> QED
    BY <2>1, <2>2 DEF CleanInv, Flushed
<1>3. CASE WriteFrame
  <2>1. CASE phase' = "read"
    <3>1. /\ phase = "flush" /\ pc["request"] = "idle" /\ UNCHANGED <<cnt, head, tail, cur, wire>>
          /\ pending' = Append(pending, cur)
          /\ holding' <=> holding
          /\ clean' <=> clean
      BY <1>3, <2>1 DEF WriteFrame, queue
    <3>2. Append(<<>>, cur) = <<cur>>
      OBVIOUS
    <3>3. clean => Coming'
      BY <2>1, <3>1, <3>2 DEF CleanInv, Flushed, Coming
    <3> QED
      BY <2>1, <3>1, <3>3 DEF CleanInv
  <2>2. CASE phase' = "idle"
    BY <2>2 DEF CleanInv
  <2> QED
    BY <1>3, <2>1, <2>2 DEF WriteFrame
<1>4. CASE ReadFrame
  <2>1. /\ phase = "read" /\ cnt # 0 /\ phase' = "pop" /\ pc'["request"] = "pop" /\ pc'["recv"] = pc["recv"]
        /\ UNCHANGED <<cur, pending, wire, tail, buf, ret>>
        /\ holding' <=> holding
        /\ clean' <=> clean
    BY <1>0, <1>4 DEF ReadFrame, Q!CallPop, Q!Goto, Q!fields
  <2>2. clean => There'
    BY <2>1 DEF CleanInv, Coming, Pushing, There
  <2> QED
    BY <2>1, <2>2 DEF CleanInv
<1>5. CASE CheckFrame
  <2>1. /\ phase = "pop" /\ pc["request"] = "idle"
        /\ clean' <=> clean
    BY <1>5 DEF CheckFrame
  <2>2. clean => CheckHeader(Header(data["request"])) = "answered"
    <3>1. clean => data["request"] = cur
      BY <2>1 DEF CleanInv, Coming, Pushing, There
    <3>2. cur \notin {Empty, Torn}
      BY <2>1, UxbusAssumption DEF BusTyped
    <3> QED
      BY <3>1, <3>2 DEF Header, CheckHeader
  <2>3. clean => phase' = "idle"
    BY <1>5, <2>2 DEF CheckFrame
  <2> QED
    BY <2>1, <2>3 DEF CleanInv
<1>6. CASE Timeout
  BY <1>6 DEF Timeout, CleanInv
<1>7. CASE Receive
  <2>1. /\ wire # <<>> /\ wire' = Tail(wire) /\ pc'["recv"] = "push" /\ data'["recv"] = Head(wire)
        /\ UNCHANGED <<cnt, head, tail, cur, phase, pending>>
        /\ clean' <=> clean
    BY <1>0, <1>7 DEF Receive, Q!CallPush, Q!Goto, Q!fields
  <2>2. Head(<<cur>>) = cur /\ Tail(<<cur>>) = <<>>
    OBVIOUS
  <2>3. clean /\ phase = "flush" => FALSE
    BY <2>1 DEF CleanInv, Flushed
  <2>4. clean /\ phase \in {"read", "pop"} => Pushing'
    BY <2>1, <2>2 DEF CleanInv, Coming, Pushing, There
  <2> QED
    BY <2>1, <2>3, <2>4 DEF CleanInv
<1>8. CASE Pushed
  <2>1. /\ holding /\ pc["recv"] = "idle" /\ UNCHANGED <<cur, phase, pending, wire>>
        /\ clean' <=> clean
    BY <1>8 DEF Pushed
  <2>2. clean /\ phase = "flush" => FALSE
    BY <2>1 DEF CleanInv, Flushed
  <2>3. clean /\ phase \in {"read", "pop"} => There'
    <3> SUFFICES ASSUME clean, phase \in {"read", "pop"} PROVE There'
      OBVIOUS
    <3>1. There
      BY <2>1 DEF CleanInv, Coming, Pushing
    <3>2. ret["recv"] = 0
      BY <2>1, <3>1 DEF There
    <3>3. UNCHANGED <<cnt, tail, buf, pc, data>> /\ ~holding'
      BY <1>8, <3>2 DEF Pushed, queue
    <3> QED
      BY <2>1, <3>1, <3>3 DEF There
  <2> QED
    BY <2>1, <2>2, <2>3 DEF CleanInv
<1>9. CASE GiveUp \/ Disconnect
  <2>1. /\ UNCHANGED <<cnt, head, tail, buf, pc, data, cur, phase, pending, wire>>
        /\ ~holding'
        /\ pc["recv"] = "idle"
        /\ clean' <=> clean
    BY <1>9 DEF GiveUp, Disconnect, queue, ThreadsInStep
  <2>2. Flushed => Flushed'
    BY <2>1 DEF Flushed
  <2>3. Underway => Underway'
    BY <2>1 DEF Underway, Coming, Pushing, There
  <2> QED
    BY <2>1, <2>2, <2>3 DEF CleanInv, Underway
<1>10. CASE QueueStep /\ Q!Step("recv")
  <2>1. /\ pc["recv"] # "idle" /\ holding /\ phase' = phase
        /\ clean' <=> clean
    BY <1>10, RecvStep DEF QueueStep, ThreadsInStep
  <2>2. clean /\ phase = "flush" => FALSE
    BY <2>1 DEF CleanInv, Flushed
  <2>3. clean /\ phase \in {"read", "pop"} => Pushing' \/ There'
    BY <1>10, <2>1, PushingStep DEF CleanInv, Coming, There
  <2> QED
    BY <2>1, <2>2, <2>3 DEF CleanInv
<1>11. CASE QueueStep /\ Q!Step("request")
  <2>1. /\ phase' = phase /\ phase \in {"flush", "pop"}
        /\ clean' <=> clean
    BY <1>11, RequestStep DEF QueueStep
  <2>2. phase = "pop" /\ clean => There
    BY DEF CleanInv, Coming, Pushing
  <2> QED
    BY <1>11, <2>1, <2>2, AloneStep DEF CleanInv
<1>12. CASE Answer
  <2>1. /\ UNCHANGED <<cnt, head, tail, cur, phase>> /\ pending # <<>> /\ pending' = Tail(pending)
        /\ wire' = Append(wire, Head(pending)) \/ wire' = wire
        /\ holding' <=> holding
        /\ clean' <=> clean
    BY <1>12 DEF Answer, queue
  <2>2. Head(<<cur>>) = cur /\ Tail(<<cur>>) = <<>> /\ Append(<<>>, cur) = <<cur>>
    OBVIOUS
  <2>3. clean /\ phase = "flush" => FALSE
    BY <2>1 DEF CleanInv, Flushed
  <2>4. clean /\ phase \in {"read", "pop"} => Coming'
    BY <2>1, <2>2 DEF CleanInv, Coming, Pushing, There
  <2> QED
    BY <2>1, <2>3, <2>4 DEF CleanInv
<1> QED
  BY <1>1, <1>2, <1>3, <1>4, <1>5, <1>6, <1>7, <1>8, <1>9, <1>10, <1>11, <1>12 DEF Next, QueueStep, Threads

\* After a flush with nothing earlier under way the answer, once it is pushed, is the only
\* frame in the queue and the next to be popped, whatever earlier flushes have left.
THEOREM NextIsAnswer == Spec => []AnswerIsNext
<1>1. Init => CleanInv
  BY DEF Init, CleanInv
<1>2. BusInv /\ CleanInv => AnswerIsNext
  <2> SUFFICES ASSUME CleanInv, clean, phase = "read", pending = <<>>, wire = <<>>, cnt # 0
               PROVE  cnt = 1 /\ buf[IF tail >= Total THEN 0 ELSE tail] = cur
    BY DEF AnswerIsNext
  <2>1. There
    BY DEF CleanInv, Coming, Pushing
  <2> QED
    BY <2>1, UxbusAssumption DEF There
<1>3. QP!IInv /\ BusInv /\ CleanInv /\ [Next]_vars => CleanInv'
  BY CleanNext
<1> QED
  BY <1>1, <1>2, <1>3, BusInvariance, PTL DEF Spec
=============================================================================
