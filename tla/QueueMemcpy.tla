----------------------------- MODULE QueueMemcpy -----------------------------
(***************************************************************************)
(* The ring buffer between the thread that receives from a socket and the  *)
(* threads that read what it received.  push and pop hold the mutex; flush *)
(* does not, so its assignments may fall between those of a push that is   *)
(* under way.  A step is an access to the shared fields; count and head    *)
(* are incremented with a read and a write, as the machine does.           *)
(***************************************************************************)
EXTENDS Integers, Sequences

CONSTANTS Total,   \* slots, total_
          Frames,  \* what is pushed
          Empty,   \* a slot memset has zeroed
          Torn,    \* a slot written by a copy and a memset at once
          Threads,
          Uses     \* ways to use a queue: for each thread, the operations it calls

ASSUME QueueAssumption ==
  /\ Total \in Nat \ {0}
  /\ Uses \subseteq [Threads -> SUBSET {"push", "pop", "flush"}]
  /\ "free" \notin Threads
  /\ Empty # Torn /\ Empty \notin Frames /\ Torn \notin Frames
  \* Whoever flushes is the only one to pop: it is the thread of the request.
  /\ \A use \in Uses : \A t, u \in Threads :
       "flush" \in use[t] /\ use[u] \cap {"pop", "flush"} # {} => u = t

VARIABLES
  calls,            \* the one of Uses this queue is put to, which never changes
  cnt, head, tail,  \* cnt_, head_, tail_
  buf,              \* buf_, one frame a slot
  mutex,            \* its owner, or "free"
  pc,               \* where each thread is in its operation
  reg,              \* what each thread has read of a field, or the slot it copies to
  data,             \* the frame each thread pushes, or popped last
  ret               \* what the last operation of each thread returned

fields == <<cnt, head, tail, buf>>
vars   == <<calls, cnt, head, tail, buf, mutex, pc, reg, data, ret>>

Slots == 0..(Total - 1)
Cells == Frames \cup {Empty, Torn}

PushSteps  == {"full", "copy", "copying", "head", "head+1", "cnt", "cnt+1"}
PopSteps   == {"empty", "read", "tail+1", "cnt-1"}
FlushSteps == {"cnt=0", "head=0", "tail=0", "memset"}
Steps == PushSteps \cup PopSteps \cup FlushSteps \cup {"idle", "push", "pop"}

Goto(t, s) == pc' = [pc EXCEPT ![t] = s]
Return(t, code) == Goto(t, "idle") /\ ret' = [ret EXCEPT ![t] = code]

\* Mutant: no mutex.
NoLock(t) == mutex' = mutex

\* std::lock_guard, and its destructor.
Lock(t) == mutex = "free" /\ mutex' = t

Unlock(t) == mutex' = "free"

-----------------------------------------------------------------------------
(* Calls. *)

CallPush(t, f) ==
  /\ pc[t] = "idle" /\ "push" \in calls[t]
  /\ Goto(t, "push")
  /\ data' = [data EXCEPT ![t] = f]
  /\ UNCHANGED <<fields, mutex, reg, ret>>

CallPop(t) ==
  /\ pc[t] = "idle" /\ "pop" \in calls[t]
  /\ Goto(t, "pop")
  /\ UNCHANGED <<fields, mutex, reg, data, ret>>

CallFlush(t) ==
  /\ pc[t] = "idle" /\ "flush" \in calls[t]
  /\ Goto(t, "cnt=0")
  /\ UNCHANGED <<fields, mutex, reg, data, ret>>

Acquire(t) ==
  /\ pc[t] \in {"push", "pop"}
  /\ Lock(t)
  /\ Goto(t, IF pc[t] = "push" THEN "full" ELSE "empty")
  /\ UNCHANGED <<fields, reg, data, ret>>

-----------------------------------------------------------------------------
(* push *)

\* Mutants: one slot too many, and no wrap.
RoomForOneMore(t) == cnt <= Total
NoWrap(i) == i

Room(t) == cnt < Total

Wrap(i) == IF Total <= i THEN 0 ELSE i

PushFull(t) ==
  /\ pc[t] = "full"
  /\ IF Room(t)
     THEN head' = Wrap(head) /\ Goto(t, "copy") /\ UNCHANGED <<mutex, ret>>
     ELSE Unlock(t) /\ Return(t, -1) /\ UNCHANGED head
  /\ UNCHANGED <<cnt, tail, buf, reg, data>>

\* memcpy begins; until it ends the slot holds a part of either frame.
PushCopy(t) ==
  /\ pc[t] = "copy"
  /\ buf' = [buf EXCEPT ![head] = Torn]
  /\ reg' = [reg EXCEPT ![t] = head]
  /\ Goto(t, "copying")
  /\ UNCHANGED <<cnt, head, tail, mutex, data, ret>>

\* memcpy ends; if memset came in between, either may have had the last word.
PushCopied(t) ==
  /\ pc[t] = "copying"
  /\ \E cell \in IF buf[reg[t]] = Torn THEN {data[t]} ELSE {data[t], Empty, Torn} :
       buf' = [buf EXCEPT ![reg[t]] = cell]
  /\ Goto(t, "head")
  /\ UNCHANGED <<cnt, head, tail, mutex, reg, data, ret>>

PushReadHead(t) ==
  /\ pc[t] = "head"
  /\ reg' = [reg EXCEPT ![t] = head]
  /\ Goto(t, "head+1")
  /\ UNCHANGED <<fields, mutex, data, ret>>

PushWriteHead(t) ==
  /\ pc[t] = "head+1"
  /\ head' = reg[t] + 1
  /\ Goto(t, "cnt")
  /\ UNCHANGED <<cnt, tail, buf, mutex, reg, data, ret>>

PushReadCnt(t) ==
  /\ pc[t] = "cnt"
  /\ reg' = [reg EXCEPT ![t] = cnt]
  /\ Goto(t, "cnt+1")
  /\ UNCHANGED <<fields, mutex, data, ret>>

PushWriteCnt(t) ==
  /\ pc[t] = "cnt+1"
  /\ cnt' = reg[t] + 1
  /\ Unlock(t)
  /\ Return(t, 0)
  /\ UNCHANGED <<head, tail, buf, reg, data>>

-----------------------------------------------------------------------------
(* pop: its fields are those of the thread that flushes, or nobody flushes. *)

Some(t) == cnt > 0

PopEmpty(t) ==
  /\ pc[t] = "empty"
  /\ IF Some(t)
     THEN tail' = Wrap(tail) /\ Goto(t, "read") /\ UNCHANGED <<mutex, ret>>
     ELSE Unlock(t) /\ Return(t, -1) /\ UNCHANGED tail
  /\ UNCHANGED <<cnt, head, buf, reg, data>>

PopRead(t) ==
  /\ pc[t] = "read"
  /\ data' = [data EXCEPT ![t] = buf[tail]]
  /\ Goto(t, "tail+1")
  /\ UNCHANGED <<fields, mutex, reg, ret>>

PopTail(t) ==
  /\ pc[t] = "tail+1"
  /\ tail' = tail + 1
  /\ Goto(t, "cnt-1")
  /\ UNCHANGED <<cnt, head, buf, mutex, reg, data, ret>>

PopCnt(t) ==
  /\ pc[t] = "cnt-1"
  /\ cnt' = cnt - 1
  /\ Unlock(t)
  /\ Return(t, 0)
  /\ UNCHANGED <<head, tail, buf, reg, data>>

-----------------------------------------------------------------------------
(* flush *)

FlushCnt(t) ==
  /\ pc[t] = "cnt=0"
  /\ cnt' = 0
  /\ Goto(t, "head=0")
  /\ UNCHANGED <<head, tail, buf, mutex, reg, data, ret>>

FlushHead(t) ==
  /\ pc[t] = "head=0"
  /\ head' = 0
  /\ Goto(t, "tail=0")
  /\ UNCHANGED <<cnt, tail, buf, mutex, reg, data, ret>>

\* Mutant: the read index is left where it was.
FlushKeepsTail(t) ==
  /\ pc[t] = "tail=0"
  /\ Goto(t, "memset")
  /\ UNCHANGED <<fields, mutex, reg, data, ret>>

FlushTail(t) ==
  /\ pc[t] = "tail=0"
  /\ tail' = 0
  /\ Goto(t, "memset")
  /\ UNCHANGED <<cnt, head, buf, mutex, reg, data, ret>>

FlushMemset(t) ==
  /\ pc[t] = "memset"
  /\ buf' = [i \in Slots |-> Empty]
  /\ Return(t, 0)
  /\ UNCHANGED <<cnt, head, tail, mutex, reg, data>>

-----------------------------------------------------------------------------
Init ==
  /\ calls \in Uses
  /\ cnt = 0 /\ head = 0 /\ tail = 0
  /\ buf = [i \in Slots |-> Empty]
  /\ mutex = "free"
  /\ pc = [t \in Threads |-> "idle"]
  /\ reg = [t \in Threads |-> 0]
  /\ data = [t \in Threads |-> Empty]
  /\ ret = [t \in Threads |-> 0]

Step(t) ==
  \/ Acquire(t)
  \/ PushFull(t) \/ PushCopy(t) \/ PushCopied(t)
  \/ PushReadHead(t) \/ PushWriteHead(t) \/ PushReadCnt(t) \/ PushWriteCnt(t)
  \/ PopEmpty(t) \/ PopRead(t) \/ PopTail(t) \/ PopCnt(t)
  \/ FlushCnt(t) \/ FlushHead(t) \/ FlushTail(t) \/ FlushMemset(t)

Call(t) ==
  \/ \E f \in Frames : CallPush(t, f)
  \/ CallPop(t)
  \/ CallFlush(t)

Next == (\E t \in Threads : Call(t) \/ Step(t)) /\ UNCHANGED calls

Spec == Init /\ [][Next]_vars

-----------------------------------------------------------------------------
TypeOK ==
  /\ calls \in Uses
  /\ cnt \in 0..Total /\ head \in 0..Total /\ tail \in 0..Total
  /\ buf \in [Slots -> Cells]
  /\ mutex \in Threads \cup {"free"}
  /\ pc \in [Threads -> Steps]
  /\ reg \in [Threads -> 0..Total]
  /\ data \in [Threads -> Cells]
  /\ ret \in [Threads -> {0, -1}]

\* No copy reads or writes outside the buffer, however the assignments of flush
\* fall between those of a push.
CopiesStayInside ==
  \A t \in Threads :
    /\ pc[t] = "copy" => head \in Slots
    /\ pc[t] = "copying" => reg[t] \in Slots
    /\ pc[t] = "read" => tail \in Slots

Flushes == \E t \in Threads : "flush" \in calls[t]

\* The frames in the queue, oldest first, as a completed pop has left them.
popping == \E t \in Threads : pc[t] = "cnt-1"
Items ==
  LET first == IF popping THEN tail - 1 ELSE tail
  IN  [i \in 1..cnt |-> buf[(first + i - 1) % Total]]

\* Where nobody flushes the ring is a bounded queue: every push that returns 0 appends
\* its frame, every pop that returns 0 takes the oldest, one at a time.  Nothing is
\* promised of a queue that is flushed: a push under way may mix it up.
Queue == INSTANCE BoundedQueue WITH items <- IF Flushes THEN <<>> ELSE Items
IsBoundedQueue == Queue!Spec

\* And a pop hands out the oldest frame, in one piece.
PopsTheOldest ==
  ~Flushes => \A t \in Threads : pc[t] \in {"tail+1", "cnt-1"} => data[t] = Items[1]
=============================================================================
