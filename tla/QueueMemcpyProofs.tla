------------------------- MODULE QueueMemcpyProofs -------------------------
(***************************************************************************)
(* The ring buffer stays inside its memory, for every number of slots and  *)
(* every number of threads; and where nobody flushes it implements the     *)
(* bounded queue.                                                          *)
(***************************************************************************)
EXTENDS QueueMemcpy, SequenceTheorems, TLAPS

\* Inside push and pop a thread holds the mutex, and it is in them and in flush only
\* if it uses them.
Discipline ==
  \A t \in Threads :
    /\ pc[t] \in PushSteps \cup PopSteps => mutex = t
    /\ pc[t] \in PopSteps \cup {"pop"} => "pop" \in calls[t]
    /\ pc[t] \in FlushSteps => "flush" \in calls[t]

\* What a thread has checked of the fields still holds when it uses it: a flush only
\* makes room, and it is never between the steps of a pop.
Checked ==
  \A t \in Threads :
    /\ pc[t] \in {"copy", "copying", "head"} => head < Total
    /\ pc[t] \in {"copying", "head+1"} => reg[t] < Total
    /\ pc[t] \in {"copy", "copying", "head", "head+1", "cnt"} => cnt < Total
    /\ pc[t] = "cnt+1" => reg[t] < Total
    /\ pc[t] \in {"read", "tail+1"} => tail < Total
    /\ pc[t] \in {"read", "tail+1", "cnt-1"} => cnt > 0

\* The inductive invariant.
IInv == TypeOK /\ Discipline /\ Checked

\* The initial state.
LEMMA InitIInv == Init => IInv
BY QueueAssumption DEF Init, IInv, TypeOK, Discipline, Checked, Slots, Cells, Steps,
   PushSteps, PopSteps, FlushSteps

\* Two threads are not in push or pop at once, and none flushes while one pops.
LEMMA Exclusion ==
  ASSUME IInv, NEW t \in Threads, NEW u \in Threads, t # u
  PROVE  /\ ~(pc[t] \in PushSteps \cup PopSteps /\ pc[u] \in PushSteps \cup PopSteps)
         /\ ~(pc[t] \in FlushSteps /\ pc[u] \in PopSteps)
<1>1. pc[t] \in FlushSteps => "flush" \in calls[t]
  BY DEF IInv, Discipline
<1>2. pc[u] \in PopSteps => "pop" \in calls[u]
  BY DEF IInv, Discipline
<1>3. "flush" \in calls[t] /\ "pop" \in calls[u] => u = t
  BY QueueAssumption DEF IInv, TypeOK
<1>4. QED
  BY <1>1, <1>2, <1>3 DEF IInv, Discipline

\* Every step keeps the invariant.
LEMMA NextIInv ==
  ASSUME IInv, NEW t \in Threads, Call(t) \/ Step(t), UNCHANGED calls
  PROVE  IInv'
<1> USE QueueAssumption
<1> USE DEF IInv, TypeOK, Discipline, Checked, Goto, fields, Steps, PushSteps, PopSteps, FlushSteps
<1>0. \A u \in Threads : u # t =>
        /\ ~(pc[t] \in PushSteps \cup PopSteps /\ pc[u] \in PushSteps \cup PopSteps)
        /\ ~(pc[t] \in FlushSteps /\ pc[u] \in PopSteps)
  BY Exclusion
<1>1. ASSUME NEW f \in Frames, CallPush(t, f) PROVE IInv'
  BY <1>1 DEF CallPush, Cells
<1>2. CASE CallPop(t)
  BY <1>0, <1>2 DEF CallPop
<1>3. CASE CallFlush(t)
  BY <1>0, <1>3 DEF CallFlush
<1>4. CASE Acquire(t)
  BY <1>0, <1>4 DEF Acquire, Lock
<1>5. CASE PushFull(t)
  BY <1>0, <1>5 DEF PushFull, Room, Wrap, Unlock, Return
<1>6. CASE PushCopy(t)
  BY <1>0, <1>6 DEF PushCopy, Slots, Cells
<1>7. CASE PushCopied(t)
  BY <1>0, <1>7 DEF PushCopied, Slots, Cells
<1>8. CASE PushReadHead(t)
  BY <1>0, <1>8 DEF PushReadHead
<1>9. CASE PushWriteHead(t)
  BY <1>0, <1>9 DEF PushWriteHead
<1>10. CASE PushReadCnt(t)
  BY <1>0, <1>10 DEF PushReadCnt
<1>11. CASE PushWriteCnt(t)
  BY <1>0, <1>11 DEF PushWriteCnt, Unlock, Return
<1>12. CASE PopEmpty(t)
  BY <1>0, <1>12 DEF PopEmpty, Some, Wrap, Unlock, Return
<1>13. CASE PopRead(t)
  BY <1>0, <1>13 DEF PopRead, Slots
<1>14. CASE PopTail(t)
  BY <1>0, <1>14 DEF PopTail
<1>15. CASE PopCnt(t)
  BY <1>0, <1>15 DEF PopCnt, Unlock, Return
<1>16. CASE FlushCnt(t)
  BY <1>0, <1>16 DEF FlushCnt
<1>17. CASE FlushHead(t)
  BY <1>0, <1>17 DEF FlushHead
<1>18. CASE FlushTail(t)
  BY <1>0, <1>18 DEF FlushTail
<1>19. CASE FlushMemset(t)
  BY <1>0, <1>19 DEF FlushMemset, Return, Slots, Cells
<1>20. QED
  BY <1>1, <1>2, <1>3, <1>4, <1>5, <1>6, <1>7, <1>8, <1>9, <1>10, <1>11, <1>12, <1>13, <1>14, <1>15, <1>16, <1>17, <1>18, <1>19 DEF Call, Step

\* The invariant holds in every reachable state.
THEOREM Invariance == Spec => []IInv
<1>1. IInv /\ [Next]_vars => IInv'
  <2>1. CASE UNCHANGED vars
    BY <2>1 DEF vars, IInv, TypeOK, Discipline, Checked
  <2>2. QED
    BY <2>1, NextIInv DEF Next
<1>2. QED
  BY <1>1, InitIInv, PTL DEF Spec

\* The type invariant of the queue: counts and indices stay in range although flush
\* takes no lock.
THEOREM TypeCorrect == Spec => []TypeOK
<1>1. IInv => TypeOK
  BY DEF IInv
<1>2. QED
  BY <1>1, Invariance, PTL

\* Every copy stays inside the buffer, although flush takes no lock.
THEOREM MemorySafe == Spec => []CopiesStayInside
<1>1. IInv => CopiesStayInside
  BY QueueAssumption DEF IInv, TypeOK, Checked, CopiesStayInside, Slots
<1>2. QED
  BY <1>1, Invariance, PTL
-----------------------------------------------------------------------------
(* Where nobody flushes.                                                    *)

\* A number below twice the number of slots, as an index.
LEMMA Index ==
  ASSUME NEW x \in Nat, x < 2 * Total
  PROVE  x % Total = IF x < Total THEN x ELSE x - Total
<1> DEFINE q == x \div Total
           r == x % Total
<1>1. q \in Int /\ r \in Int /\ 0 <= r /\ r < Total
  BY QueueAssumption, SMT
<1>2. x = (Total * q) + r
  BY QueueAssumption, SMT
<1>3. q = 0 \/ q = 1
  <2>1. q >= 0
    BY QueueAssumption, SMT
  <2>2. q < 2
    BY <1>1, <1>2, <2>1, QueueAssumption, SMT
  <2> QED
    BY <1>1, <2>1, <2>2
<1>4. QED
  BY <1>1, <1>2, <1>3, QueueAssumption, SMT

\* Where the oldest frame is, in Items.
First == IF popping THEN tail - 1 ELSE tail

\* The place behind the youngest frame is that of h, any number of times round.
Behind(h) == \E k \in {0, 1, 2} : h = First + cnt - k * Total

\* The head is behind the youngest frame, or behind one that is not counted yet.
HeadFits ==
  IF \E t \in Threads : pc[t] \in {"cnt", "cnt+1"}
  THEN head > 0 /\ Behind(head - 1) ELSE Behind(head)

\* What a push has written, and a pop has read, is there until it is done.
InSlot(t) ==
  /\ pc[t] \in PushSteps \cup {"push"} => data[t] \in Frames
  /\ pc[t] = "copying" => reg[t] = head /\ buf[head] = Torn
  /\ pc[t] = "head" => buf[head] = data[t]
  /\ pc[t] = "head+1" => reg[t] = head /\ buf[head] = data[t]
  /\ pc[t] \in {"cnt", "cnt+1"} => buf[head - 1] = data[t]
  /\ pc[t] = "cnt+1" => reg[t] = cnt
  /\ pc[t] = "tail+1" => data[t] = buf[tail]
  /\ pc[t] = "cnt-1" => tail > 0 /\ data[t] = buf[tail - 1]

Ring == HeadFits /\ \A t \in Threads : InSlot(t)

RInv == ~Flushes => Ring

\* The owner of the mutex is alone in push and pop.
LEMMA Alone ==
  ASSUME IInv, NEW t \in Threads, mutex \in {t, "free"}, NEW u \in Threads \ {t}
  PROVE  pc[u] \notin PushSteps \cup PopSteps
  BY QueueAssumption DEF IInv, Discipline

\* A call changes nothing of the ring.
LEMMA CallKeepsRing ==
  ASSUME IInv, Ring, NEW t \in Threads, Call(t)
  PROVE  Ring' /\ Items' = Items
<1>1. /\ \A u \in Threads \ {t} : pc'[u] = pc[u] /\ data'[u] = data[u]
      /\ pc[t] = "idle" /\ pc'[t] \in {"push", "pop", "cnt=0"}
      /\ pc'[t] = "push" => data'[t] \in Frames
      /\ UNCHANGED <<fields, reg>>
  BY DEF Call, CallPush, CallPop, CallFlush, Goto, IInv, TypeOK, fields
<1>2. popping' <=> popping
  BY <1>1 DEF popping
<1>3. HeadFits'
  BY <1>1, <1>2 DEF Ring, HeadFits, Behind, First, fields
<1>4. ASSUME NEW u \in Threads PROVE InSlot(u)'
  BY <1>1 DEF Ring, InSlot, fields, PushSteps
<1>5. Items' = Items
  BY <1>1, <1>2 DEF Items, fields
<1> QED
  BY <1>3, <1>4, <1>5 DEF Ring

\* Frames and the place behind them are all in slots of their own.
Place(i) == (First + i - 1) % Total

LEMMA Places ==
  ASSUME IInv, Ring
  PROVE  /\ First \in 0..Total
         /\ \A i \in 1..(cnt + 1) :
              i <= Total => Place(i) = IF First + i - 1 < Total THEN First + i - 1
                                       ELSE (First + i - 1) - Total
<1>1. First \in 0..Total
  <2>1. CASE popping
    <3>1. PICK t \in Threads : pc[t] = "cnt-1"
      BY <2>1 DEF popping
    <3>2. tail > 0
      BY <3>1 DEF Ring, InSlot
    <3> QED
      BY <2>1, <3>2, QueueAssumption DEF First, IInv, TypeOK
  <2>2. CASE ~popping
    BY <2>2 DEF First, IInv, TypeOK
  <2> QED
    BY <2>1, <2>2
<1>2. ASSUME NEW i \in 1..(cnt + 1), i <= Total
      PROVE  Place(i) = IF First + i - 1 < Total THEN First + i - 1 ELSE (First + i - 1) - Total
  <2> DEFINE x == First + i - 1
  <2>1. x \in Nat /\ x < 2 * Total
    BY <1>1, <1>2, QueueAssumption DEF IInv, TypeOK
  <2>2. \A y \in Nat : y < 2 * Total => y % Total = IF y < Total THEN y ELSE y - Total
    BY Index
  <2>3. x % Total = IF x < Total THEN x ELSE x - Total
    BY <2>1, <2>2
  <2> QED
    BY <2>3 DEF Place
<1> QED
  BY <1>1, <1>2

\* The frames are as they were when their slots and their number are.
LEMMA SameItems ==
  ASSUME cnt' = cnt, \A i \in 1..cnt : buf'[Place(i)'] = buf[Place(i)]
  PROVE  Items' = Items
<1>1. Items = [i \in 1..cnt |-> buf[Place(i)]]
  BY DEF Items, Place, First
<1>2. Items' = [i \in 1..cnt' |-> buf'[Place(i)']]
  BY DEF Items, Place, First
<1> QED
  BY <1>1, <1>2

\* What a step of t comes to when t has the mutex, or nobody.
Own(t) ==
  /\ mutex \in {t, "free"}
  /\ \A u \in Threads \ {t} : pc'[u] = pc[u] /\ reg'[u] = reg[u] /\ data'[u] = data[u]

Counting(t) == pc[t] \in {"cnt", "cnt+1"}

\* First and HeadFits are then about t alone, and nothing else happens to the others.
LEMMA OwnStep ==
  ASSUME IInv, Ring, NEW t \in Threads, Own(t)
  PROVE  /\ First = IF pc[t] = "cnt-1" THEN tail - 1 ELSE tail
         /\ First' = IF pc'[t] = "cnt-1" THEN tail' - 1 ELSE tail'
         /\ IF Counting(t) THEN head > 0 /\ Behind(head - 1) ELSE Behind(head)
         /\ (IF Counting(t)' THEN head' > 0 /\ Behind(head - 1)' ELSE Behind(head)')
               <=> HeadFits'
         /\ \A u \in Threads \ {t} : InSlot(u)'
<1>1. \A u \in Threads \ {t} : pc[u] \notin PushSteps \cup PopSteps /\ pc'[u] = pc[u]
  BY Alone DEF Own
<1>2. /\ popping <=> pc[t] = "cnt-1"
      /\ popping' <=> pc'[t] = "cnt-1"
      /\ (\E u \in Threads : pc[u] \in {"cnt", "cnt+1"}) <=> Counting(t)
      /\ (\E u \in Threads : pc'[u] \in {"cnt", "cnt+1"}) <=> Counting(t)'
  BY <1>1 DEF popping, Counting, PushSteps, PopSteps
<1>3. \A u \in Threads \ {t} : InSlot(u)'
  BY <1>1 DEF Own, Ring, InSlot, PushSteps, PopSteps
<1> QED
  BY <1>2, <1>3 DEF First, Ring, HeadFits

\* A step of its that leaves frames and head alone.
LEMMA Kept ==
  ASSUME IInv, Ring, NEW t \in Threads, Own(t), Counting(t) <=> Counting(t)',
         InSlot(t)', UNCHANGED <<cnt, head, buf>>, First' = First
  PROVE  Ring' /\ Items' = Items
<1>1. HeadFits'
  BY OwnStep DEF Behind
<1>2. Items' = Items
  BY DEF Items, First
<1> QED
  BY <1>1, <1>2, OwnStep DEF Ring

\* Who works in push or pop has the mutex, and its step is its own.
LEMMA StepIsOwn ==
  ASSUME IInv, NEW t \in Threads, Step(t), pc[t] \notin FlushSteps
  PROVE  Own(t)
<1> USE DEF IInv, TypeOK, Discipline, Own, Goto, Return, fields, Step, PushSteps, PopSteps
<1>1. CASE Acquire(t)
  BY <1>1 DEF Acquire, Lock
<1>2. CASE PushFull(t) \/ PushCopy(t) \/ PushCopied(t) \/ PushReadHead(t) \/ PushWriteHead(t)
  BY <1>2 DEF PushFull, PushCopy, PushCopied, PushReadHead, PushWriteHead
<1>3. CASE PushReadCnt(t) \/ PushWriteCnt(t)
  BY <1>3 DEF PushReadCnt, PushWriteCnt
<1>4. CASE PopEmpty(t) \/ PopRead(t) \/ PopTail(t) \/ PopCnt(t)
  BY <1>4 DEF PopEmpty, PopRead, PopTail, PopCnt
<1>5. CASE FlushCnt(t) \/ FlushHead(t) \/ FlushTail(t) \/ FlushMemset(t)
  BY <1>5 DEF FlushCnt, FlushHead, FlushTail, FlushMemset, FlushSteps
<1> QED
  BY <1>1, <1>2, <1>3, <1>4, <1>5

\* The steps of push and pop that only look.
LEMMA LooksKeepRing ==
  ASSUME IInv, Ring, NEW t \in Threads, Own(t),
         \/ Acquire(t) \/ PushReadHead(t) \/ PushReadCnt(t) \/ PopRead(t) \/ PopTail(t)
         \/ PushFull(t) /\ ~Room(t)
         \/ PopEmpty(t) /\ ~Some(t)
  PROVE  Ring' /\ Items' = Items
<1> USE DEF Counting, InSlot, Goto, Return, fields, IInv, TypeOK, PushSteps
<1> SUFFICES /\ Counting(t) <=> Counting(t)'
             /\ UNCHANGED <<cnt, head, buf>> /\ InSlot(t)' /\ First' = First
  BY Kept
<1>0. InSlot(t)
  BY DEF Ring
<1>1. CASE Acquire(t)
  BY <1>0, <1>1, OwnStep DEF Acquire
<1>2. CASE PushReadHead(t)
  BY <1>0, <1>2, OwnStep DEF PushReadHead
<1>3. CASE PushReadCnt(t)
  BY <1>0, <1>3, OwnStep DEF PushReadCnt
<1>4. CASE PopRead(t)
  BY <1>0, <1>4, OwnStep DEF PopRead
<1>5. CASE PopTail(t)
  BY <1>0, <1>5, OwnStep DEF PopTail
<1>6. CASE PushFull(t) /\ ~Room(t)
  BY <1>0, <1>6, OwnStep DEF PushFull
<1>7. CASE PopEmpty(t) /\ ~Some(t)
  BY <1>0, <1>7, OwnStep DEF PopEmpty
<1> QED
  BY <1>1, <1>2, <1>3, <1>4, <1>5, <1>6, <1>7

\* The head wraps.
LEMMA FullKeepsRing ==
  ASSUME IInv, Ring, NEW t \in Threads, Own(t), PushFull(t), Room(t)
  PROVE  Ring' /\ Items' = Items
<1>1. /\ pc[t] = "full" /\ pc'[t] = "copy" /\ head' = IF Total <= head THEN 0 ELSE head
      /\ UNCHANGED <<cnt, tail, buf, reg, data>> /\ cnt < Total
  BY DEF PushFull, Room, Wrap, Goto, IInv, TypeOK
<1>2. First' = First /\ Behind(head) /\ ~Counting(t)'
  BY <1>1, OwnStep DEF Counting
<1>3. First \in 0..Total /\ cnt \in 0..Total /\ head \in 0..Total
  BY Places DEF IInv, TypeOK
<1>4. Behind(head)'
  <2>1. PICK k \in {0, 1, 2} : head = First + cnt - k * Total
    BY <1>2 DEF Behind
  <2>2. CASE Total <= head
    <3>1. head' = First + cnt - (k + 1) * Total /\ k # 2
      BY <1>1, <1>3, <2>1, <2>2, QueueAssumption
    <3> QED
      BY <1>1, <1>2, <3>1, QueueAssumption DEF Behind
  <2>3. CASE ~(Total <= head)
    BY <1>1, <1>2, <2>1, <2>3 DEF Behind
  <2> QED
    BY <2>2, <2>3
<1>5. InSlot(t)'
  BY <1>1 DEF Ring, InSlot, PushSteps
<1>6. Items' = Items
  BY <1>1, <1>2 DEF Items, First
<1> QED
  BY <1>2, <1>4, <1>5, <1>6, OwnStep DEF Ring

\* The slot behind the youngest frame holds none of the others.
LEMMA NextPlace ==
  ASSUME IInv, Ring, cnt < Total, NEW h \in 0..(Total - 1), Behind(h)
  PROVE  Place(cnt + 1) = h /\ \A i \in 1..cnt : Place(i) # h
<1>1. First \in 0..Total /\ cnt \in 0..Total
  BY Places DEF IInv, TypeOK
<1>2. PICK k \in {0, 1, 2} : h = First + cnt - k * Total
  BY DEF Behind
<1>3. Place(cnt + 1) = h
  <2>1. Place(cnt + 1) = IF First + (cnt + 1) - 1 < Total THEN First + (cnt + 1) - 1
                         ELSE (First + (cnt + 1) - 1) - Total
    BY <1>1, Places, QueueAssumption
  <2> QED
    BY <1>1, <1>2, <2>1, QueueAssumption
<1>4. ASSUME NEW i \in 1..cnt PROVE Place(i) # h
  <2>1. Place(i) = IF First + i - 1 < Total THEN First + i - 1 ELSE (First + i - 1) - Total
    BY <1>1, Places, QueueAssumption
  <2> QED
    BY <1>1, <1>2, <2>1, QueueAssumption
<1> QED
  BY <1>3, <1>4

\* The copy into that slot disturbs none of them.
LEMMA CopyKeepsRing ==
  ASSUME IInv, Ring, NEW t \in Threads, Own(t), PushCopy(t) \/ PushCopied(t)
  PROVE  Ring' /\ Items' = Items
<1>1. /\ pc[t] \in {"copy", "copying"} /\ pc'[t] \in {"copying", "head"}
      /\ UNCHANGED <<cnt, head, tail>> /\ \A i \in Slots : i # head => buf'[i] = buf[i]
      /\ cnt < Total /\ head \in Slots /\ InSlot(t)'
  <2> USE DEF Goto, IInv, TypeOK, Checked, Slots
  <2>1. CASE PushCopy(t)
    BY <2>1, QueueAssumption DEF PushCopy, Ring, InSlot, PushSteps
  <2>2. CASE PushCopied(t)
    BY <2>2, QueueAssumption DEF PushCopied, Ring, InSlot, PushSteps
  <2> QED
    BY <2>1, <2>2
<1>2. First' = First /\ Behind(head) /\ ~Counting(t)'
  BY <1>1, OwnStep DEF Counting
<1>3. ASSUME NEW i \in 1..cnt PROVE buf'[Place(i)'] = buf[Place(i)]
  <2>1. Place(i) # head
    BY <1>1, <1>2, NextPlace DEF Slots
  <2>2. Place(i) \in Slots
    BY <1>1, Places, QueueAssumption DEF Slots, IInv, TypeOK
  <2>3. Place(i)' = Place(i)
    BY <1>2 DEF Place
  <2> QED
    BY <1>1, <2>1, <2>2, <2>3
<1>4. Items' = Items
  BY <1>1, <1>3, SameItems
<1>5. HeadFits'
  BY <1>1, <1>2, OwnStep DEF Behind
<1> QED
  BY <1>1, <1>4, <1>5, OwnStep DEF Ring

\* The head goes on.
LEMMA HeadKeepsRing ==
  ASSUME IInv, Ring, NEW t \in Threads, Own(t), PushWriteHead(t)
  PROVE  Ring' /\ Items' = Items
<1>1. /\ pc[t] = "head+1" /\ pc'[t] = "cnt" /\ head' = head + 1 /\ head \in 0..Total
      /\ UNCHANGED <<cnt, tail, buf, reg, data>>
  BY DEF PushWriteHead, Goto, IInv, TypeOK, Ring, InSlot
<1>2. First' = First /\ Behind(head) /\ Counting(t)'
  BY <1>1, OwnStep DEF Counting
<1>3. head' > 0 /\ head' - 1 = head
  BY <1>1
<1>4. HeadFits'
  BY <1>1, <1>2, <1>3, OwnStep DEF Behind
<1>5. InSlot(t)'
  BY <1>1, <1>3 DEF Ring, InSlot, PushSteps
<1>6. Items' = Items
  BY <1>1, <1>2 DEF Items, First
<1> QED
  BY <1>4, <1>5, <1>6, OwnStep DEF Ring

\* The tail wraps.
LEMMA SomeKeepsRing ==
  ASSUME IInv, Ring, NEW t \in Threads, Own(t), PopEmpty(t), Some(t)
  PROVE  Ring' /\ Items' = Items
<1>1. /\ pc[t] = "empty" /\ pc'[t] = "read" /\ tail' = IF Total <= tail THEN 0 ELSE tail
      /\ UNCHANGED <<cnt, head, buf, reg, data>> /\ cnt > 0
  BY DEF PopEmpty, Some, Wrap, Goto, IInv, TypeOK
<1>2. First = tail /\ First' = tail' /\ Behind(head) /\ ~Counting(t)'
  BY <1>1, OwnStep DEF Counting
<1>3. tail \in 0..Total /\ cnt \in 0..Total /\ head \in 0..Total
  BY DEF IInv, TypeOK
<1>4. Behind(head)'
  <2>1. PICK k \in {0, 1, 2} : head = tail + cnt - k * Total
    BY <1>2 DEF Behind
  <2>2. CASE Total <= tail
    <3>1. head = tail' + cnt - (k - 1) * Total /\ k # 0
      BY <1>1, <1>3, <2>1, <2>2, QueueAssumption
    <3> QED
      BY <1>1, <1>2, <3>1, QueueAssumption DEF Behind
  <2>3. CASE ~(Total <= tail)
    BY <1>1, <1>2, <2>1, <2>3 DEF Behind
  <2> QED
    BY <2>2, <2>3
<1>5. InSlot(t)'
  BY <1>1 DEF Ring, InSlot, PushSteps
<1>6. ASSUME NEW i \in 1..cnt PROVE Place(i)' = Place(i)
  <2>1. Place(i) = IF tail + i - 1 < Total THEN tail + i - 1 ELSE (tail + i - 1) - Total
    BY <1>2, <1>3, Places, QueueAssumption
  <2>2. CASE Total <= tail
    <3>1. Place(i) = i - 1
      BY <1>3, <2>1, <2>2, QueueAssumption
    <3>2. Place(i)' = (0 + i - 1) % Total
      BY <1>1, <1>2, <2>2 DEF Place
    <3>3. (0 + i - 1) % Total = i - 1
      BY <1>3, Index, QueueAssumption
    <3> QED
      BY <3>1, <3>2, <3>3
  <2>3. CASE ~(Total <= tail)
    BY <1>1, <1>2, <2>3 DEF Place
  <2> QED
    BY <2>2, <2>3
<1>7. Items' = Items
  BY <1>1, <1>6, SameItems
<1> QED
  BY <1>2, <1>4, <1>5, <1>7, OwnStep DEF Ring

\* The frames as a sequence.
LEMMA ItemsSeq ==
  ASSUME IInv, Ring
  PROVE  Items \in Seq(Cells) /\ Len(Items) = cnt /\ \A i \in 1..cnt : Items[i] = buf[Place(i)]
<1>1. Items = [i \in 1..cnt |-> buf[Place(i)]]
  BY DEF Items, Place, First
<1>2. ASSUME NEW i \in 1..cnt PROVE buf[Place(i)] \in Cells
  BY Places, QueueAssumption, SMTT(30) DEF Slots, IInv, TypeOK
<1>3. cnt \in Nat
  BY QueueAssumption DEF IInv, TypeOK
<1> QED
  BY <1>1, <1>2, <1>3

\* The step of a push that counts its frame puts it into the queue.
LEMMA PutsFrame ==
  ASSUME IInv, IInv', Ring, NEW t \in Threads, Own(t), PushWriteCnt(t)
  PROVE  Ring' /\ data[t] \in Frames /\ Len(Items) < Total /\ Items' = Append(Items, data[t])
<1>1. /\ pc[t] = "cnt+1" /\ pc'[t] = "idle" /\ cnt' = cnt + 1 /\ cnt < Total
      /\ UNCHANGED <<head, tail, buf, reg, data>> /\ data[t] \in Frames
      /\ buf[head - 1] = data[t]
  BY DEF PushWriteCnt, Return, Goto, IInv, TypeOK, Checked, Ring, InSlot, PushSteps
<1>2. First' = First /\ head > 0 /\ Behind(head - 1) /\ ~Counting(t)'
  BY <1>1, OwnStep DEF Counting
<1>3. First \in 0..Total /\ cnt \in 0..Total /\ head \in 0..Total
  BY Places DEF IInv, TypeOK
<1>4. Behind(head)'
  <2>1. PICK k \in {0, 1, 2} : head - 1 = First + cnt - k * Total
    BY <1>2 DEF Behind
  <2>2. head' = First' + cnt' - k * Total
    BY <1>1, <1>2, <1>3, <2>1, QueueAssumption
  <2> QED
    BY <2>2 DEF Behind
<1>5. Ring'
  <2>1. InSlot(t)'
    BY <1>1 DEF InSlot, PushSteps
  <2> QED
    BY <1>2, <1>4, <2>1, OwnStep DEF Ring
<1>6. Place(cnt + 1) = head - 1
  <2>1. \A h \in 0..(Total - 1) : Behind(h) => Place(cnt + 1) = h
    BY <1>1, NextPlace
  <2>2. head - 1 \in 0..(Total - 1)
    BY <1>2, <1>3, QueueAssumption
  <2> QED
    BY <1>2, <2>1, <2>2
<1>7. \A i : Place(i)' = Place(i)
  BY <1>2 DEF Place
<1>8. Items' = Append(Items, data[t])
  <2>1. /\ Items \in Seq(Cells) /\ Len(Items) = cnt /\ \A i \in 1..cnt : Items[i] = buf[Place(i)]
        /\ data[t] \in Cells
    BY <1>1, ItemsSeq DEF Cells
  <2> DEFINE other == Append(Items, data[t])
  <2>2. /\ other \in Seq(Cells) /\ Len(other) = cnt + 1 /\ other[cnt + 1] = data[t]
        /\ \A i \in 1..cnt : other[i] = buf[Place(i)]
    BY <2>1, AppendProperties
  <2>3. Items' = [i \in 1..(cnt + 1) |-> buf[Place(i)]]
    BY <1>1, <1>7 DEF Items, Place, First
  <2>4. other = [i \in 1..(cnt + 1) |-> other[i]]
    BY <1>3, <2>2, QueueAssumption
  <2> HIDE DEF other
  <2>5. \A i \in 1..(cnt + 1) : other[i] = buf[Place(i)]
    BY <1>1, <1>3, <1>6, <2>2, QueueAssumption
  <2> QED
    BY <2>3, <2>4, <2>5 DEF other
<1> QED
  BY <1>1, <1>5, <1>8, ItemsSeq

\* The step of a pop that counts takes the oldest out of it.
LEMMA TakesFrame ==
  ASSUME IInv, IInv', Ring, NEW t \in Threads, Own(t), PopCnt(t)
  PROVE  Ring' /\ Items # <<>> /\ Items' = Tail(Items)
<1>1. /\ pc[t] = "cnt-1" /\ pc'[t] = "idle" /\ cnt' = cnt - 1 /\ cnt > 0 /\ tail > 0
      /\ UNCHANGED <<head, tail, buf, reg, data>>
  BY DEF PopCnt, Return, Goto, IInv, TypeOK, Checked, Ring, InSlot
<1>2. First = tail - 1 /\ First' = tail /\ Behind(head) /\ ~Counting(t)'
  BY <1>1, OwnStep DEF Counting
<1>3. tail \in 0..Total /\ cnt \in 0..Total /\ head \in 0..Total
  BY DEF IInv, TypeOK
<1>4. Behind(head)'
  <2>1. PICK k \in {0, 1, 2} : head = First + cnt - k * Total
    BY <1>2 DEF Behind
  <2>2. head' = First' + cnt' - k * Total
    BY <1>1, <1>2, <1>3, <2>1, QueueAssumption
  <2> QED
    BY <2>2 DEF Behind
<1>5. Ring'
  <2>1. InSlot(t)'
    BY <1>1 DEF InSlot, PushSteps
  <2> QED
    BY <1>2, <1>4, <2>1, OwnStep DEF Ring
<1>6. ASSUME NEW i \in 1..(cnt - 1) PROVE Place(i)' = Place(i + 1)
  <2>1. tail + i - 1 = (tail - 1) + (i + 1) - 1
    BY <1>3
  <2> QED
    BY <1>2, <2>1 DEF Place
<1>7. /\ Items \in Seq(Cells) /\ Len(Items) = cnt /\ \A i \in 1..cnt : Items[i] = buf[Place(i)]
      /\ Items' \in Seq(Cells) /\ Len(Items') = cnt - 1
      /\ \A i \in 1..(cnt - 1) : Items'[i] = buf[Place(i)']
  <2>1. Items' = [i \in 1..(cnt - 1) |-> buf[Place(i)']]
    BY <1>1 DEF Items, Place, First
  <2>2. ASSUME NEW i \in 1..(cnt - 1) PROVE buf[Place(i)'] \in Cells
    <3>1. Items \in Seq(Cells) /\ Len(Items) = cnt /\ Items[i + 1] = buf[Place(i + 1)]
      BY <1>3, ItemsSeq
    <3>2. Items[i + 1] \in Cells
      BY <1>3, <3>1, ElementOfSeq
    <3> QED
      BY <1>6, <3>1, <3>2
  <2> QED
    BY <1>1, <1>3, <2>1, <2>2, ItemsSeq
<1>8. Items # <<>>
  BY <1>1, <1>7
<1>9. Items' = Tail(Items)
  <2> DEFINE other == Tail(Items)
  <2>1. other \in Seq(Cells) /\ Len(other) = cnt - 1 /\ \A i \in 1..(cnt - 1) : other[i] = Items[i + 1]
    BY <1>7, <1>8, HeadTailProperties
  <2> HIDE DEF other
  <2>2. ASSUME NEW i \in 1..(cnt - 1) PROVE Items'[i] = other[i]
    BY <1>3, <1>6, <1>7, <2>1
  <2>3. Items' = other
    BY <1>7, <2>1, <2>2, SeqEqual
  <2> QED
    BY <2>3 DEF other
<1> QED
  BY <1>5, <1>8, <1>9

-----------------------------------------------------------------------------
\* A step leaves the frames alone, or takes one or puts one as the bounded queue does.
LEMMA StepKeepsRing ==
  ASSUME IInv, IInv', Ring, ~Flushes, NEW t \in Threads, Step(t)
  PROVE  /\ Ring'
         /\ \/ Items' = Items
            \/ Items # <<>> /\ Items' = Tail(Items)
            \/ \E f \in Frames : Len(Items) < Total /\ Items' = Append(Items, f)
<1>1. pc[t] \notin FlushSteps
  BY DEF Flushes, IInv, Discipline
<1>2. Own(t)
  BY <1>1, StepIsOwn
<1>3. CASE Acquire(t) \/ PushReadHead(t) \/ PushReadCnt(t) \/ PopRead(t) \/ PopTail(t)
  BY <1>2, <1>3, LooksKeepRing
<1>4. CASE PushFull(t)
  BY <1>2, <1>4, LooksKeepRing, FullKeepsRing
<1>5. CASE PushCopy(t) \/ PushCopied(t)
  BY <1>2, <1>5, CopyKeepsRing
<1>6. CASE PushWriteHead(t)
  BY <1>2, <1>6, HeadKeepsRing
<1>7. CASE PushWriteCnt(t)
  BY <1>2, <1>7, PutsFrame
<1>8. CASE PopEmpty(t)
  BY <1>2, <1>8, LooksKeepRing, SomeKeepsRing
<1>9. CASE PopCnt(t)
  BY <1>2, <1>9, TakesFrame
<1>10. CASE FlushCnt(t) \/ FlushHead(t) \/ FlushTail(t) \/ FlushMemset(t)
  BY <1>1, <1>10 DEF FlushCnt, FlushHead, FlushTail, FlushMemset, FlushSteps
<1> QED
  BY <1>3, <1>4, <1>5, <1>6, <1>7, <1>8, <1>9, <1>10 DEF Step

\* The initial state: no frame.
LEMMA InitRing == Init => RInv /\ Items = <<>>
<1> SUFFICES ASSUME Init PROVE Ring /\ Items = <<>>
  BY DEF RInv
<1>1. ~popping /\ \A t \in Threads : pc[t] = "idle"
  BY DEF Init, popping
<1>2. HeadFits
  <2>1. First = 0
    BY <1>1 DEF First, Init
  <2>2. Behind(head)
    BY <2>1, QueueAssumption DEF Behind, Init
  <2> QED
    BY <1>1, <2>2 DEF HeadFits
<1>3. \A t \in Threads : InSlot(t)
  BY <1>1 DEF InSlot, PushSteps
<1>4. Items = <<>>
  BY DEF Items, Init
<1> QED
  BY <1>2, <1>3, <1>4 DEF Ring

\* Every step keeps the ring, and is a step of the bounded queue or none.
LEMMA NextRing ==
  ASSUME IInv, IInv', RInv, [Next]_vars
  PROVE  RInv' /\ [Queue!Next]_(IF Flushes THEN <<>> ELSE Items)
<1>1. Flushes' <=> Flushes
  BY DEF Flushes, Next, vars
<1>2. CASE Flushes
  BY <1>1, <1>2 DEF RInv
<1>3. CASE ~Flushes /\ UNCHANGED vars
  <2>1. popping' <=> popping
    BY <1>3 DEF vars, popping
  <2>2. HeadFits' /\ Items' = Items
    BY <1>3, <2>1 DEF RInv, Ring, HeadFits, Behind, First, Items, vars
  <2>3. \A t \in Threads : InSlot(t)'
    BY <1>3 DEF RInv, Ring, InSlot, vars
  <2> QED
    BY <1>1, <1>3, <2>2, <2>3 DEF RInv, Ring
<1>4. CASE ~Flushes /\ Next
  <2>1. PICK t \in Threads : Call(t) \/ Step(t)
    BY <1>4 DEF Next
  <2>2. /\ Ring'
        /\ \/ Items' = Items
           \/ Items # <<>> /\ Items' = Tail(Items)
           \/ \E f \in Frames : Len(Items) < Total /\ Items' = Append(Items, f)
    BY <1>4, <2>1, CallKeepsRing, StepKeepsRing DEF RInv
  <2> QED
    BY <1>1, <1>4, <2>2 DEF RInv, Queue!Next, Queue!Put, Queue!Take
<1> QED
  BY <1>2, <1>3, <1>4

\* Where nobody flushes the ring is a bounded first-in first-out queue: each push that
\* returns 0 appends its frame and each pop that returns 0 takes the oldest, in spite of
\* everything that the threads do in between.
THEOREM Implements == Spec => IsBoundedQueue
<1>1. Init => RInv /\ Queue!Init
  BY InitRing DEF Queue!Init
<1>2. QED
  BY <1>1, NextRing, Invariance, PTL DEF Spec, IsBoundedQueue, Queue!Spec

\* There a pop hands out the oldest frame, in one piece.
THEOREM PopsOldest == Spec => []PopsTheOldest
<1>1. IInv /\ RInv => PopsTheOldest
  <2> SUFFICES ASSUME IInv, Ring, NEW t \in Threads, pc[t] \in {"tail+1", "cnt-1"}
               PROVE  data[t] = Items[1]
    BY DEF RInv, PopsTheOldest
  <2>1. First \in 0..(Total - 1) /\ data[t] = buf[First] /\ cnt \in 1..Total
    <3>1. popping <=> pc[t] = "cnt-1"
      BY Alone DEF popping, IInv, Discipline, PopSteps
    <3> QED
      BY <3>1, QueueAssumption DEF First, Ring, InSlot, IInv, TypeOK, Checked
  <2>2. Items[1] = buf[Place(1)] /\ Place(1) = First
    BY <2>1, ItemsSeq, Places, QueueAssumption
  <2> QED
    BY <2>1, <2>2
<1>2. QED
  BY <1>1, NextRing, Invariance, InitRing, PTL DEF Spec
=============================================================================
