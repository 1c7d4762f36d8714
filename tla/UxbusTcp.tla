------------------------------ MODULE UxbusTcp ------------------------------
(***************************************************************************)
(* One request at a time over the command port, as UxbusCmdTcp makes them: *)
(* flush what is left in the queue, write the request under a transaction  *)
(* number, then read frames until the one with that number comes or time   *)
(* is up.  An answer that comes after its request has timed out is met by  *)
(* a later one.  The receiving thread of SocketPort and the queue between  *)
(* the two threads are those of QueueMemcpy, step by step.                 *)
(***************************************************************************)
EXTENDS Integers, Sequences, Functions

CONSTANTS Total,        \* slots of rx_que_
          IdMax,        \* TRANSACTION_ID_MAX
          Kinds,        \* requests, records of a protocol and a unit
          MaxRequests,  \* bound on the requests made
          Empty, Torn

\* A frame: its header, and the request it belongs to.
Answers == {[id |-> i, prot |-> k.prot, unit |-> k.unit, req |-> r] :
              i \in 0..IdMax, k \in Kinds, r \in 1..MaxRequests}

ASSUME UxbusAssumption ==
  /\ Total \in Nat \ {0} /\ Empty # Torn /\ Empty \notin Answers /\ Torn \notin Answers
  /\ IdMax \in Nat \ {0} /\ MaxRequests \in Nat
  /\ \A k \in Kinds : k.prot \in {0, 2} /\ k.unit \in 1..255

Threads == {"recv", "request"}
Calls   == [t \in Threads |-> IF t = "recv" THEN {"push"} ELSE {"pop", "flush"}]

VARIABLES
  cnt, head, tail, buf, mutex, pc, reg, data, ret,  \* the queue
  transId,   \* transaction_id_
  cur,       \* the request being made
  phase,     \* where _send_modbus_request and _recv_modbus_response are
  result,    \* how the last request ended
  accepted,  \* the frame it took for its answer
  pending,   \* requests the arm has not answered yet, in order
  wire,      \* answers on their way, in order
  holding,   \* the receiving thread has a frame that is not pushed yet
  open,      \* state_ = 0
  clean      \* history: no earlier answer was under way when the queue was flushed

Q == INSTANCE QueueMemcpy WITH Frames <- Answers, Uses <- {Calls}, calls <- Calls

queue == <<cnt, head, tail, buf, mutex, pc, reg, data, ret>>
vars  == <<queue, transId, cur, phase, result, accepted, pending, wire, holding,
           open, clean>>

\* Answers that are still to come, and the requests made earlier that they belong to.
UnderWay == Range(pending) \cup Range(wire) \cup (IF holding THEN {data["recv"]} ELSE {})

Outstanding == {f.req : f \in UnderWay}

-----------------------------------------------------------------------------
(* The thread of the request, which holds mutex_ of UxbusCmd. *)

\* Bound: the arm is never a whole round of transaction numbers behind.
NotARoundBehind == \A r \in Outstanding : cur.req + 1 - r < IdMax

Request(k) ==
  /\ open /\ phase = "idle" /\ cur.req < MaxRequests /\ NotARoundBehind
  /\ cur' = [id |-> transId, prot |-> k.prot, unit |-> k.unit, req |-> cur.req + 1]
  /\ phase' = "flush"
  /\ result' = "none"
  /\ Q!CallFlush("request")
  /\ clean' = (Outstanding = {})
  /\ UNCHANGED <<transId, accepted, pending, wire, holding, open>>

\* Mutants: the numbers start from zero again; every request has the same one.
FromZero(i) == (i + 1) % (IdMax + 1)
SameId(i) == i

NextId(i) == (i % IdMax) + 1

\* write_frame, once the queue has been flushed: the number is used up only if the
\* whole request was written.
WriteFrame ==
  /\ phase = "flush" /\ pc["request"] = "idle"
  /\ \/ /\ open
        /\ transId' = NextId(transId)
        /\ pending' = Append(pending, cur)
        /\ phase' = "read"
        /\ UNCHANGED result
     \/ /\ phase' = "idle"
        /\ result' = "ERR_NOTTCP"
        /\ UNCHANGED <<transId, pending>>
  /\ UNCHANGED <<queue, cur, accepted, wire, holding, open, clean>>

\* read_frame of an open port whose queue is not empty.
ReadFrame ==
  /\ phase = "read" /\ open /\ cnt # 0
  /\ phase' = "pop"
  /\ Q!CallPop("request")
  /\ UNCHANGED <<transId, cur, result, accepted, pending, wire, holding, open, clean>>

\* The header of what was read: an empty slot is all zeros, and a torn one has at
\* most a part of the number of an answer that is not the one waited for.
Header(c) == IF c \in {Empty, Torn} THEN [id |-> 0, prot |-> 0, unit |-> 0, req |-> 0] ELSE c

\* Mutant: the transaction number is not looked at.
CheckUnit(h) ==
  IF h.prot # cur.prot THEN "ERR_PROT" ELSE IF h.unit # cur.unit THEN "ERR_FUN" ELSE "answered"

\* _check_protocol_header.
CheckHeader(h) ==
  IF h.id # cur.id THEN "ERR_NUM"
  ELSE IF h.prot # cur.prot THEN "ERR_PROT"
  ELSE IF h.unit # cur.unit THEN "ERR_FUN"
  ELSE "answered"

\* A frame with another number is skipped; any other ends the request.
CheckFrame ==
  /\ phase = "pop" /\ pc["request"] = "idle"
  /\ LET code == CheckHeader(Header(data["request"]))
     IN  IF code = "ERR_NUM"
         THEN phase' = "read" /\ UNCHANGED <<result, accepted>>
         ELSE phase' = "idle" /\ result' = code /\ accepted' = Header(data["request"])
  /\ UNCHANGED <<queue, transId, cur, pending, wire, holding, open, clean>>

Timeout ==
  /\ phase = "read"
  /\ phase' = "idle"
  /\ result' = "ERR_TOUT"
  /\ UNCHANGED <<queue, transId, cur, accepted, pending, wire, holding, open, clean>>

-----------------------------------------------------------------------------
(* The receiving thread, recv_proc. *)

Receive ==
  /\ open /\ ~holding /\ wire # <<>>
  /\ wire' = Tail(wire)
  /\ holding' = TRUE
  /\ Q!CallPush("recv", Head(wire))
  /\ UNCHANGED <<transId, cur, phase, result, accepted, pending, open, clean>>

\* push has returned: done, or again after a while when there was no room.
Pushed ==
  /\ holding /\ pc["recv"] = "idle"
  /\ IF ret["recv"] = 0
     THEN holding' = FALSE /\ UNCHANGED queue
     ELSE open /\ holding' = TRUE /\ Q!CallPush("recv", data["recv"])
  /\ UNCHANGED <<transId, cur, phase, result, accepted, pending, wire, open, clean>>

\* After 1500 tries it gives up and closes the port.
GiveUp ==
  /\ open /\ holding /\ pc["recv"] = "idle" /\ ret["recv"] = -1
  /\ open' = FALSE
  /\ holding' = FALSE
  /\ UNCHANGED <<queue, transId, cur, phase, result, accepted, pending, wire, clean>>

\* The connection breaks.
Disconnect ==
  /\ open /\ ~holding
  /\ open' = FALSE
  /\ UNCHANGED <<queue, transId, cur, phase, result, accepted, pending, wire,
                 holding, clean>>

QueueStep ==
  /\ \E t \in Threads : Q!Step(t)
  /\ UNCHANGED <<transId, cur, phase, result, accepted, pending, wire, holding,
                 open, clean>>

-----------------------------------------------------------------------------
(* The arm answers requests in the order they came, or not at all. *)

Answer ==
  /\ pending # <<>>
  /\ pending' = Tail(pending)
  /\ \/ wire' = Append(wire, Head(pending))
     \/ wire' = wire
  /\ UNCHANGED <<queue, transId, cur, phase, result, accepted, holding, open, clean>>

-----------------------------------------------------------------------------
Init ==
  /\ Q!Init
  /\ transId = 1
  /\ cur = [id |-> 0, prot |-> 0, unit |-> 0, req |-> 0]
  /\ phase = "idle" /\ result = "none"
  /\ accepted = cur
  /\ pending = <<>> /\ wire = <<>>
  /\ holding = FALSE /\ open = TRUE /\ clean = TRUE

Next ==
  \/ \E k \in Kinds : Request(k)
  \/ WriteFrame \/ ReadFrame \/ CheckFrame \/ Timeout
  \/ Receive \/ Pushed \/ GiveUp \/ Disconnect
  \/ QueueStep
  \/ Answer

Spec == Init /\ [][Next]_vars

-----------------------------------------------------------------------------

\* The answer a request takes for its own is its own, whatever is late and however a
\* flush has mixed up the queue.
AnswerMatches == result = "answered" => accepted.req = cur.req

\* Nothing but its own answer ends a request before its time: with an arm that
\* repeats the header, no request fails with ERR_PROT or ERR_FUN, although the slots
\* of the queue may hold zeros and standard Modbus TCP has protocol number 0.
NoHeaderErrors == result \notin {"ERR_PROT", "ERR_FUN"}

\* A flush repairs what an earlier one has mixed up: when nothing earlier is under way,
\* an answer that has been pushed is the only frame in the queue and the next to pop.
AnswerIsNext ==
  clean /\ phase = "read" /\ pending = <<>> /\ wire = <<>> /\ ~holding
    /\ pc["request"] = "idle" /\ cnt # 0
    => cnt = 1 /\ buf[IF tail >= Total THEN 0 ELSE tail] = cur
=============================================================================
