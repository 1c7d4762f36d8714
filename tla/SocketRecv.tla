----------------------------- MODULE SocketRecv -----------------------------
(***************************************************************************)
(* The receiving thread of SocketPort.  On a command port (recv_proc) it   *)
(* cuts the stream at the length that each header gives, and hands         *)
(* feedback to one queue and answers to the other.  On a report port       *)
(* (recv_report_proc) it learns the length from the first report and lets  *)
(* the oldest report go when the queue is full.  TCP may cut the stream    *)
(* anywhere.  The queues count what they hold; QueueMemcpy has their       *)
(* inside.                                                                 *)
(***************************************************************************)
EXTENDS Integers, Sequences

CONSTANTS
  Streams,  \* what the arm sends: a kind of port and a sequence of frames
  HeaderLen,     \* bytes up to and with the length
  Guessed,  \* the length that may be short for another: 233 and what it may stand for
  Cap, FeedbackCap,  \* que_num_ and feedback_que_num_
  BufSize,  \* buf_size
  MaxTries  \* pushes before the thread gives up

\* A frame has a length, one that it gives in its header, a type, and a place: the number
\* of bytes that the arm sends before it.
Frame == [len : (HeaderLen + 1)..BufSize, says : (HeaderLen + 1)..BufSize,
          type : {"answer", "feedback", "report"}, at : Nat]

\* An arm sends reports of one length; the one that it gives is right, or the short one
\* in place of the long one.
Uniform(fs) ==
  /\ \A n \in 1..Len(fs) : fs[n].len = fs[1].len /\ fs[n].says = fs[1].says
  /\ fs[1].says = fs[1].len \/ (fs[1].says = Guessed.short /\ fs[1].len = Guessed.long)

\* Frames of a command port are as long as they say.
Commands(fs) ==
  \A n \in 1..Len(fs) : fs[n].says = fs[n].len /\ fs[n].type \in {"answer", "feedback"}

ASSUME SocketAssumption ==
  /\ {Cap, MaxTries, HeaderLen} \subseteq Nat \ {0} /\ {FeedbackCap, BufSize} \subseteq Nat
  /\ Guessed.short \in (HeaderLen + 1)..(Guessed.long - 1) /\ Guessed.long \in 1..BufSize
  /\ \A s \in Streams :
       /\ s.frames \in Seq(Frame) \ {<<>>} /\ s.frames[1].at = 0
       /\ \A n \in 1..(Len(s.frames) - 1) : s.frames[n + 1].at = s.frames[n].at + s.frames[n].len
       /\ IF s.kind = "report" THEN Uniform(s.frames) ELSE Commands(s.frames)

VARIABLES
  stream,   \* the one of Streams on this port; it never changes
  at,       \* bytes of the stream that recv has returned
  ended,    \* the arm has closed the connection
  errno,    \* what errno holds in this thread
  state,    \* state_ = 0
  pc,       \* where the thread is
  buf,      \* the bytes in recv_buf, or in recv_data of a report port, by their places
  offset,   \* buf_offset
  tries,    \* failed_cnt
  size, unsure,  \* size and size_is_not_confirm
  held, fheld,   \* how many frames the queues hold
  out,      \* history: the frames pushed, 0 for one that no one has sent
  fout,     \* history: the feedback pushed, negative when there was no room
  why,      \* history: what made the thread close the port
  spoilt    \* history: a read has ended where the code cannot cope with it

vars == <<stream, at, ended, errno, state, pc, buf, offset, tries, size, unsure, held, fheld,
          out, fout, why, spoilt>>
recvVars  == <<at, errno, buf, spoilt>>
queueVars == <<held, fheld, out, fout>>
env       == <<stream, ended>>

frames == stream.frames
Numbers == 1..Len(frames)
onReport == stream.kind = "report"

\* The place of the last byte of a frame, of its bytes, and of the last byte of all.
End(f) == frames[f].at + frames[f].len
Bytes(f) == [i \in 1..frames[f].len |-> frames[f].at + i]
Total == End(Len(frames))

\* The frame that these bytes are, or 0.
FrameOf(bytes) ==
  LET fs == {f \in Numbers : bytes = Bytes(f)} IN IF fs = {} THEN 0 ELSE CHOOSE f \in fs : TRUE

\* What is read where a header is thought to end at this place: a length and whether the
\* type is that of feedback, whatever they may be if none does.
HeaderAt(place) == {f \in Numbers : frames[f].at + HeaderLen = place}
Length(place) ==
  IF HeaderAt(place) # {} THEN {frames[f].says : f \in HeaderAt(place)}
  ELSE {frames[f].says : f \in Numbers} \cup {BufSize + 1}
Feedback(place) ==
  IF HeaderAt(place) # {} THEN {frames[f].type = "feedback" : f \in HeaderAt(place)} ELSE BOOLEAN

-----------------------------------------------------------------------------
Init ==
  /\ stream \in Streams
  /\ at = 0 /\ ended = FALSE /\ errno = "other" /\ state = TRUE /\ pc = "loop"
  /\ buf = <<>> /\ offset = 0 /\ tries = 0 /\ size = 0 /\ unsure = FALSE
  /\ held = 0 /\ fheld = 0 /\ out = <<>> /\ fout = <<>>
  /\ why = "none" /\ spoilt = FALSE

\* The test of both loops.  The thread deletes the queues on its way out.
Loop ==
  /\ pc = "loop"
  /\ pc' = IF state THEN "recv" ELSE "gone"
  /\ UNCHANGED <<env, recvVars, state, offset, tries, size, unsure, queueVars, why>>

\* Mutant: what the buffer holds already is forgotten.
WholeBuffer == BufSize

\* What recv asks for.  On a report port it is negative, and then no limit at all, when
\* the bytes that it has kept are more than the size it has settled for.
Room ==
  IF ~onReport THEN BufSize - Len(buf)
  ELSE LET wanted == (IF size = 0 THEN HeaderLen ELSE size) - Len(buf)
       IN  IF wanted < 0 THEN Total ELSE wanted

AtFrameEnd(place) == \E f \in Numbers : place = End(f)

\* recv returns some of what is there.
Recv ==
  /\ pc = "recv"
  /\ \E n \in 1..(Total - at) :
       /\ n <= Room
       /\ at' = at + n
       /\ buf' = buf \o [i \in 1..n |-> at + i]
       /\ spoilt' = (spoilt \/ (onReport /\ size # 0 /\ Len(buf) > size /\ ~AtFrameEnd(at + n)))
  /\ pc' = IF onReport THEN "report" ELSE "parse"
  /\ offset' = 0
  /\ UNCHANGED <<env, errno, state, tries, size, unsure, queueVars, why>>

\* Mutant: the thread takes the end for a pause.
CarriesOn(reason) == pc' = "loop" /\ UNCHANGED <<state, why>>

Close(reason) ==
  /\ state' = FALSE
  /\ pc' = "loop"
  /\ why' = IF state THEN reason ELSE why

\* recv returns 0, at the end of the stream or with no room: errno is what an earlier
\* call has left there, and a thread that was interrupted once goes on for ever.
RecvNothing ==
  /\ pc = "recv"
  /\ (ended /\ at = Total) \/ Room = 0
  /\ IF errno = "EINTR" THEN pc' = "loop" /\ UNCHANGED <<state, why>> ELSE Close("end")
  /\ UNCHANGED <<env, recvVars, offset, tries, size, unsure, queueVars>>

Interrupted ==
  /\ pc = "recv"
  /\ errno' = "EINTR"
  /\ pc' = "loop"
  /\ UNCHANGED <<env, at, buf, spoilt, state, offset, tries, size, unsure, queueVars, why>>

RecvFails ==
  /\ pc = "recv"
  /\ errno' = "other"
  /\ Close("error")
  /\ UNCHANGED <<env, at, buf, spoilt, offset, tries, size, unsure, queueVars>>

-----------------------------------------------------------------------------
(* recv_proc *)

Left == Len(buf) - offset

\* Mutant: the smallest frame is waited for a little longer.
LongHeader == Left >= 2 * HeaderLen

\* A header is there.
GoOn == Left >= HeaderLen

\* The next frame, when all of it is there.
Parse ==
  /\ pc = "parse" /\ state /\ GoOn
  /\ \E length \in Length(buf[offset + HeaderLen]), feedback \in Feedback(buf[offset + HeaderLen]) :
       /\ Left >= length
       /\ LET bytes == SubSeq(buf, offset + 1, offset + length) IN
            IF feedback
            THEN /\ offset' = offset + length
                 /\ IF FeedbackCap = 0 THEN UNCHANGED <<fheld, fout>>
                    ELSE IF fheld < FeedbackCap
                    THEN fheld' = fheld + 1 /\ fout' = Append(fout, FrameOf(bytes))
                    ELSE UNCHANGED fheld /\ fout' = Append(fout, -FrameOf(bytes))
                 /\ UNCHANGED <<pc, size>>
            ELSE pc' = "push" /\ size' = length /\ UNCHANGED <<offset, fheld, fout>>
  /\ tries' = 0
  /\ UNCHANGED <<env, recvVars, state, unsure, held, out, why>>

Push ==
  /\ pc = "push" /\ held < Cap
  /\ held' = held + 1
  /\ out' = Append(out, FrameOf(SubSeq(buf, offset + 1, offset + size)))
  /\ offset' = offset + size
  /\ pc' = "parse"
  /\ UNCHANGED <<env, recvVars, state, tries, size, unsure, fheld, fout, why>>

\* There is no room; it tries again, and in the end gives up.
Retry ==
  /\ pc = "push" /\ held = Cap
  /\ IF state /\ tries < MaxTries
     THEN tries' = tries + 1 /\ UNCHANGED <<state, pc, why>>
     ELSE Close("full") /\ UNCHANGED tries
  /\ UNCHANGED <<env, recvVars, offset, size, unsure, queueVars>>

\* Mutant: what is left is thrown away.
ThrowAway == <<>>

\* What is left of a frame is copied to recv_data, so that recv_buf has the right number
\* of bytes but those of its beginning: only a read that brought no whole frame
\* can be continued.
Rest == SubSeq(buf, 1, Left)

ParseEnds ==
  /\ pc = "parse"
  /\ \/ ~state \/ ~GoOn
     \/ GoOn /\ \E length \in Length(buf[offset + HeaderLen]) : Left < length
  /\ buf' = Rest
  /\ spoilt' = (spoilt \/ (offset > 0 /\ Left > 0))
  /\ pc' = "loop"
  /\ UNCHANGED <<env, at, errno, state, offset, tries, size, unsure, queueVars, why>>

-----------------------------------------------------------------------------
(* recv_report_proc *)

\* The length that a report gives which begins here; no other four bytes look like one.
Says(place) == IF \E f \in Numbers : place = frames[f].at + 1 THEN frames[1].says ELSE -1

\* The first bytes give the size; one that is ambiguous is taken for the longer.
LearnSize ==
  /\ pc = "report" /\ size = 0
  /\ IF Len(buf) # HeaderLen THEN UNCHANGED <<size, unsure>>
     ELSE /\ unsure' = (Says(buf[1]) = Guessed.short)
          /\ size' = IF unsure' THEN Guessed.long ELSE Says(buf[1])
  /\ pc' = "loop"
  /\ UNCHANGED <<env, recvVars, state, offset, tries, queueVars, why>>

\* Mutant: the shorter size is never considered.
NeverShort == FALSE

NextBeginsEarly == Says(buf[Guessed.short + 1]) = Guessed.short

\* Mutant: the length of a report is not looked at.
AnyLength == Len(buf) >= size

RightLength == Says(buf[1]) = size

\* With the bytes of the longer size there, is it another report that begins after the
\* shorter one?  What has been read stays in the buffer.
Report ==
  /\ pc = "report" /\ size # 0
  /\ LET short == unsure /\ NextBeginsEarly IN
       IF Len(buf) < size THEN pc' = "loop" /\ UNCHANGED <<state, size, unsure, why>>
       ELSE /\ unsure' = FALSE
            /\ IF short THEN pc' = "loop" /\ size' = Guessed.short /\ UNCHANGED <<state, why>>
               ELSE /\ UNCHANGED size
                    /\ IF ~RightLength THEN Close("length")
                       ELSE pc' = "room" /\ UNCHANGED <<state, why>>
  /\ UNCHANGED <<env, recvVars, offset, tries, queueVars>>

IsFull == held = Cap

MakeRoom ==
  /\ pc = "room"
  /\ pc' = IF IsFull THEN "drop" ELSE "put"
  /\ UNCHANGED <<env, recvVars, state, offset, tries, size, unsure, queueVars, why>>

\* pop, which returns -1 when the queue has been emptied in between.
Drop ==
  /\ pc = "drop"
  /\ held' = IF held > 0 THEN held - 1 ELSE held
  /\ pc' = "put"
  /\ UNCHANGED <<env, recvVars, state, offset, tries, size, unsure, fheld, out, fout, why>>

\* push, whose result is not looked at.
Put ==
  /\ pc = "put"
  /\ IF held < Cap
     THEN held' = held + 1 /\ out' = Append(out, FrameOf(SubSeq(buf, 1, size)))
     ELSE UNCHANGED <<held, out>>
  /\ buf' = <<>>
  /\ pc' = "loop"
  /\ UNCHANGED <<env, at, errno, spoilt, state, offset, tries, size, unsure, fheld, fout, why>>

-----------------------------------------------------------------------------
(* The others. *)

\* read_frame and read_feedback_frame.
Read ==
  /\ state
  /\ \/ held > 0 /\ held' = held - 1 /\ UNCHANGED fheld
     \/ fheld > 0 /\ fheld' = fheld - 1 /\ UNCHANGED held
  /\ UNCHANGED <<env, recvVars, state, pc, offset, tries, size, unsure, out, fout, why>>

\* close_port of another thread; recv does not return for it.
ClosePort ==
  /\ state
  /\ state' = FALSE
  /\ why' = "user"
  /\ UNCHANGED <<env, recvVars, pc, offset, tries, size, unsure, queueVars>>

PeerCloses ==
  /\ ended' = TRUE
  /\ UNCHANGED <<stream, recvVars, state, pc, offset, tries, size, unsure, queueVars, why>>

Thread == Loop \/ Recv \/ RecvNothing \/ Parse \/ Push \/ Retry \/ ParseEnds
          \/ LearnSize \/ Report \/ MakeRoom \/ Drop \/ Put

Next == Thread \/ Interrupted \/ RecvFails \/ Read \/ ClosePort \/ PeerCloses

Spec == Init /\ [][Next]_vars /\ WF_vars(Thread)

-----------------------------------------------------------------------------
\* Only the read without a limit may bring more than the buffer has room for.
TypeOK ==
  /\ stream \in Streams /\ at \in 0..Total
  /\ ended \in BOOLEAN /\ errno \in {"EINTR", "other"} /\ state \in BOOLEAN
  /\ pc \in {"loop", "recv", "parse", "push", "report", "room", "drop", "put", "gone"}
  /\ Len(buf) > BufSize => onReport /\ frames[1].says = Guessed.short
  /\ offset \in 0..BufSize
  /\ tries \in 0..MaxTries /\ size \in 0..(BufSize + 1) /\ unsure \in BOOLEAN
  /\ held \in 0..Cap /\ fheld \in 0..FeedbackCap
  /\ why \in {"none", "end", "error", "full", "length", "user"} /\ spoilt \in BOOLEAN

\* Frames of a type, each once, in the order in which they were sent, none left out.
InOrder(seq, type) ==
  /\ \A i \in 1..Len(seq) : seq[i] \in Numbers /\ frames[seq[i]].type = type
  /\ \A i, j \in 1..Len(seq) : i < j => seq[i] < seq[j]
  /\ \A i \in 1..Len(seq) : \A f \in 1..seq[i] :
       frames[f].type = type => \E j \in 1..i : seq[j] = f

\* However TCP cuts the stream, the answers come out whole, each once and in order, and
\* so does the feedback, less what found no room; as long as no read has ended in the
\* middle of a frame after bringing a whole one.
AnswersInOrder ==
  ~onReport /\ ~spoilt =>
    /\ InOrder(out, "answer")
    /\ InOrder([i \in 1..Len(fout) |-> IF fout[i] < 0 THEN -fout[i] ELSE fout[i]], "feedback")

\* No frame that is there waits for the next read.
NoneLeftBehind ==
  ~onReport /\ ~spoilt /\ pc = "recv" /\ state =>
    \A f \in Numbers, i \in 1..Len(buf) : buf[i] # End(f)

\* Every report that goes into the queue is one that the arm has sent, whole, and the one
\* after the one before it, from the first on.  Only with the ambiguous length there is a gap,
\* once: the read without a limit that follows the guess takes the second report away,
\* and with it as many of the next as it brings.
ReportsInStep ==
  onReport =>
    \A i \in 1..Len(out) :
      /\ out[i] > 0
      /\ i = 1 => out[i] = 1
      /\ i > 1 => IF i = 2 /\ frames[1].says = Guessed.short
                 THEN out[i] > 2 ELSE out[i] = out[i - 1] + 1

\* Reports of one size keep the port open, those of the ambiguous length as long as the
\* read after the guess ends with a report; an arm that gives the shorter length and sends
\* the longer report is given up at its first.
SameSizeStaysOpen ==
  why = "length" => spoilt \/ frames[1].says # frames[1].len

\* The thread of a connection that the arm has closed comes to its end, unless a call of
\* it was interrupted before.
EndIsNoticed == (ended /\ errno = "other") ~> (pc = "gone" \/ errno = "EINTR")
=============================================================================
