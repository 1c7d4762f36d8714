----------------------------- MODULE CupDetector -----------------------------
(***************************************************************************)
(* The node of cup_detector.py: callback handles one camera frame, runs    *)
(* the loop of nms over its bottles and then over its cups, and publishes  *)
(* a point for each.  rospy makes the calls one at a time.                 *)
(* The network is left out: a frame is the sequence of its predictions,    *)
(* with their corners already scaled to the frame, and may be any.         *)
(***************************************************************************)
EXTENDS Nms

CONSTANTS Width, Height,  \* of the frame
          Frames,         \* sequences of [cls, box, score], the score in percent
          None            \* Python's None

ASSUME DetectorAssumption ==
  /\ Width \in Nat \ {0} /\ Height \in Nat \ {0} /\ None \notin Int \X Int
  /\ \A f \in Frames : \A k \in DOMAIN f : /\ f[k].box \in Int \X Int \X Int \X Int
                                         /\ f[k].score \in Int

Topics     == {"bottle", "cup"}
HistoryLen == 5

VARIABLES
  frame,    \* the frame in hand, or None
  todo,     \* the topic whose boxes nms has in hand
  found,    \* the centre of the bottle that nms kept first, or None
  history,  \* for each topic the last detections, at most HistoryLen
  out,      \* what the last frame published on the topic, or None
  seen      \* history: the centre detected last, and how often in a row

handled == <<history, out, seen>>

vars == <<nmsVars, frame, todo, found, history, out, seen>>

\* RELEVANT_CLASSES: bottles are one topic, wine glasses and cups the other.
TopicOf(cls) ==
  CASE cls = 39 -> "bottle" [] cls \in {40, 41} -> "cup" [] OTHER -> "none"

\* Mutant: the corners are not clamped to the frame.
Unclipped(b) == b

\* The corners, clamped to the frame.
Clip(b) ==
  LET into(x, last) == IF x > last THEN last ELSE IF x < 0 THEN 0 ELSE x
  IN  <<into(b[1], Width - 1), into(b[2], Height - 1),
        into(b[3], Width - 1), into(b[4], Height - 1)>>

\* The predictions of a topic: confident enough, and not empty once clipped.
Candidates(f, t) ==
  {k \in DOMAIN f : LET b == Clip(f[k].box)
                   IN  TopicOf(f[k].cls) = t /\ f[k].score > 20 /\ b[3] > b[1] /\ b[4] > b[2]}

Boxes(f, t)  == [k \in Candidates(f, t) |-> Clip(f[k].box)]
Scores(f, t) == [k \in Candidates(f, t) |-> f[k].score]

Centre(b) == <<(b[1] + b[3]) \div 2, (b[2] + b[4]) \div 2>>

\* The centre of the box that nms kept first.
Detection == IF keep = <<>> THEN None ELSE Centre(boxes[keep[1]])

\* Mutant: a full history takes nothing new.
RememberWhileRoom(h, d) == IF Len(h) = HistoryLen THEN h ELSE Append(h, d)

\* deque(maxlen=5).
Remember(h, d) ==
  IF Len(h) = HistoryLen THEN Append(Tail(h), d) ELSE Append(h, d)

\* The sums of the first n of them.
Sums(h, axis) ==
  LET sum[n \in 0..Len(h)] == IF n = 0 THEN 0 ELSE sum[n - 1] + h[n][axis] IN sum

Mean(h, axis) == Sums(h, axis)[Len(h)] \div Len(h)

\* Mutant: nothing detected, nothing remembered.
SmoothOnlyNew(h, d) ==
  IF d = None THEN [history |-> <<>>, point |-> None]
  ELSE LET new == Remember(h, d)
       IN  [history |-> new, point |-> <<Mean(new, 1), Mean(new, 2)>>]

\* smooth_detection: the mean of the last five detections, this one with them, or
\* the last one again, as it was, when this frame shows none.
Smooth(h, d) ==
  IF d = None
  THEN [history |-> h, point |-> IF h = <<>> THEN None ELSE h[Len(h)]]
  ELSE LET new == Remember(h, d)
       IN  [history |-> new, point |-> <<Mean(new, 1), Mean(new, 2)>>]

-----------------------------------------------------------------------------
Init ==
  /\ boxes = <<>> /\ scores = <<>> /\ order = {} /\ keep = <<>>
  /\ frame = None /\ todo = "bottle" /\ found = None
  /\ history = [t \in Topics |-> <<>>]
  /\ out = [t \in Topics |-> None]
  /\ seen = [t \in Topics |-> [at |-> None, times |-> 0]]

\* A frame comes, with what the network sees in it; the bottles go to nms.
Predict(f) ==
  /\ frame = None
  /\ frame' = f /\ todo' = "bottle" /\ found' = None
  /\ Call(Boxes(f, "bottle"), Scores(f, "bottle"))
  /\ UNCHANGED handled

\* nms at work.
Suppress ==
  /\ Round
  /\ UNCHANGED <<frame, todo, found, handled>>

\* nms is through with the bottles and gets the cups.
Cups ==
  /\ frame # None /\ todo = "bottle" /\ order = {}
  /\ found' = Detection /\ todo' = "cup"
  /\ Call(Boxes(frame, "cup"), Scores(frame, "cup"))
  /\ UNCHANGED <<frame, handled>>

\* nms is through with the cups; both detections are smoothed and published.
Publish ==
  /\ frame # None /\ todo = "cup" /\ order = {}
  /\ LET d == [t \in Topics |-> IF t = "bottle" THEN found ELSE Detection] IN
       /\ history' = [t \in Topics |-> Smooth(history[t], d[t]).history]
       /\ out' = [t \in Topics |-> Smooth(history[t], d[t]).point]
       /\ seen' = [t \in Topics |->
            IF d[t] = None THEN seen[t]
            ELSE [at |-> d[t], times |-> IF d[t] # seen[t].at THEN 1
                                         ELSE Smaller(seen[t].times + 1, HistoryLen)]]
  /\ frame' = None
  /\ UNCHANGED <<nmsVars, todo, found>>

Next == (\E f \in Frames : Predict(f)) \/ Suppress \/ Cups \/ Publish

Spec == Init /\ [][Next]_vars

-----------------------------------------------------------------------------

\* Every published point is a pixel of the frame, however far outside it the
\* network has put the corners of the boxes.
PublishedInFrame ==
  \A t \in Topics : out[t] # None
    => out[t][1] \in 0..(Width - 1) /\ out[t][2] \in 0..(Height - 1)

\* Five detections at one place are enough to forget every earlier one: the point
\* published is then that place, frames without a detection in between or not.
SettlesInFive ==
  \A t \in Topics : seen[t].times = HistoryLen => out[t] = seen[t].at

\* A topic once published is published for every frame from then on, whether the
\* frame shows anything or not: a bottle taken away is still reported.
KeepsPublishing ==
  [][\A t \in Topics : out[t] # None => out'[t] # None]_vars
=============================================================================
