------------------------ MODULE GripperActionProofs ------------------------
(***************************************************************************)
(* What a return code of 0 says of a tool, for every call, and for every   *)
(* tool that keeps within the polls the waits allow for it; and that the   *)
(* handler of a goal outlives the thread that it has started.              *)
(***************************************************************************)
EXTENDS GripperAction, TLAPS

\* A gripper begins to move, and is seen to, within the polls that its waits allow for.
Prompt == Lag["position"] + Pace < NoProgress /\ Lag["status"] <= NotStarted

Codes == {"ok", "FAULT", "FAILED", "NOT_INIT", "NOT_ENABLED", "CHECK_FAILED", "TIMEOUT"}
Unsaid == {"off", "born", "check", "enable", "enabling", "set"}
Said   == {"first", "wait"}
Over   == {"after", "end", "gone"}

ToolTyped == tool \in [phase : {"rest", "lag", "moving", "fault"}, enabled : {"no", "waking", "yes"},
                       zero : BOOLEAN, pos : Int, done : BOOLEAN]

WaitTyped == wait \in [last : Int, up : BOOLEAN, cnt : Nat, past : Nat, failed : Nat]

Types ==
  /\ job \in Jobs /\ ToolTyped /\ WaitTyped
  /\ quiet \in Nat /\ pc \in Unsaid \cup Said \cup Over /\ ret \in Codes \cup {"none"}

\* The handler waits for its thread.
HandlerStays ==
  /\ pc \in {"end", "gone"} => ret # "none"
  /\ job = "server" => pc = "off" /\ ret = "none"
  /\ pc = "born" => WithHandler
  /\ WithHandler =>
       /\ goal \in {"none", "canceled"} => pc = "off"
       /\ goal = "accepted" => pc # "off"
       /\ goal = "succeeded" => pc = "gone"
       /\ pc \notin {"off", "gone"} => is_move

\* Before the command the tool does nothing.
Still ==
  /\ tool.phase \in {"rest", "fault"} /\ ~tool.done /\ ret = "none"
  /\ HasPosition => tool.pos # Target
  /\ job = "origin" => ~tool.zero

\* The tool is enabled when it is to have its command, unless the call finds out later.
ReadyToSet ==
  /\ job \in {"position", "status"} /\ pc # "off" => tool.enabled = "yes"
  /\ job = "track" /\ pc \in {"set"} \cup Said => tool.enabled = "yes"
  /\ job = "bio" /\ pc \notin {"enable", "enabling"} => tool.enabled # "waking"
  /\ job # "bio" => tool.enabled # "waking"

\* A tool at rest that was given a command has carried it out, or is not enabled.
RestIsDone ==
  /\ tool.phase = "rest" => tool.done \/ (job \in {"bio", "robotiq"} /\ tool.enabled # "yes")
  /\ job = "activate" /\ tool.enabled = "yes" => tool.done
  /\ job = "origin" /\ tool.zero => tool.done

Busy == tool.phase \in {"lag", "moving"}

\* A gripper on its way is on the same side of the target as it was, and cnt holds no
\* more polls than went by without anything to be seen.
PositionWaits ==
  /\ tool.pos = Target => tool.done
  /\ pc = "first" => quiet = 0
  /\ Busy /\ pc = "wait" =>
       /\ wait.past = 0
       /\ wait.up <=> tool.pos < Target
       /\ wait.up => wait.last <= tool.pos
       /\ ~wait.up => wait.last >= tool.pos
       /\ tool.phase = "lag" => wait.last = tool.pos /\ wait.cnt <= quiet /\ quiet <= Lag[job]
       /\ tool.phase = "moving" =>
            /\ quiet <= Pace
            /\ wait.cnt <= Lag[job] + (IF wait.last = tool.pos THEN quiet ELSE Pace)

StatusWaits ==
  tool.phase = "lag" => wait.up /\ wait.cnt <= quiet /\ quiet <= Lag[job]

\* The inductive invariant of ZeroIsDone.  Once a failure was ignored it says nothing.
Honest ==
  /\ tool.done => ~Busy
  /\ pc = "first" => job = "position"
  /\ pc \in {"enable", "enabling"} => job \in {"bio", "track"}
  /\ pc \in Unsaid /\ job # "server" => Still
  /\ ignored = {} => /\ ReadyToSet
                     /\ pc \in Said => RestIsDone
                     /\ pc \in Said /\ job = "position" => PositionWaits
                     /\ pc \in Said /\ job = "status" => StatusWaits
                     /\ ret = "ok" => tool.done

IInv == Types /\ HandlerStays /\ Honest

-----------------------------------------------------------------------------
\* The initial state.
LEMMA InitHolds == Init => IInv
<1> SUFFICES ASSUME Init PROVE IInv
  OBVIOUS
<1>0. /\ job \in Jobs /\ quiet = 0 /\ pc = "off" /\ ret = "none" /\ ignored = {}
      /\ goal = "none" /\ wait = Fresh
      /\ tool.phase \in {"rest", "fault"} /\ tool.enabled # "waking" /\ tool.done = FALSE
  BY DEF Init
<1>1. Types
  <2>1. ToolTyped
    <3> DEFINE P == IF HasPosition THEN {0, 4} ELSE {0}
    <3>1. tool \in [phase : {"rest", "fault"}, enabled : {"no", "yes"}, zero : BOOLEAN,
                    pos : P, done : {FALSE}]
      BY DEF Init
    <3>2. P \subseteq Int
      OBVIOUS
    <3> HIDE DEF P
    <3> QED
      BY <3>1, <3>2 DEF ToolTyped
  <2>2. WaitTyped
    BY <1>0 DEF WaitTyped, Fresh
  <2> QED
    BY <1>0, <2>1, <2>2 DEF Types, Unsaid
<1>2. HandlerStays
  BY DEF Init, HandlerStays
<1>3. Honest
  <2>1. HasPosition => tool.pos # Target
    BY DEF Init, Target
  <2>2. job = "origin" => ~tool.zero
    BY DEF Init
  <2> QED
    BY <1>0, <2>1, <2>2 DEF Honest, Still, ReadyToSet, Busy, Unsaid, Said
<1> QED
  BY <1>1, <1>2, <1>3 DEF IInv

\* A command leaves the tool well typed.
LEMMA CommandedTyped ==
  ASSUME ToolTyped, NEW reached \in BOOLEAN
  PROVE  Commanded(reached) \in [phase : {"rest", "lag", "moving", "fault"},
                                 enabled : {"no", "waking", "yes"}, zero : BOOLEAN, pos : Int,
                                 done : BOOLEAN]
<1>1. (job = "activate" /\ tool.enabled = "yes") \in BOOLEAN
  OBVIOUS
<1> QED
  BY <1>1 DEF Commanded, ToolTyped

\* What a poll sees is counted.
LEMMA SeenTyped ==
  ASSUME ToolTyped, WaitTyped
  PROVE  /\ PositionSeen \in [last : Int, up : BOOLEAN, cnt : Nat, past : Nat, failed : Nat]
         /\ StatusSeen \in [last : Int, up : BOOLEAN, cnt : Nat, past : Nat, failed : Nat]
<1>1. PositionSeen \in {[wait EXCEPT !.cnt = @ + 1], [wait EXCEPT !.past = @ + 1],
                       [wait EXCEPT !.last = tool.pos, !.cnt = 0, !.past = 0]}
  BY DEF PositionSeen
<1>2. StatusSeen \in {[wait EXCEPT !.up = FALSE, !.cnt = 0], [wait EXCEPT !.cnt = @ + 1], wait}
  BY DEF StatusSeen
<1> DEFINE W == [last : Int, up : BOOLEAN, cnt : Nat, past : Nat, failed : Nat]
<1>3. wait \in W /\ wait.cnt + 1 \in Nat /\ wait.past + 1 \in Nat /\ tool.pos \in Int
  BY DEF ToolTyped, WaitTyped
<1>4. [wait EXCEPT !.cnt = @ + 1] \in W
  BY <1>3
<1>5. [wait EXCEPT !.past = @ + 1] \in W
  BY <1>3
<1>6. [wait EXCEPT !.last = tool.pos, !.cnt = 0, !.past = 0] \in W
  BY <1>3
<1>7. [wait EXCEPT !.up = FALSE, !.cnt = 0] \in W
  BY <1>3
<1> QED
  BY <1>1, <1>2, <1>3, <1>4, <1>5, <1>6, <1>7, Zenon

\* A poll gives a return code or goes on.
LEMMA CodeIsCode == Code \in Codes \cup {"on"}
  BY DEF Code, Codes, EnableCode, PositionCode, StatusCode, MotionCode, MovedIfEnabled, ActivateCode,
     TrackCode, OriginCode

\* Every step keeps the types.
LEMMA TypesNext == Types /\ [Next]_vars => Types'
<1> SUFFICES ASSUME Types, [Next]_vars PROVE Types'
  OBVIOUS
<1> USE DEF Types, Unsaid, Said, Over, Codes, Return
<1>1. CASE UNCHANGED vars
  BY <1>1 DEF vars, toolVars, ToolTyped, WaitTyped
<1>2. CASE Sdk
  <2>1. CASE CheckBio
    BY <2>1 DEF CheckBio, EnableUnless, ToolTyped, WaitTyped
  <2>2. CASE CheckTrack
    BY <2>2 DEF CheckTrack, EnableUnless, ToolTyped, WaitTyped
  <2>3. CASE Enable
    BY <2>3 DEF Enable, Fresh, ToolTyped, WaitTyped
  <2>4. CASE Set
    <3>1. PICK reached \in BOOLEAN : tool' = Commanded(reached)
      BY <2>4 DEF Set
    <3>2. ToolTyped'
      BY <3>1, CommandedTyped DEF ToolTyped
    <3>3. WaitTyped'
      BY <2>4 DEF Set, Fresh, WaitTyped
    <3> QED
      BY <2>4, <3>2, <3>3 DEF Set
  <2>5. CASE FirstPosition
    <3>1. WaitTyped'
      <4> DEFINE up == Target > tool.pos
      <4>1. up \in BOOLEAN /\ tool.pos \in Int
        BY DEF ToolTyped
      <4>2. wait' = [Fresh EXCEPT !.last = tool.pos, !.up = up] \/ wait' = Fresh
        BY <2>5 DEF FirstPosition
      <4> HIDE DEF up
      <4>3. Fresh \in [last : Int, up : BOOLEAN, cnt : Nat, past : Nat, failed : Nat]
        BY DEF Fresh
      <4> QED
        BY <4>1, <4>2, <4>3 DEF WaitTyped
    <3> QED
      BY <2>5, <3>1 DEF FirstPosition, ToolTyped
  <2>6. CASE PollAnswered
    <3>1. WaitTyped'
      BY <2>6, SeenTyped DEF PollAnswered, WaitTyped
    <3>2. quiet' \in Nat
      BY <2>6 DEF PollAnswered, Waited
    <3>3. UNCHANGED <<job, tool>>
      BY <2>6 DEF PollAnswered
    <3>4. pc' \in Unsaid \cup Said \cup Over /\ ret' \in Codes \cup {"none"}
      <4>1. UNCHANGED <<pc, ret>> \/ WaitOver("FAULT") \/ (Code # "on" /\ WaitOver(Code))
        BY <2>6 DEF PollAnswered
      <4> QED
        BY <2>6, <4>1, CodeIsCode DEF WaitOver, PollAnswered
    <3> QED
      BY <3>1, <3>2, <3>3, <3>4 DEF ToolTyped
  <2>7. CASE PollLost
    BY <2>7 DEF PollLost, WaitOver, Waited, ToolTyped, WaitTyped
  <2>8. CASE EnableAfterOrigin
    BY <2>8 DEF EnableAfterOrigin, ToolTyped, WaitTyped
  <2> QED
    BY <1>2, <2>1, <2>2, <2>3, <2>4, <2>5, <2>6, <2>7, <2>8 DEF Sdk
<1>3. CASE Time
  BY <1>3 DEF Time, Expire, WaitOver, ToolTyped, WaitTyped
<1>4. CASE Motion
  <2>1. CASE ToolStarts
    BY <2>1 DEF ToolStarts, ToolTyped, WaitTyped
  <2>2. CASE ToolMoves
    <3>1. PICK n \in {1, 2} :
            tool' = [tool EXCEPT !.pos = Toward(tool.pos, n), !.done = Crossed(tool.pos, Toward(tool.pos, n)),
                                 !.phase = IF Crossed(tool.pos, Toward(tool.pos, n)) THEN "rest" ELSE @]
      BY <2>2 DEF ToolMoves
    <3>2. Toward(tool.pos, n) \in Int
      BY DEF Toward, Target, ToolTyped
    <3>3. Crossed(tool.pos, Toward(tool.pos, n)) \in BOOLEAN
      BY DEF Crossed
    <3>4. ToolTyped'
      BY <3>1, <3>2, <3>3 DEF ToolTyped
    <3> QED
      BY <2>2, <3>4 DEF ToolMoves, WaitTyped
  <2>3. CASE ToolStops
    BY <2>3 DEF ToolStops, ToolTyped, WaitTyped
  <2>4. CASE ToolIsEnabled
    BY <2>4 DEF ToolIsEnabled, ToolTyped, WaitTyped
  <2> QED
    BY <1>4, <2>1, <2>2, <2>3, <2>4 DEF Motion
<1>5. CASE Fault
  BY <1>5 DEF Fault, ToolFails, ToolTyped, WaitTyped
<1>6. CASE Accept
  <2>1. ToolTyped'
    BY <1>6 DEF Accept, ToolTyped
  <2> QED
    BY <1>6, <2>1 DEF Accept, WaitTyped
<1>7. CASE Begin \/ End \/ Leave \/ Shutdown \/ Call
  BY <1>7 DEF Begin, End, Leave, Shutdown, Call, toolVars, ToolTyped, WaitTyped
<1>8. CASE ServerStart
  <2> DEFINE T == [phase : {"rest", "lag", "moving", "fault"}, enabled : {"no", "waking", "yes"},
                   zero : BOOLEAN, pos : Int, done : BOOLEAN]
  <2>1. /\ UNCHANGED <<job, quiet, pc, ret, wait>>
        /\ \/ tool' = tool
           \/ \E p \in {"lag", tool.phase} :
                tool' = [Commanded(TRUE) EXCEPT !.enabled = "yes", !.phase = p]
    BY <1>8, Zenon DEF ServerStart
  <2>2. Commanded(TRUE) \in T /\ tool \in T
    BY CommandedTyped DEF ToolTyped
  <2> DEFINE new == Commanded(TRUE)
  <2>3. new \in T
    BY <2>2
  <2> HIDE DEF new
  <2>4. \A p \in {"rest", "lag", "moving", "fault"} : [new EXCEPT !.enabled = "yes", !.phase = p] \in T
    BY <2>3
  <2>5. "lag" \in {"rest", "lag", "moving", "fault"} /\ tool.phase \in {"rest", "lag", "moving", "fault"}
    BY <2>2
  <2>6. tool' \in T
    <3>1. CASE tool' = tool
      BY <2>2, <3>1, Zenon
    <3>2. ASSUME NEW p \in {"lag", tool.phase}, tool' = [new EXCEPT !.enabled = "yes", !.phase = p]
          PROVE  tool' \in T
      <4>1. p \in {"rest", "lag", "moving", "fault"}
        BY <2>5
      <4> QED
        BY <2>4, <3>2, <4>1, Zenon
    <3> QED
      BY <2>1, <3>1, <3>2, Zenon DEF new
  <2> QED
    BY <2>1, <2>6 DEF ToolTyped, WaitTyped
<1>9. CASE ServerPreempt
  BY <1>9 DEF ServerPreempt, ToolTyped, WaitTyped
<1>10. ASSUME NEW answered \in BOOLEAN, ServerPoll(answered) PROVE Types'
  BY <1>10 DEF ServerPoll, Waited, ToolTyped, WaitTyped
<1> QED
  BY <1>1, <1>2, <1>3, <1>4, <1>5, <1>6, <1>7, <1>8, <1>9, <1>10 DEF Next

\* Every step keeps the handler waiting.
LEMMA HandlerNext == Types /\ HandlerStays /\ [Next]_vars => HandlerStays'
<1> SUFFICES ASSUME Types, HandlerStays, [Next]_vars PROVE HandlerStays'
  OBVIOUS
<1> USE DEF HandlerStays, WithHandler
<1>1. CASE UNCHANGED vars
  BY <1>1 DEF vars, toolVars
<1>2. CASE Sdk \/ Time
  <2>1. /\ pc \notin {"off", "gone", "end"} /\ pc' \notin {"off", "gone", "born"}
        /\ pc' = "end" => ret' # "none"
    <3>1. CASE PollAnswered
      <4>1. UNCHANGED <<pc, ret>> \/ WaitOver("FAULT") \/ (Code # "on" /\ WaitOver(Code))
        BY <3>1 DEF PollAnswered
      <4>2. pc \in {"wait", "enabling"}
        BY <3>1 DEF PollAnswered
      <4> QED
        BY <4>1, <4>2, CodeIsCode DEF WaitOver, Return, Codes
    <3> QED
      BY <1>2, <3>1 DEF Sdk, Time, CheckBio, CheckTrack, Enable, Set, FirstPosition,
         PollLost, EnableAfterOrigin, Expire, WaitOver, Return, EnableUnless
  <2>2. is_move' <=> is_move
    BY <1>2 DEF Sdk, Time
  <2>3. UNCHANGED <<job, goal>>
    BY <1>2 DEF Sdk, Time, CheckBio, CheckTrack, Enable, Set, FirstPosition, PollAnswered,
       PollLost, EnableAfterOrigin, Expire
  <2> HIDE <1>2
  <2> QED
    BY <2>1, <2>2, <2>3
<1>3. CASE Motion \/ Fault
  BY <1>3 DEF Motion, Fault, ToolStarts, ToolMoves, ToolStops, ToolIsEnabled, ToolFails
<1>4. CASE Accept
  BY <1>4 DEF Accept, IsMoveAtFirst
<1>5. CASE Begin
  BY <1>5 DEF Begin
<1>6. CASE End
  BY <1>6 DEF End, TellEnd
<1>7. CASE Leave
  BY <1>7 DEF Leave, toolVars
<1>8. CASE Shutdown
  BY <1>8 DEF Shutdown, toolVars
<1>9. CASE Call
  BY <1>9 DEF Call
<1>10. CASE ServerStart \/ ServerPreempt
  BY <1>10 DEF ServerStart, ServerPreempt
<1>11. ASSUME NEW answered \in BOOLEAN, ServerPoll(answered) PROVE HandlerStays'
  BY <1>11 DEF ServerPoll
<1> QED
  BY <1>1, <1>2, <1>3, <1>4, <1>5, <1>6, <1>7, <1>8, <1>9, <1>10, <1>11 DEF Next

-----------------------------------------------------------------------------
(* The return code.                                                         *)

\* The tool on its way.
LEMMA StartsHonest == ASSUME Types, HandlerStays, Honest, ToolStarts PROVE Honest'
<1> USE DEF ToolStarts, Types, HandlerStays, Honest, Busy, ToolTyped
<1>1. /\ tool.phase = "lag" /\ tool'.phase = "moving" /\ tool'.enabled = tool.enabled
      /\ tool'.zero = tool.zero /\ tool'.pos = tool.pos /\ tool'.done = tool.done
  OBVIOUS
<1>2. ~tool'.done
  BY <1>1
<1>3. ~(pc \in Unsaid /\ job # "server")
  BY <1>1 DEF Still
<1>4. ignored = {} => ReadyToSet'
  BY <1>1 DEF ReadyToSet
<1>5. ignored = {} /\ pc \in Said => RestIsDone'
  BY <1>1 DEF RestIsDone
<1>6. ignored = {} /\ pc \in Said /\ job = "position" => PositionWaits'
  <2>1. Lag["position"] \in Nat /\ Pace \in Nat /\ wait.cnt \in Nat
    BY ToolAssumption DEF Calls, WaitTyped
  <2> QED
    BY <1>1, <2>1 DEF PositionWaits
<1>7. ignored = {} /\ pc \in Said /\ job = "status" => StatusWaits'
  BY <1>1 DEF StatusWaits
<1>8. ignored = {} /\ ret = "ok" => tool'.done
  BY <1>1
<1> QED
  BY <1>2, <1>3, <1>4, <1>5, <1>6, <1>7, <1>8

\* A gripper that moves, to its target, past it or on its way.
LEMMA MovesHonest == ASSUME Types, HandlerStays, Honest, ToolMoves PROVE Honest'
<1> USE DEF Types, HandlerStays, Honest, Busy, HasPosition
<1>1. PICK n \in {1, 2} :
        /\ n = 2 => Toward(tool.pos, 1) = Target
        /\ tool' = [tool EXCEPT !.pos = Toward(tool.pos, n),
                                !.done = Crossed(tool.pos, Toward(tool.pos, n)),
                                !.phase = IF Crossed(tool.pos, Toward(tool.pos, n)) THEN "rest" ELSE @]
  BY DEF ToolMoves
<1> DEFINE p == Toward(tool.pos, n)
           crossed == Crossed(tool.pos, p)
<1>2. /\ tool.phase = "moving" /\ job \in {"position", "server"}
      /\ quiet' = 0 /\ UNCHANGED <<job, pc, ret, wait, ignored>>
  BY DEF ToolMoves
<1>3. /\ tool'.enabled = tool.enabled /\ tool'.zero = tool.zero /\ tool'.pos = p
      /\ tool'.phase = IF crossed THEN "rest" ELSE "moving"
  BY <1>1, <1>2 DEF ToolTyped
<1>4. tool'.done <=> crossed
  <2>1. tool'.done = crossed
    BY <1>1 DEF ToolTyped
  <2> HIDE DEF crossed
  <2> QED
    BY <2>1, Zenon
<1>5. ~tool.done /\ ~(pc \in Unsaid /\ job # "server")
  BY <1>2 DEF Still
<1>6. ignored = {} => ReadyToSet'
  BY <1>2, <1>3 DEF ReadyToSet
<1>7. RestIsDone'
  BY <1>2, <1>3, <1>4 DEF RestIsDone
<1>8. ignored = {} /\ pc \in Said /\ job = "position" => PositionWaits'
  <2> SUFFICES ASSUME ignored = {}, pc \in Said, job = "position" PROVE PositionWaits'
    OBVIOUS
  <2>1. /\ tool.pos \in Int /\ wait.cnt \in Nat /\ wait.last \in Int
        /\ Lag[job] \in Nat /\ Pace \in Nat
    BY ToolAssumption DEF Calls, ToolTyped, WaitTyped
  <2>2. p \in Int /\ (p = Target => crossed)
    BY <2>1 DEF Toward, Target, Crossed
  <2>3. CASE crossed
    BY <1>2, <1>3, <1>4, <2>3 DEF PositionWaits
  <2>4. CASE ~crossed
    <3>1. (p < Target <=> tool.pos < Target) /\ p # Target /\ tool.pos # Target
      BY <1>5, <2>4, <2>1 DEF Crossed, PositionWaits
    <3>2. n = 1
      BY <1>1, <2>1, <3>1 DEF Toward, Target
    <3>3. IF tool.pos < Target THEN p = tool.pos + 1 ELSE p = tool.pos - 1
      BY <2>1, <3>2 DEF Toward
    <3> HIDE DEF p
    <3>4. pc = "wait" => /\ wait.past = 0 /\ (wait.up <=> p < Target)
                         /\ wait.up => wait.last < p
                         /\ ~wait.up => wait.last > p
                         /\ wait.cnt <= Lag[job] + Pace
      BY <1>2, <2>1, <3>1, <3>3 DEF PositionWaits, Target
    <3>5. tool'.phase = "moving" /\ tool'.pos = p
      BY <1>3, <2>4
    <3> HIDE DEF crossed
    <3> QED
      BY <1>2, <2>1, <2>2, <2>4, <3>4, <3>5 DEF PositionWaits
  <2> QED
    BY <2>3, <2>4
<1> QED
  BY <1>2, <1>3, <1>4, <1>5, <1>6, <1>7, <1>8 DEF Said

\* What was commanded is done.
LEMMA StopsHonest == ASSUME Types, HandlerStays, Honest, ToolStops PROVE Honest'
<1> USE DEF Types, HandlerStays, Honest, Busy
<1>1. /\ tool.phase = "moving" /\ quiet' = 0 /\ UNCHANGED <<job, pc, ret, wait, ignored>>
  BY DEF ToolStops
<1>2. /\ tool'.phase = "rest" /\ tool'.pos = tool.pos /\ tool'.done = TRUE
      /\ tool'.enabled = IF job = "activate" THEN "yes" ELSE tool.enabled
  BY DEF ToolStops, ToolTyped
<1>3. tool'.done
  BY <1>2
<1>4. ~(pc \in Unsaid /\ job # "server")
  BY <1>1 DEF Still
<1>5. ignored = {} => ReadyToSet'
  BY <1>1, <1>2 DEF ReadyToSet
<1>6. RestIsDone' /\ (ignored = {} /\ pc \in Said /\ job = "position" => PositionWaits') /\ StatusWaits'
  BY <1>1, <1>2, <1>3 DEF RestIsDone, PositionWaits, StatusWaits
<1> QED
  BY <1>1, <1>2, <1>3, <1>4, <1>5, <1>6

\* A tool that was waking is enabled.
LEMMA EnabledHonest == ASSUME Types, HandlerStays, Honest, ToolIsEnabled PROVE Honest'
<1> USE DEF Types, HandlerStays, Honest, Busy
<1>1. /\ tool.enabled = "waking" /\ UNCHANGED <<job, pc, quiet, ret, wait, ignored>>
  BY DEF ToolIsEnabled
<1>2. /\ tool'.phase = tool.phase /\ tool'.pos = tool.pos /\ tool'.enabled = "yes"
      /\ tool'.done <=> tool.done
      /\ tool'.zero <=> tool.zero
  BY DEF ToolIsEnabled, ToolTyped
<1>3. ignored = {} => job = "bio" /\ pc \in {"enable", "enabling"} /\ ReadyToSet'
  BY <1>1, <1>2 DEF ReadyToSet
<1>4. Still => Still'
  BY <1>1, <1>2 DEF Still, HasPosition
<1> QED
  BY <1>1, <1>2, <1>3, <1>4 DEF Said

\* A tool with a fault is not busy any more, and has not carried anything out.
LEMMA FailsHonest == ASSUME Types, HandlerStays, Honest, ToolFails PROVE Honest'
<1> USE DEF Types, HandlerStays, Honest, Busy
<1>1. /\ tool.phase \in {"lag", "moving"} /\ UNCHANGED <<job, pc, quiet, ret, wait, ignored>>
  BY DEF ToolFails
<1>2. /\ tool'.phase = "fault" /\ tool'.pos = tool.pos /\ tool'.enabled = tool.enabled
      /\ tool'.done <=> tool.done
      /\ tool'.zero <=> tool.zero
  BY DEF ToolFails, ToolTyped
<1>3. ~(pc \in Unsaid /\ job # "server")
  BY <1>1 DEF Still
<1>4. ignored = {} => ReadyToSet'
  BY <1>1, <1>2 DEF ReadyToSet
<1>5. ignored = {} /\ pc \in Said =>
        /\ RestIsDone' /\ StatusWaits'
        /\ job = "position" => PositionWaits'
  BY <1>1, <1>2 DEF RestIsDone, PositionWaits, StatusWaits
<1> QED
  BY <1>1, <1>2, <1>3, <1>4, <1>5

\* The questions before the command leave the tool alone.
LEMMA ChecksHonest == ASSUME Types, HandlerStays, Honest, CheckBio \/ CheckTrack PROVE Honest'
<1> USE DEF Types, HandlerStays, Honest, Busy
<1>1. /\ pc = "check" /\ job \in {"bio", "track"} /\ UNCHANGED <<job, quiet, wait, ignored>>
      /\ tool' = tool
  BY DEF CheckBio, CheckTrack
<1>2. Still
  BY <1>1 DEF Unsaid
<1>3. CASE CheckBio
  <2>1. PICK enabled \in BOOLEAN : EnableUnless(enabled)
    BY <1>3 DEF CheckBio
  <2>2. ret' = ret /\ job = "bio" /\ pc' \in {"set", "enable"}
    BY <1>3, <2>1 DEF CheckBio, EnableUnless
  <2>3. Still'
    BY <1>1, <1>2, <2>2 DEF Still, HasPosition
  <2>4. ignored = {} => ReadyToSet'
    BY <1>1, <2>2 DEF ReadyToSet, Said
  <2> QED
    BY <1>1, <1>2, <2>2, <2>3, <2>4 DEF Said, Still
<1>4. CASE CheckTrack
  <2>1. /\ job = "track"
        /\ \/ ret' = "NOT_INIT" /\ pc' = "end"
           \/ ret' = ret /\ pc' = "enable"
           \/ ret' = ret /\ pc' = "set" /\ tool.enabled = "yes"
    BY <1>4 DEF CheckTrack, EnableUnless, Return
  <2>2. pc' # "end" => Still'
    BY <1>1, <1>2, <2>1 DEF Still, HasPosition
  <2>3. ignored = {} => ReadyToSet'
    BY <1>1, <2>1 DEF ReadyToSet, Said
  <2> QED
    BY <1>1, <1>2, <2>1, <2>2, <2>3 DEF Said, Still, Unsaid
<1> QED
  BY <1>3, <1>4

\* Enabling: what is not answered is ignored, and a track that answers is enabled.
LEMMA EnableHonest == ASSUME Types, HandlerStays, Honest, Enable PROVE Honest'
<1> USE DEF Types, HandlerStays, Honest, Busy, Enable
<1>1. pc = "enable" /\ UNCHANGED <<job, quiet, ret>> /\ Still
  BY DEF Unsaid
<1>2. PICK reached, answered \in BOOLEAN :
        /\ answered => reached
        /\ tool' = [tool EXCEPT !.enabled = IF ~reached \/ @ = "yes" THEN @
                                             ELSE IF job = "bio" THEN "waking" ELSE "yes"]
        /\ pc' = IF job = "bio" /\ answered THEN "enabling" ELSE "set"
        /\ ignored' = ignored \cup (IF answered THEN {} ELSE {"enable"})
  OBVIOUS
<1>3. /\ tool'.phase = tool.phase /\ tool'.pos = tool.pos
      /\ tool'.done <=> tool.done
      /\ tool'.zero <=> tool.zero
  BY <1>2 DEF ToolTyped
<1>4. tool'.enabled = IF ~reached \/ tool.enabled = "yes" THEN tool.enabled
                      ELSE IF job = "bio" THEN "waking" ELSE "yes"
  BY <1>2 DEF ToolTyped
<1>5. Still'
  BY <1>1, <1>3 DEF Still, HasPosition
<1>6. ignored' = {} => ReadyToSet'
  <2> SUFFICES ASSUME ignored' = {} PROVE ReadyToSet'
    OBVIOUS
  <2>1. ignored = {} /\ answered /\ reached
    BY <1>2
  <2>2. tool'.enabled = "yes" \/ (job = "bio" /\ tool'.enabled = "waking" /\ pc' = "enabling")
    BY <1>2, <1>4, <2>1 DEF ReadyToSet
  <2> QED
    BY <1>1, <2>2 DEF ReadyToSet
<1> QED
  BY <1>1, <1>2, <1>3, <1>5, <1>6 DEF Said, Still

\* The command: a tool that is to be waited for has it, and goes, or cannot.
LEMMA SetHonest == ASSUME Types, HandlerStays, Honest, Set PROVE Honest'
<1> USE DEF Types, HandlerStays, Honest, Busy
<1>1. /\ pc = "set" /\ UNCHANGED <<job, ignored>> /\ quiet' = 0
      /\ wait'.up /\ wait'.cnt = 0 /\ job # "server"
  BY DEF Set, Fresh
<1>2. Still
  BY <1>1 DEF Unsaid
<1>3. PICK reached, answered, error \in BOOLEAN :
        /\ answered => reached
        /\ tool' = Commanded(reached)
        /\ CASE HasPosition \/ job = "status" ->
                  IF error /\ tool.phase = "fault" THEN Return("FAULT")
                  ELSE IF ~answered THEN Return("FAILED")
                  ELSE pc' = (IF job = "position" THEN "first" ELSE "wait") /\ UNCHANGED ret
             [] OTHER ->
                  IF ~answered /\ job = "origin" THEN pc' = "after" /\ ret' = "FAILED"
                  ELSE IF ~answered THEN Return("FAILED")
                  ELSE pc' = "wait" /\ UNCHANGED ret
  BY DEF Set
<1>4. \/ ret' \in {"FAULT", "FAILED"} /\ pc' \in {"end", "after"}
      \/ answered /\ ret' = ret /\ pc' = (IF job = "position" THEN "first" ELSE "wait")
  BY <1>3 DEF Return, HasPosition
<1> DEFINE active == job = "activate" /\ tool.enabled = "yes"
           heeds  == /\ reached /\ tool.phase # "fault" /\ ~active
                     /\ tool.enabled = "yes" \/ job \in {"activate", "origin"}
<1>5. tool' = [tool EXCEPT !.done = active, !.phase = IF heeds THEN "lag" ELSE @]
  BY <1>3 DEF Commanded
<1>6. /\ tool'.phase = IF heeds THEN "lag" ELSE tool.phase
      /\ tool'.enabled = tool.enabled /\ tool'.pos = tool.pos
      /\ tool'.zero <=> tool.zero
  BY <1>5 DEF ToolTyped
<1>7. tool'.done <=> active
  <2>1. tool'.done = active
    BY <1>5 DEF ToolTyped
  <2> HIDE DEF active
  <2> QED
    BY <2>1, Zenon
<1>8. tool'.done => tool'.phase \notin {"lag", "moving"}
  BY <1>2, <1>6, <1>7 DEF Still
<1>9. pc' \notin Unsaid
  BY <1>4 DEF Unsaid
<1>10. ignored = {} => ReadyToSet'
  BY <1>1, <1>4, <1>6 DEF ReadyToSet, Said
<1>11. ignored = {} /\ pc' \in Said => RestIsDone'
  <2> SUFFICES ASSUME ignored = {}, pc' \in Said PROVE RestIsDone'
    OBVIOUS
  <2>1. reached /\ job \in Calls \ {"server"}
    BY <1>1, <1>2, <1>3, <1>4, ToolAssumption DEF Said
  <2>2. /\ job = "activate" /\ tool'.enabled = "yes" => tool'.done
        /\ ~(job = "origin" /\ tool'.zero)
    BY <1>1, <1>2, <1>6, <1>7 DEF Still
  <2>3. CASE tool.enabled = "yes"
    BY <1>1, <1>2, <1>6, <1>7, <2>1, <2>2, <2>3 DEF RestIsDone, Still
  <2>4. CASE tool.enabled # "yes" /\ job \in {"activate", "origin"}
    BY <1>1, <1>2, <1>6, <1>7, <2>1, <2>2, <2>4 DEF RestIsDone, Still
  <2>5. CASE tool.enabled # "yes" /\ job \notin {"activate", "origin"}
    BY <1>1, <1>6, <1>7, <2>1, <2>2, <2>5 DEF RestIsDone, ReadyToSet, Calls
  <2> QED
    BY <2>3, <2>4, <2>5
<1>12. ignored = {} /\ pc' \in Said /\ job = "position" => PositionWaits'
  BY <1>1, <1>2, <1>4, <1>6 DEF PositionWaits, Still, HasPosition, Target, Said
<1>13. ignored = {} /\ pc' \in Said /\ job = "status" => StatusWaits'
  BY <1>1, ToolAssumption DEF StatusWaits, Calls
<1>14. ret' # "ok"
  BY <1>2, <1>4 DEF Still
<1> QED
  BY <1>1, <1>4, <1>8, <1>9, <1>10, <1>11, <1>12, <1>13, <1>14

\* The first position.
LEMMA FirstHonest == ASSUME Types, HandlerStays, Honest, FirstPosition PROVE Honest'
<1> USE DEF Types, HandlerStays, Honest, Busy
<1>1. pc = "first" /\ UNCHANGED <<job, quiet>> /\ tool' = tool
  BY DEF FirstPosition
<1>2. PICK answered \in BOOLEAN :
        /\ wait' = IF answered THEN [Fresh EXCEPT !.last = tool.pos, !.up = Target > tool.pos]
                   ELSE Fresh
        /\ ignored' = ignored \cup (IF answered THEN {} ELSE {"first"})
        /\ IF answered /\ tool.pos = Target THEN Return("ok")
           ELSE pc' = "wait" /\ UNCHANGED ret
  BY DEF FirstPosition
<1>3. pc' \in {"wait", "end"}
  BY <1>2 DEF Return
<1>4. ignored' = {} => ReadyToSet'
  BY <1>1, <1>2, <1>3 DEF ReadyToSet, Said
<1>5. ignored' = {} /\ pc' \in Said => RestIsDone'
  BY <1>1, <1>2 DEF RestIsDone, Said
<1>6. ignored' = {} /\ pc' \in Said => PositionWaits'
  <2> SUFFICES ASSUME ignored' = {}, pc' \in Said PROVE PositionWaits'
    OBVIOUS
  <2>1. ignored = {} /\ answered /\ tool.pos \in Int
    BY <1>2 DEF ToolTyped
  <2>2. PositionWaits /\ pc' = "wait" /\ tool.pos # Target
    BY <1>1, <1>2, <1>3, <2>1 DEF Said, Return
  <2>3. quiet = 0 /\ Lag[job] \in Nat
    BY <1>1, <2>2, ToolAssumption DEF PositionWaits, Calls
  <2> DEFINE up == Target > tool.pos
  <2>4. /\ wait'.last = tool.pos /\ wait'.cnt = 0 /\ wait'.past = 0
        /\ wait'.up = up
    BY <1>2, <2>1 DEF Fresh
  <2>5. wait'.up <=> tool.pos < Target
    <3>1. up \in BOOLEAN /\ (up <=> tool.pos < Target)
      BY <2>1 DEF Target
    <3> HIDE DEF up
    <3> QED
      BY <2>4, <3>1, Zenon
  <2> HIDE DEF up
  <2> QED
    BY <1>1, <2>1, <2>2, <2>3, <2>4, <2>5, ToolAssumption DEF PositionWaits, Target
<1>7. ignored' = {} /\ ret' = "ok" => tool'.done
  <2> SUFFICES ASSUME ignored' = {}, ret' = "ok" PROVE tool.done
    BY <1>1
  <2>1. ignored = {} /\ PositionWaits
    BY <1>1, <1>2 DEF Said
  <2> QED
    BY <1>2, <2>1 DEF PositionWaits
<1> QED
  BY <1>1, <1>2, <1>3, <1>4, <1>5, <1>6, <1>7 DEF Unsaid, StatusWaits

-----------------------------------------------------------------------------
(* The polls.                                                               *)

\* What an answered poll of the position keeps: no more polls without progress than
\* went by without a motion.
LEMMA PositionPolled ==
  ASSUME Prompt, Types, RestIsDone, PositionWaits, PollAnswered, job = "position", pc = "wait",
         tool.phase # "fault", ~tool.done, tool.done => ~Busy
  PROVE  /\ Code = "on"
         /\ UNCHANGED <<job, pc, ret, ignored>> /\ tool' = tool
         /\ PositionWaits'
<1>1. /\ tool' = tool /\ quiet' = Waited /\ MayPoll /\ UNCHANGED job
      /\ wait' = [PositionSeen EXCEPT !.failed = 0]
  BY DEF PollAnswered
<1>2. Busy /\ tool.pos # Target
  BY DEF RestIsDone, PositionWaits, Types, ToolTyped, Busy
<1>3. /\ tool.pos \in Int /\ wait.last \in Int /\ wait.cnt \in Nat /\ wait.past = 0 /\ quiet \in Nat
      /\ Lag["position"] \in Nat /\ Pace \in Nat
  BY <1>2, ToolAssumption DEF Types, ToolTyped, WaitTyped, PositionWaits, Calls
<1>4. /\ wait.up <=> tool.pos < Target
      /\ wait.up => wait.last <= tool.pos
      /\ ~wait.up => wait.last >= tool.pos
  BY <1>2 DEF PositionWaits
<1>5. ~Beyond(tool.pos, Target)
  BY <1>3, <1>4 DEF Beyond, Target
<1>6. /\ tool.phase = "lag" => quiet < Lag["position"]
      /\ tool.phase = "moving" => quiet < Pace
      /\ quiet' = quiet + 1
  BY <1>1, <1>2 DEF MayPoll, Waited, Busy, HasPosition
<1>7. CASE ~Beyond(tool.pos, wait.last)
  <2>1. PositionSeen = [wait EXCEPT !.cnt = @ + 1] /\ wait.last = tool.pos
    <3>1. PositionSeen = [wait EXCEPT !.cnt = @ + 1]
      BY <1>7 DEF PositionSeen
    <3>2. wait.last = tool.pos
      BY <1>3, <1>4, <1>7 DEF Beyond
    <3> QED
      BY <3>1, <3>2
  <2>2. wait' = [[wait EXCEPT !.cnt = @ + 1] EXCEPT !.failed = 0]
    BY <1>1, <2>1, Zenon
  <2>3. /\ wait'.last = wait.last /\ wait'.cnt = wait.cnt + 1 /\ wait'.past = 0
        /\ wait'.up <=> wait.up
    BY <1>3, <2>2 DEF Types, WaitTyped
  <2>4. PositionSeen.cnt = wait.cnt + 1 /\ PositionSeen.past = 0
    BY <1>3, <2>1 DEF Types, WaitTyped
  <2>5. wait.cnt + 1 <= Lag["position"] + Pace
    BY <1>2, <1>3, <1>6, <2>1 DEF PositionWaits, Busy
  <2>6. Code = "on"
    BY <1>2, <1>3, <2>4, <2>5 DEF Code, PositionCode, Prompt, PastTarget, NoProgress
  <2>7. UNCHANGED <<pc, ret, ignored>>
    BY <2>6 DEF PollAnswered
  <2>8. PositionWaits'
    BY <1>1, <1>2, <1>3, <1>4, <1>6, <2>1, <2>3, <2>7 DEF PositionWaits, Busy, Target
  <2> QED
    BY <1>1, <2>6, <2>7, <2>8
<1>8. CASE Beyond(tool.pos, wait.last)
  <2>1. PositionSeen = [wait EXCEPT !.last = tool.pos, !.cnt = 0, !.past = 0]
    BY <1>5, <1>8 DEF PositionSeen
  <2>2. wait' = [[wait EXCEPT !.last = tool.pos, !.cnt = 0, !.past = 0] EXCEPT !.failed = 0]
    BY <1>1, <2>1, Zenon
  <2>3. /\ wait'.last = tool.pos /\ wait'.cnt = 0 /\ wait'.past = 0
        /\ wait'.up <=> wait.up
    BY <1>3, <2>2 DEF Types, WaitTyped
  <2>4. PositionSeen.cnt = 0 /\ PositionSeen.past = 0
    BY <1>3, <2>1 DEF Types, WaitTyped
  <2>5. Code = "on"
    BY <1>2, <2>4 DEF Code, PositionCode, PastTarget, NoProgress
  <2>6. UNCHANGED <<pc, ret, ignored>>
    BY <2>5 DEF PollAnswered
  <2>7. tool.phase # "lag"
    BY <1>2, <1>3, <1>8 DEF PositionWaits, Busy, Beyond
  <2>8. PositionWaits'
    BY <1>1, <1>2, <1>3, <1>4, <1>6, <2>3, <2>6, <2>7 DEF PositionWaits, Busy, Target
  <2> QED
    BY <1>1, <2>5, <2>6, <2>8
<1> QED
  BY <1>7, <1>8

\* What an answered poll of the status keeps, and what its end says.
LEMMA StatusPolled ==
  ASSUME Prompt, Types, RestIsDone, StatusWaits, PollAnswered, job = "status", pc = "wait",
         tool.enabled = "yes"
  PROVE  StatusWaits' /\ (Code = "ok" => tool.done)
<1>1. /\ tool' = tool /\ quiet' = Waited /\ MayPoll /\ UNCHANGED job
      /\ wait' = [StatusSeen EXCEPT !.failed = 0]
  BY DEF PollAnswered
<1>2. CASE tool.phase = "lag"
  <2>1. wait.up /\ wait.cnt <= quiet /\ quiet < Lag["status"] /\ quiet' = quiet + 1
    BY <1>1, <1>2 DEF StatusWaits, MayPoll, Waited
  <2>2. quiet \in Nat /\ wait.cnt \in Nat /\ Lag["status"] \in Nat
    BY ToolAssumption DEF Types, WaitTyped, Calls
  <2>3. StatusSeen = [wait EXCEPT !.cnt = @ + 1]
    BY <1>2, <2>1 DEF StatusSeen, Resting
  <2>4. wait' = [[wait EXCEPT !.cnt = @ + 1] EXCEPT !.failed = 0]
    BY <1>1, <2>3, Zenon
  <2>5. /\ wait'.cnt = wait.cnt + 1
        /\ wait'.up <=> wait.up
    BY <2>4 DEF Types, WaitTyped
  <2>6. StatusSeen.cnt = wait.cnt + 1
    BY <2>3 DEF Types, WaitTyped
  <2>7. Code # "ok"
    BY <2>1, <2>2, <2>6 DEF Code, StatusCode, Prompt, NotStarted
  <2> QED
    BY <1>1, <2>1, <2>2, <2>5, <2>7 DEF StatusWaits
<1>3. CASE tool.phase = "rest"
  BY <1>1, <1>3 DEF StatusWaits, RestIsDone
<1>4. CASE tool.phase \notin {"lag", "rest"}
  BY <1>1, <1>4 DEF StatusWaits, Code, StatusCode, Resting
<1> QED
  BY <1>2, <1>3, <1>4

\* What the other waits end with.
LEMMA OthersPolled ==
  ASSUME Types, ReadyToSet, RestIsDone, pc = "wait", job \notin {"position", "status", "server"},
         Code = "ok"
  PROVE  tool.done
<1>1. CASE job \in {"bio", "robotiq"}
  BY <1>1 DEF Code, MotionCode, MovedIfEnabled, RestIsDone
<1>2. CASE job = "activate"
  BY <1>2 DEF Code, ActivateCode, EnableCode, RestIsDone
<1>3. CASE job = "track"
  BY <1>3 DEF Code, TrackCode, RestIsDone
<1>4. CASE job = "origin"
  BY <1>4 DEF Code, OriginCode, RestIsDone
<1> QED
  BY <1>1, <1>2, <1>3, <1>4, ToolAssumption DEF Types, Calls

\* An answered poll.
LEMMA PollHonest ==
  ASSUME Prompt, Types, HandlerStays, Honest, PollAnswered
  PROVE  Honest'
<1> USE DEF Honest
<1>1. /\ pc \in {"wait", "enabling"} /\ job # "server" /\ UNCHANGED job /\ tool' = tool
      /\ quiet' = Waited
  BY DEF PollAnswered, HandlerStays
<1>2. UNCHANGED <<pc, ret>> \/ WaitOver("FAULT") \/ (Code # "on" /\ WaitOver(Code))
  BY DEF PollAnswered
<1>3. CASE pc = "enabling"
  <2>1. Still /\ ret # "ok"
    BY <1>1, <1>3 DEF Unsaid, Still
  <2>2. pc' \in {"enabling", "set"} /\ UNCHANGED ret
    BY <1>2, <1>3 DEF WaitOver
  <2>3. Still'
    BY <1>1, <2>1, <2>2 DEF Still, HasPosition
  <2>4. ignored' = {} => ignored = {} /\ (pc' = pc \/ tool.enabled = "yes")
    <3>1. Code = IF tool.enabled = "yes" THEN "ok" ELSE "on"
      BY <1>3 DEF Code, EnableCode
    <3>2. Code = "on" /\ job # "position" => UNCHANGED pc
      BY <1>3 DEF PollAnswered
    <3>3. ignored' = {} => ignored = {}
      BY DEF PollAnswered
    <3> QED
      BY <1>1, <1>3, <3>1, <3>2, <3>3
  <2>5. ignored' = {} => ReadyToSet'
    BY <1>1, <1>3, <2>2, <2>4 DEF ReadyToSet, Said
  <2>6. tool'.done => ~Busy'
    BY <1>1 DEF Busy
  <2>7. job' \in {"bio", "track"}
    BY <1>1, <1>3
  <2>8. ret' # "ok" /\ pc' \notin {"first"} \cup Said
    BY <2>1, <2>2 DEF Said
  <2> QED
    BY <2>3, <2>5, <2>6, <2>7, <2>8
<1>4. CASE pc = "wait"
  <2>1. /\ pc' \in {"wait", "after", "end"} /\ (pc' = pc => UNCHANGED ret)
        /\ ignored' = {} => ignored = {}
    BY <1>2, <1>4 DEF WaitOver, Return, PollAnswered
  <2>2. ignored' = {} => ReadyToSet'
    BY <1>1, <1>4, <2>1 DEF ReadyToSet, Said
  <2>3. ignored' = {} => RestIsDone'
    BY <1>1, <1>4, <2>1 DEF RestIsDone, Said
  <2>4. ignored' = {} /\ job = "position" =>
          /\ pc' = "wait" => PositionWaits'
          /\ ret' = "ok" => tool.done
    <3> SUFFICES ASSUME ignored' = {}, job = "position"
                 PROVE  /\ pc' = "wait" => PositionWaits'
                        /\ ret' = "ok" => tool.done
      OBVIOUS
    <3>1. ignored = {} /\ RestIsDone /\ PositionWaits
      BY <1>4, <2>1 DEF Said
    <3>2. CASE tool.done
      BY <1>1, <2>1, <3>2 DEF PositionWaits, Busy
    <3>3. CASE ~tool.done /\ tool.phase = "fault"
      <4>1. ret' \in {"FAULT", ret}
        BY <1>4, <3>3 DEF PollAnswered, WaitOver, Return
      <4> QED
        BY <1>1, <2>1, <3>1, <3>3, <4>1 DEF PositionWaits, Busy
    <3>4. CASE ~tool.done /\ tool.phase # "fault"
      BY <1>4, <3>1, <3>4, PositionPolled
    <3> QED
      BY <3>2, <3>3, <3>4
  <2>5. ignored' = {} /\ job = "status" =>
          /\ pc' = "wait" => StatusWaits'
          /\ ret' = "ok" => tool.done
    <3> SUFFICES ASSUME ignored' = {}, job = "status"
                 PROVE  /\ pc' = "wait" => StatusWaits'
                        /\ ret' = "ok" => tool.done
      OBVIOUS
    <3>1. RestIsDone /\ StatusWaits /\ tool.enabled = "yes"
      BY <1>4, <2>1 DEF Said, ReadyToSet
    <3>2. StatusWaits' /\ (Code = "ok" => tool.done)
      BY <1>4, <3>1, StatusPolled
    <3>3. ret' = "ok" => ret = "ok" \/ Code = "ok"
      BY <1>2, <1>4 DEF WaitOver, Return
    <3> QED
      BY <2>1, <3>2, <3>3
  <2>6. ignored' = {} /\ job \notin {"position", "status"} => (ret' = "ok" => tool.done)
    <3> SUFFICES ASSUME ignored' = {}, job \notin {"position", "status"}, ret' = "ok" PROVE tool.done
      OBVIOUS
    <3>1. ReadyToSet /\ RestIsDone
      BY <1>4, <2>1 DEF Said
    <3>2. ret = "ok" \/ Code = "ok"
      BY <1>2, <1>4 DEF WaitOver, Return
    <3> QED
      BY <1>1, <1>4, <2>1, <3>1, <3>2, OthersPolled
  <2> QED
    BY <1>1, <2>1, <2>2, <2>3, <2>4, <2>5, <2>6 DEF Unsaid, Said, Busy
<1> QED
  BY <1>1, <1>3, <1>4

\* A lost poll never ends a wait with 0.
LEMMA LostHonest ==
  ASSUME Prompt, Types, HandlerStays, Honest, PollLost
  PROVE  Honest'
<1> USE DEF Honest
<1>1. /\ pc \in {"wait", "enabling"} /\ job # "server" /\ UNCHANGED job /\ tool' = tool
      /\ quiet' = Waited /\ MayPoll
      /\ wait'.cnt = wait.cnt /\ wait'.past = wait.past /\ wait'.last = wait.last
      /\ wait'.up <=> wait.up
  BY DEF PollLost, HandlerStays, Types, WaitTyped
<1>2. /\ UNCHANGED <<pc, ret>> \/ WaitOver("CHECK_FAILED")
      /\ ignored' = {} => ignored = {}
      /\ ignored' = {} /\ pc = "enabling" => UNCHANGED pc
  BY DEF PollLost
<1>3. tool'.done => ~Busy'
  BY <1>1 DEF Busy
<1>4. CASE pc = "enabling"
  <2>1. Still /\ pc' \in {"enabling", "set"} /\ UNCHANGED ret /\ job \in {"bio", "track"}
    BY <1>1, <1>2, <1>4 DEF WaitOver, Unsaid
  <2>2. Still' /\ ret' # "ok" /\ pc' \notin {"first"} \cup Said
    BY <1>1, <2>1 DEF Still, HasPosition, Said
  <2>3. ignored' = {} => ReadyToSet'
    BY <1>1, <1>2, <1>4 DEF ReadyToSet, Said
  <2> QED
    BY <1>1, <1>3, <2>1, <2>2, <2>3
<1>5. CASE pc = "wait"
  <2>1. pc' \in {"wait", "after", "end"} /\ ret' \in {ret, "CHECK_FAILED"}
    BY <1>2, <1>5 DEF WaitOver, Return
  <2>2. ignored' = {} => ReadyToSet'
    BY <1>1, <1>2, <1>5, <2>1 DEF ReadyToSet, Said
  <2>3. ignored' = {} => RestIsDone'
    BY <1>1, <1>2, <1>5 DEF RestIsDone, Said
  <2>4. quiet \in Nat /\ Lag[job] \in Nat /\ Pace \in Nat /\ wait.cnt \in Nat
    BY ToolAssumption DEF Types, WaitTyped, Calls
  <2>5. ignored' = {} /\ job = "position" => PositionWaits'
    <3>1. CASE Busy
      <4>1. /\ job = "position" => quiet' = quiet + 1
            /\ tool.phase = "lag" => quiet < Lag[job]
            /\ job = "position" /\ tool.phase = "moving" => quiet < Pace
        BY <1>1, <3>1 DEF Waited, MayPoll, Busy, HasPosition
      <4> QED
        BY <1>1, <1>2, <1>5, <2>1, <2>4, <3>1, <4>1 DEF PositionWaits, Busy, Said
    <3>2. CASE ~Busy
      BY <1>1, <1>2, <1>5, <2>1, <3>2 DEF PositionWaits, Busy, Said
    <3> QED
      BY <3>1, <3>2
  <2>6. ignored' = {} /\ job = "status" => StatusWaits'
    BY <1>1, <1>2, <1>5, <2>4 DEF StatusWaits, Waited, MayPoll, Said
  <2>7. ignored' = {} /\ ret' = "ok" => tool'.done
    BY <1>1, <1>2, <2>1
  <2> QED
    BY <1>1, <1>3, <2>1, <2>2, <2>3, <2>5, <2>6, <2>7 DEF Unsaid
<1> QED
  BY <1>1, <1>4, <1>5

\* Nor does the end of its time.
LEMMA ExpireHonest ==
  ASSUME Types, HandlerStays, Honest, Expire
  PROVE  Honest'
<1> USE DEF Honest
<1>1. /\ pc \in {"wait", "enabling"} /\ job \notin {"position", "status", "server"}
      /\ UNCHANGED job /\ tool' = tool
      /\ WaitOver("TIMEOUT")
      /\ ignored' = {} => ignored = {} /\ pc # "enabling"
  BY DEF Expire, HandlerStays
<1>2. tool'.done => ~Busy'
  BY <1>1 DEF Busy
<1>3. CASE pc = "enabling"
  <2>1. Still /\ pc' = "set" /\ UNCHANGED ret
    BY <1>1, <1>3 DEF WaitOver, Unsaid
  <2>2. Still'
    BY <1>1, <2>1 DEF Still, HasPosition
  <2> QED
    BY <1>1, <1>2, <1>3, <2>1, <2>2
<1>4. CASE pc = "wait"
  <2>1. pc' \in {"after", "end"} /\ ret' = "TIMEOUT"
    BY <1>1, <1>4 DEF WaitOver, Return
  <2>2. ignored' = {} => ReadyToSet'
    BY <1>1, <1>4, <2>1 DEF ReadyToSet, Said
  <2> QED
    BY <1>1, <1>2, <2>1, <2>2 DEF Unsaid, Said
<1> QED
  BY <1>1, <1>3, <1>4

\* The track is enabled when it has come to its origin; when it has not, that is ignored.
LEMMA AfterOriginHonest ==
  ASSUME Types, HandlerStays, Honest, EnableAfterOrigin
  PROVE  Honest'
<1> USE DEF Honest
<1>1. /\ pc = "after" /\ pc' = "end" /\ UNCHANGED job /\ tool'.phase = tool.phase
      /\ tool'.enabled \in {"yes", tool.enabled}
      /\ tool'.done <=> tool.done
      /\ ignored' = {} => ignored = {} /\ ret = "ok"
  BY DEF EnableAfterOrigin, Return, Types, ToolTyped
<1>2. tool'.done => ~Busy'
  BY <1>1 DEF Busy
<1>3. ignored' = {} => ReadyToSet'
  BY <1>1 DEF ReadyToSet, Said
<1> QED
  BY <1>1, <1>2, <1>3 DEF Unsaid, Said

-----------------------------------------------------------------------------
(* The handlers and the server.                                             *)

\* A goal is accepted before the thread has done anything, and gives the gripper its
\* enabling.
LEMMA AcceptHonest ==
  ASSUME Types, HandlerStays, Honest, Accept
  PROVE  Honest'
<1> USE DEF Honest
<1>1. /\ WithHandler /\ pc = "off" /\ UNCHANGED <<job, quiet, ret, wait, ignored>>
  BY DEF Accept, HandlerStays
<1>2. Still /\ job # "server"
  BY <1>1 DEF WithHandler, Unsaid
<1>3. PICK answered, error, cleared \in BOOLEAN :
        LET bio   == job = "bio"
            fault == tool.phase = "fault" /\ ~(bio /\ cleared)
            go    == answered /\ ~(fault /\ (bio \/ error))
        IN  /\ tool' = [tool EXCEPT !.phase = IF fault THEN @ ELSE "rest",
                                    !.enabled = IF ~bio /\ answered THEN "yes" ELSE @]
            /\ pc' = IF go THEN "born" ELSE pc
  BY DEF Accept
<1>4. /\ tool'.phase \in {"rest", "fault"} /\ tool'.pos = tool.pos
      /\ tool'.done <=> tool.done
      /\ tool'.zero <=> tool.zero
      /\ tool'.enabled = IF job # "bio" /\ answered THEN "yes" ELSE tool.enabled
      /\ pc' = "born" => answered
      /\ pc' \in {"off", "born"}
  BY <1>1, <1>2, <1>3 DEF Types, ToolTyped, Still
<1>5. Still'
  BY <1>1, <1>2, <1>4 DEF Still, HasPosition
<1>6. ignored = {} => ReadyToSet'
  BY <1>1, <1>4 DEF ReadyToSet, WithHandler, Said
<1> QED
  BY <1>1, <1>2, <1>4, <1>5, <1>6 DEF Unsaid, Said, Still

\* What only moves the goal or the thread's beginning and end.
LEMMA HandlerHonest ==
  ASSUME Types, HandlerStays, Honest, Begin \/ End \/ Leave \/ Shutdown \/ Call \/ UNCHANGED vars
  PROVE  Honest'
<1> USE DEF Honest
<1>1. UNCHANGED toolVars \/ (UNCHANGED <<job, tool, quiet, ret, wait, ignored>> /\ (Begin \/ End \/ Call))
  BY DEF Begin, End, Leave, Shutdown, Call, vars
<1>2. CASE UNCHANGED toolVars
  <2>1. UNCHANGED <<job, tool, quiet, pc, ret, wait, ignored>>
    BY <1>2 DEF toolVars
  <2>2. (Busy <=> Busy') /\ (Still <=> Still') /\ (ReadyToSet <=> ReadyToSet') /\ (RestIsDone <=> RestIsDone')
    BY <2>1 DEF Busy, Still, HasPosition, ReadyToSet, RestIsDone
  <2>3. (PositionWaits <=> PositionWaits') /\ (StatusWaits <=> StatusWaits')
    BY <2>1 DEF Busy, PositionWaits, StatusWaits
  <2> QED
    BY <2>1, <2>2, <2>3
<1>3. CASE UNCHANGED <<job, tool, quiet, ret, wait, ignored>> /\ (Begin \/ End \/ Call)
  <2>1. (Busy <=> Busy') /\ (Still <=> Still') /\ job' = job /\ ignored' = ignored
    BY <1>3 DEF Busy, Still, HasPosition
  <2>2. /\ \/ pc \in {"born", "off"} /\ pc' \in {"check", "set"} /\ job # "server"
           \/ pc = "end" /\ pc' = "gone"
        /\ ~(job = "track" /\ pc' = "set")
        /\ job \in {"position", "status"} => pc # "off"
    <3>1. CASE Begin
      BY <3>1 DEF Begin, WithHandler, HandlerStays
    <3>2. CASE End
      BY <3>2 DEF End, WithHandler
    <3>3. CASE Call
      BY <3>3 DEF Call, WithHandler
    <3> QED
      BY <1>3, <3>1, <3>2, <3>3
  <2>4. ignored = {} => ReadyToSet'
    BY <1>3, <2>2 DEF ReadyToSet, Said
  <2> QED
    BY <1>3, <2>1, <2>2, <2>4 DEF Unsaid, Said
<1> QED
  BY <1>1, <1>2, <1>3

\* The gripper_move server calls no thread.
LEMMA ServerHonest ==
  ASSUME Types, HandlerStays, Honest,
         ServerStart \/ ServerPreempt \/ \E answered \in BOOLEAN : ServerPoll(answered)
  PROVE  Honest'
<1> USE DEF Honest
<1>1. job = "server" /\ pc = "off" /\ ret = "none" /\ UNCHANGED <<job, pc, ret, ignored>>
  BY DEF ServerStart, ServerPreempt, ServerPoll, HandlerStays
<1>2. tool.enabled # "waking" => tool'.enabled # "waking"
  BY <1>1 DEF ServerStart, ServerPreempt, ServerPoll, Commanded, Types, ToolTyped
<1>3. tool'.done => ~Busy'
  <2>1. CASE ServerStart
    BY <1>1, <2>1 DEF ServerStart, Commanded, Types, ToolTyped, Busy
  <2>2. CASE ServerPreempt
    BY <1>1, <2>2 DEF ServerPreempt, Types, ToolTyped, Busy
  <2>3. CASE \E answered \in BOOLEAN : ServerPoll(answered)
    BY <1>1, <2>3 DEF ServerPoll, Busy
  <2> QED
    BY <2>1, <2>2, <2>3
<1>4. ignored = {} => ReadyToSet'
  BY <1>1, <1>2 DEF ReadyToSet, Said
<1> QED
  BY <1>1, <1>3, <1>4 DEF Unsaid, Said

-----------------------------------------------------------------------------
(* The theorems.                                                            *)

\* Every step keeps a return code of 0 honest.
LEMMA HonestNext ==
  ASSUME Prompt, Types, HandlerStays, Honest, [Next]_vars
  PROVE  Honest'
BY StartsHonest, MovesHonest, StopsHonest, EnabledHonest, FailsHonest, ChecksHonest, EnableHonest,
   SetHonest, FirstHonest, PollHonest, LostHonest, ExpireHonest, AfterOriginHonest, AcceptHonest,
   HandlerHonest, ServerHonest
   DEF Next, Sdk, Time, Motion, Fault

\* The locals of the handler outlive the thread that has references to them: while ROS is
\* up a handler ends after the call has returned and its thread has said so.
THEOREM ThreadOutlived == Spec => []ThreadEndsFirst
<1>1. Init => Types /\ HandlerStays
  BY InitHolds DEF IInv
<1>2. Types /\ HandlerStays /\ [Next]_vars => Types' /\ HandlerStays'
  BY TypesNext, HandlerNext
<1>3. HandlerStays => ThreadEndsFirst
  BY DEF HandlerStays, ThreadEndsFirst
<1> QED
  BY <1>1, <1>2, <1>3, PTL DEF Spec

\* A return code of 0 that is not one ignored failure long means that the command has been
\* carried out, for every set of calls and every tool as prompt as the waits count on.
THEOREM ZeroDone == ASSUME Prompt PROVE Spec => []ZeroIsDone
<1>1. Init => IInv
  BY InitHolds
<1>2. IInv /\ [Next]_vars => IInv'
  BY TypesNext, HandlerNext, HonestNext DEF IInv
<1>3. IInv => ZeroIsDone
  BY DEF IInv, Honest, ZeroIsDone
<1> QED
  BY <1>1, <1>2, <1>3, PTL DEF Spec
=============================================================================
