------------------------------ MODULE XarmHwProofs ------------------------------
(***************************************************************************)
(* Proofs about xarm_hw.  Session: whenever any number of controllers      *)
(* start, crash and end, no more of them drive the arm than the lock       *)
(* allows and stale looks at it have added, and without crashes the lock   *)
(* is given back.  ControlLoop: the types, and that the arm accepts no     *)
(* more than one command between two reports of a goal that the loop knows *)
(* to be broken off, however the reports, the outages and the failures are *)
(* spread.                                                                 *)
(***************************************************************************)
EXTENDS Session, ControlLoop, FiniteSetTheorems, TLAPS

(* Session. *)

Types ==
  /\ pc \in [Controllers -> {"off", "has", "get", "test", "connect", "init", "running", "parting"}]
  /\ DOMAIN ip_locked = Controllers
  /\ stale \in Nat

Drivers == {c \in Controllers : Drives(c)}

LockInv == Types /\ OneController /\ LockIsFreed

\* What a step of c does to pc.
At(c, p) == pc' = [pc EXCEPT ![c] = p]

Driving == {"connect", "init", "running"}

-----------------------------------------------------------------------------
LEMMA FinitelyMany ==
  /\ IsFiniteSet(Drivers) /\ Cardinality(Drivers) \in Nat
  /\ IsFiniteSet(Drivers') /\ Cardinality(Drivers') \in Nat
<1>1. Drivers \in SUBSET Controllers /\ Drivers' \in SUBSET Controllers
  BY DEF Drivers
<1> QED
  BY <1>1, SessionAssumption, FS_Subset, FS_CardinalityType

LEMMA InitHolds == Init => LockInv
<1> SUFFICES ASSUME Init PROVE LockInv
  OBVIOUS
<1>1. Types /\ LockIsFreed
  BY DEF Init, Types, LockIsFreed
<1>2. {c \in Controllers : Drives(c)} = {}
  BY DEF Init, Drives
<1> QED
  BY <1>1, <1>2, FS_EmptySet DEF Init, LockInv, OneController

\* Who drives after a step of c, and how many they are.
LEMMA DriversAfter ==
  ASSUME Types, NEW c \in Controllers,
         NEW p \in {"off", "has", "get", "test", "connect", "init", "running", "parting"}, At(c, p)
  PROVE  /\ Drivers' = IF p \in Driving THEN Drivers \cup {c} ELSE Drivers \ {c}
         /\ Cardinality(Drivers') <= Cardinality(Drivers) + (IF p \in Driving THEN 1 ELSE 0)
         /\ (p \in Driving => Drives(c)) => Cardinality(Drivers') <= Cardinality(Drivers)
         /\ p \notin Driving /\ Drives(c) => Cardinality(Drivers') = Cardinality(Drivers) - 1
<1>1. \A d \in Controllers : Drives(d)' <=> IF d = c THEN p \in Driving ELSE Drives(d)
  BY DEF Types, At, Drives, Driving
<1>2. Drivers' = IF p \in Driving THEN Drivers \cup {c} ELSE Drivers \ {c}
  BY <1>1 DEF Drivers
<1>3. c \in Drivers <=> Drives(c)
  BY DEF Drivers
<1>4. Cardinality(Drivers \cup {c}) = IF c \in Drivers THEN Cardinality(Drivers) ELSE Cardinality(Drivers) + 1
  BY FinitelyMany, FS_AddElement
<1>5. Cardinality(Drivers \ {c}) = IF c \in Drivers THEN Cardinality(Drivers) - 1 ELSE Cardinality(Drivers)
  BY FinitelyMany, FS_RemoveElement
<1> QED
  BY <1>2, <1>3, <1>4, <1>5, FinitelyMany

\* Steps that are about the connection alone.
LEMMA Aside == ASSUME LockInv, UNCHANGED <<pc, lock>> PROVE LockInv'
  BY DEF LockInv, Types, OneController, LockIsFreed, Drives, lock

\* A step that neither begins nor ends to drive, and leaves the parameter.
LEMMA DrivesOn ==
  ASSUME LockInv, NEW c \in Controllers,
         NEW p \in {"off", "has", "get", "test", "init", "running"}, At(c, p),
         p \in Driving <=> Drives(c),
         UNCHANGED <<param, crashed, stale>>, DOMAIN ip_locked' = Controllers
  PROVE  LockInv'
<1>1. Types'
  BY DEF LockInv, Types, At
<1>2. \A d \in Controllers : Drives(d)' <=> Drives(d)
  BY DEF LockInv, Types, At, Drives, Driving
<1>3. OneController' /\ LockIsFreed'
  BY <1>2 DEF LockInv, OneController, LockIsFreed
<1> QED
  BY <1>1, <1>3 DEF LockInv

LEMMA SetParamHolds == ASSUME LockInv, NEW c \in Controllers, SetParam(c) PROVE LockInv'
<1>1. /\ ~ip_locked[c] /\ At(c, "connect") /\ param' = "true"
      /\ UNCHANGED <<ip_locked, crashed>>
      /\ stale' = stale + (IF OutOfDate(c) THEN 1 ELSE 0)
  BY DEF SetParam, Refused, At, Goto
<1>2. Types /\ Types'
  BY <1>1 DEF LockInv, Types, At
<1>3. Cardinality(Drivers') <= Cardinality(Drivers) + 1
  BY <1>1, <1>2, DriversAfter DEF Driving
<1>4. Cardinality(Drivers) <= stale + (IF param = "true" THEN 1 ELSE 0)
  BY DEF LockInv, OneController, Drivers
<1>5. Cardinality(Drivers') <= stale' + 1
  <2>1. CASE param = "true"
    BY <1>1, <1>2, <1>3, <1>4, <2>1, FinitelyMany DEF OutOfDate, Types
  <2>2. CASE param # "true"
    BY <1>1, <1>2, <1>3, <1>4, <2>2, FinitelyMany DEF OutOfDate, Types
  <2> QED
    BY <2>1, <2>2
<1>6. OneController'
  BY <1>1, <1>5 DEF OneController, Drivers
<1>7. LockIsFreed'
  BY <1>1, <1>2 DEF Types, At, LockIsFreed, Drives
<1> QED
  BY <1>2, <1>6, <1>7 DEF LockInv

LEMMA FinishHolds == ASSUME LockInv, NEW c \in Controllers, Finish(c) PROVE LockInv'
<1>1. /\ Drives(c) /\ At(c, "parting") /\ param' = "false"
      /\ UNCHANGED <<ip_locked, crashed, stale>>
  BY DEF Finish, Unlock, At, Goto, Drives
<1>2. Types /\ Types'
  BY <1>1 DEF LockInv, Types, At
<1>3. Cardinality(Drivers') = Cardinality(Drivers) - 1
  BY <1>1, <1>2, DriversAfter DEF Driving
<1>4. Cardinality(Drivers) <= stale + (IF param = "true" THEN 1 ELSE 0)
  BY DEF LockInv, OneController, Drivers
<1>5. Cardinality(Drivers') <= stale'
  BY <1>1, <1>2, <1>3, <1>4, FinitelyMany DEF Types
<1>6. OneController'
  BY <1>1, <1>2, <1>5 DEF OneController, Drivers, Types
<1>7. LockIsFreed'
  BY <1>1 DEF LockIsFreed
<1> QED
  BY <1>2, <1>6, <1>7 DEF LockInv

\* A process that ends, with a crash if it drives.
LEMMA EndHolds ==
  ASSUME LockInv, NEW c \in Controllers, Vanish(c), UNCHANGED <<param, ip_locked, stale>>,
         Drives(c) => crashed', ~Drives(c) => crashed' = crashed
  PROVE  LockInv'
<1>1. At(c, "off")
  BY DEF Vanish, At, Goto
<1>2. Types /\ Types'
  BY <1>1 DEF LockInv, Types, At
<1>3. Cardinality(Drivers') <= Cardinality(Drivers)
  BY <1>1, <1>2, DriversAfter DEF Driving
<1>4. Cardinality(Drivers) <= stale + (IF param = "true" THEN 1 ELSE 0)
  BY DEF LockInv, OneController, Drivers
<1>5. Cardinality(Drivers') <= stale' + (IF param' = "true" THEN 1 ELSE 0)
  BY <1>2, <1>3, <1>4, FinitelyMany DEF Types
<1>6. OneController'
  BY <1>5 DEF OneController, Drivers
<1>7. LockIsFreed'
  <2>1. \A d \in Controllers : Drives(d)' <=> Drives(d) /\ d # c
    BY <1>1, <1>2 DEF Types, At, Drives
  <2> QED
    BY <2>1 DEF LockInv, LockIsFreed
<1> QED
  BY <1>2, <1>6, <1>7 DEF LockInv

LEMMA Step == ASSUME LockInv, NEW c \in Controllers,
  \/ Launch(c) \/ HasParam(c) \/ GetParam(c) \/ Refuse(c) \/ SetParam(c)
  \/ Connect(c) \/ InitDone(c) \/ RichThread(c) \/ PlainThread(c) \/ Break(c)
  \/ Finish(c) \/ Part(c) \/ Crash(c)
  PROVE LockInv'
<1>0. Types
  BY DEF LockInv
<1>1. CASE Launch(c)
  <2>1. /\ pc[c] = "off" /\ At(c, "has") /\ UNCHANGED <<param, crashed, stale>>
        /\ DOMAIN ip_locked' = Controllers
    BY <1>0, <1>1 DEF Launch, Goto, At, Types
  <2>2. "has" \in Driving <=> Drives(c)
    BY <2>1 DEF Driving, Drives
  <2> QED
    BY <2>1, <2>2, DrivesOn
<1>2. CASE HasParam(c)
  <2> DEFINE p == IF param = "unset" THEN "test" ELSE "get"
  <2>1. /\ pc[c] = "has" /\ At(c, p) /\ UNCHANGED <<param, crashed, stale>>
        /\ DOMAIN ip_locked' = Controllers
    BY <1>0, <1>2 DEF HasParam, Goto, At, Types, lock
  <2>2. p \in {"test", "get"} /\ (p \in Driving <=> Drives(c))
    BY <2>1 DEF Driving, Drives
  <2> HIDE DEF p
  <2> QED
    BY <2>1, <2>2, DrivesOn
<1>3. CASE GetParam(c)
  <2>1. /\ pc[c] = "get" /\ At(c, "test") /\ UNCHANGED <<param, crashed, stale>>
        /\ DOMAIN ip_locked' = Controllers
    BY <1>0, <1>3 DEF GetParam, Goto, At, Types
  <2>2. "test" \in Driving <=> Drives(c)
    BY <2>1 DEF Driving, Drives
  <2> QED
    BY <2>1, <2>2, DrivesOn
<1>4. CASE Refuse(c)
  <2>1. /\ pc[c] = "test" /\ At(c, "off") /\ UNCHANGED <<param, crashed, stale>>
        /\ DOMAIN ip_locked' = Controllers
    BY <1>0, <1>4 DEF Refuse, LeaveAlone, Goto, At, Types
  <2>2. "off" \in Driving <=> Drives(c)
    BY <2>1 DEF Driving, Drives
  <2> QED
    BY <2>1, <2>2, DrivesOn
<1>5. CASE Connect(c)
  <2>1. /\ Drives(c) /\ At(c, "init") /\ UNCHANGED <<param, crashed, stale>>
        /\ DOMAIN ip_locked' = Controllers
    BY <1>0, <1>5 DEF Connect, Drives, Goto, At, lock, Types
  <2> QED
    BY <2>1, DrivesOn DEF Driving
<1>6. CASE InitDone(c)
  <2>1. /\ Drives(c) /\ At(c, "running") /\ UNCHANGED <<param, crashed, stale>>
        /\ DOMAIN ip_locked' = Controllers
    BY <1>0, <1>6 DEF InitDone, Drives, Goto, At, lock, Types
  <2> QED
    BY <2>1, DrivesOn DEF Driving
<1>7. CASE RichThread(c) \/ PlainThread(c) \/ Break(c)
  <2>1. UNCHANGED <<pc, lock>>
    BY <1>7 DEF RichThread, RichTop, HeartStops, RichConnect, RichRead, RichOver, PlainThread, PlainTop,
                PlainConnect, PlainRead, Break
  <2> QED
    BY <2>1, Aside
<1>8. CASE Part(c)
  BY <1>8, EndHolds DEF Part, Drives, lock
<1>9. CASE Crash(c)
  BY <1>9, EndHolds DEF Crash
<1> QED
  BY SetParamHolds, FinishHolds, <1>1, <1>2, <1>3, <1>4, <1>5, <1>6, <1>7, <1>8, <1>9

LEMMA Invariant == Spec => []LockInv
<1>1. LockInv /\ [Next]_vars => LockInv'
  <2> SUFFICES ASSUME LockInv, [Next]_vars PROVE LockInv'
    OBVIOUS
  <2>1. CASE UNCHANGED vars
    BY <2>1, Aside DEF vars
  <2>2. CASE Next
    BY <2>2, Step DEF Next
  <2> QED
    BY <2>1, <2>2
<1> QED
  BY InitHolds, <1>1, PTL DEF Spec

\* However controllers start, crash and end, and whatever becomes of their connections,
\* no more of them drive the arm than have taken the lock after another had taken it
\* unseen, and one more, which there is only while the parameter is true.
THEOREM OneDriver == Spec => []OneController
<1>1. LockInv => OneController
  BY DEF LockInv
<1> QED
  BY Invariant, <1>1, PTL

\* Only a crash leaves the lock behind.
THEOREM LockFreed == Spec => []LockIsFreed
<1>1. LockInv => LockIsFreed
  BY DEF LockInv
<1> QED
  BY Invariant, <1>1, PTL

-----------------------------------------------------------------------------
(* ControlLoop. *)

\* What the loop knows of a goal that is broken off.
Noticed ==
  goal = "old" =>
    CASE step \in {"read", "check"} -> last_need_reset \/ write_failed
      [] step = "update"           -> last_need_reset \/ curr_need_reset
      [] step \in {"write", "send"} -> last_need_reset
      [] OTHER                     -> TRUE

\* What brings the next need_reset to a reset in this pass, or keeps its command back.
KeepsBack == curr # "ready" \/ read_failed \/ ~read_ready

\* After the first command of an old goal the next one does not go.
NoneFollows ==
  goal = "old" /\ oldSent >= 1 =>
    CASE step \in {"read", "check"} -> last_need_reset /\ ~write_failed
      [] step = "update"           -> last_need_reset /\ (curr_need_reset => KeepsBack)
      [] step = "write"            -> KeepsBack
      [] step = "send"             -> FALSE
      [] OTHER                     -> TRUE

\* Only commands of an old goal are counted.
OthersUncounted == goal # "old" => oldSent = 0

LoopInv == TypeOK /\ Noticed /\ NoneFollows /\ OthersUncounted /\ OldGoalBound

-----------------------------------------------------------------------------
(* The types. *)

LEMMA FlagsNext == Flags /\ [LoopNext]_loopVars => Flags'
<1> SUFFICES ASSUME Flags, [LoopNext]_loopVars PROVE Flags'
  OBVIOUS
<1> USE DEF Flags
<1>1. CASE ArmBreaksOff("stop", "stopped")
  BY <1>1, Zenon DEF ArmBreaksOff, driver, codes, needs
<1>2. CASE ArmBreaksOff("error", "error")
  BY <1>2, Zenon DEF ArmBreaksOff, driver, codes, needs
<1>3. CASE Recover
  BY <1>3, Zenon DEF Recover, driver, codes, needs
<1>4. CASE ConnectionIsLost
  BY <1>4, Zenon DEF ConnectionIsLost, driver, codes, needs
<1>5. CASE ArmReports
  BY <1>5, Zenon DEF ArmReports, driver, codes, needs
<1>6. CASE ReportCallback
  BY <1>6, Zenon DEF ReportCallback, driver, codes, needs
<1>7. CASE SendGoal
  BY <1>7, Zenon DEF SendGoal, driver, codes, needs
<1>8. CASE Read
  BY <1>8, Zenon DEF Read, driver, codes, needs
<1>9. CASE Check
  BY <1>9, Zenon DEF Check, NeedReset, ForgetWrite, driver, codes, needs
<1>10. CASE Update
  BY <1>10, Zenon DEF Update, driver, codes, needs
<1>11. CASE WriteCheck
  BY <1>11, Zenon DEF WriteCheck, ForgetWrite, driver, codes, needs
<1>12. CASE Send
  BY <1>12, Zenon DEF Send, Unsent, Accepted, RefusedOrLost, driver, codes, needs
<1>13. CASE UNCHANGED loopVars
  BY <1>13, Zenon DEF loopVars, driver, codes, needs
<1> QED
  BY <1>1, <1>2, <1>3, <1>4, <1>5, <1>6, <1>7, <1>8, <1>9, <1>10, <1>11, <1>12, <1>13
     DEF LoopNext, ArmStops, Loop

LEMMA LoopTypeInit == LoopInit => TypeOK
<1> SUFFICES ASSUME LoopInit PROVE TypeOK
  OBVIOUS
<1>1. Flags
  BY Zenon DEF LoopInit, Flags
<1> QED
  BY <1>1, ControlLoopAssumption DEF LoopInit, TypeOK

LEMMA LoopTypeNext == TypeOK /\ [LoopNext]_loopVars => TypeOK'
<1> SUFFICES ASSUME TypeOK, [LoopNext]_loopVars PROVE TypeOK'
  OBVIOUS
<1>0. Flags'
  BY FlagsNext DEF TypeOK
<1> USE <1>0, ControlLoopAssumption DEF TypeOK
<1>1. CASE ArmBreaksOff("stop", "stopped")
  BY <1>1 DEF ArmBreaksOff, Fault, driver, codes, needs, sent, limits
<1>2. CASE ArmBreaksOff("error", "error")
  BY <1>2 DEF ArmBreaksOff, Fault, driver, codes, needs, sent, limits
<1>3. CASE Recover
  BY <1>3 DEF Recover, driver, codes, needs, sent, limits
<1>4. CASE ConnectionIsLost
  BY <1>4 DEF ConnectionIsLost, Fault, driver, codes, needs, sent, limits
<1>5. CASE ArmReports
  BY <1>5 DEF ArmReports, driver, codes, needs, sent, limits
<1>6. CASE ReportCallback
  BY <1>6 DEF ReportCallback, driver, codes, needs, sent, limits
<1>7. CASE SendGoal
  BY <1>7 DEF SendGoal, driver, codes, needs, sent, limits
<1>8. CASE Read
  BY <1>8 DEF Read, Fault, driver, codes, needs, sent, limits
<1>9. CASE Check
  BY <1>9 DEF Check, Broken, NeedReset, ForgetWrite, driver, codes, needs, sent, limits
<1>10. CASE Update
  BY <1>10 DEF Update, ResetControllers, driver, codes, needs, sent, limits
<1>11. CASE WriteCheck
  BY <1>11 DEF WriteCheck, Withheld, NeedReset, ForgetWrite, driver, codes, needs, sent, limits
<1>12. CASE Send
  BY <1>12 DEF Send, Unsent, Accepted, RefusedOrLost, Broken, Fault, driver, codes, needs, sent, limits
<1>13. CASE UNCHANGED loopVars
  BY <1>13 DEF loopVars, driver, codes, needs, sent, limits
<1> QED
  BY <1>1, <1>2, <1>3, <1>4, <1>5, <1>6, <1>7, <1>8, <1>9, <1>10, <1>11, <1>12, <1>13
     DEF LoopNext, ArmStops, Loop

\* The loop stays well typed, and a failed write is told to one need_reset only, for
\* every number of faults and goals.
THEOREM LoopTypeCorrect == LoopSpec => []TypeOK
<1>1. TypeOK /\ UNCHANGED loopVars => TypeOK'
  BY LoopTypeNext
<1> QED
  BY LoopTypeInit, LoopTypeNext, PTL DEF LoopSpec

-----------------------------------------------------------------------------
(* Old goals. *)

LEMMA LoopInvInit == LoopInit => LoopInv
  BY LoopTypeInit DEF LoopInit, LoopInv, Noticed, NoneFollows, OthersUncounted, OldGoalBound

LEMMA LoopInvNext == ASSUME LoopInv, [LoopNext]_loopVars PROVE LoopInv'
<1> USE ControlLoopAssumption DEF LoopInv
<1>0. TypeOK /\ TypeOK'
  BY LoopTypeNext
<1> DEFINE Rest == Noticed /\ NoneFollows /\ OthersUncounted /\ OldGoalBound
<1> SUFFICES Rest'
  BY <1>0
<1> USE <1>0 DEF TypeOK, Flags, Noticed, NoneFollows, KeepsBack, OthersUncounted, OldGoalBound
<1>1. CASE ArmStops \/ Recover \/ ConnectionIsLost \/ ArmReports
  <2>1. UNCHANGED <<curr, step, codes, needs, sent>>
    BY <1>1 DEF ArmStops, ArmBreaksOff, Recover, ConnectionIsLost, ArmReports, driver
  <2> QED
    BY <2>1 DEF codes, needs, sent
<1>2. CASE ReportCallback
  BY <1>2 DEF ReportCallback, codes, needs
<1>3. CASE SendGoal
  BY <1>3 DEF SendGoal
<1>4. CASE Read
  BY <1>4 DEF Read, driver, needs, sent
<1>5. CASE Check
  <2>1. curr_need_reset' <=> (KeepsBack \/ write_failed)
    BY <1>5, Zenon DEF Check, NeedReset
  <2>2. /\ step = "check" /\ step' = "update" /\ oldSent' = oldSent
        /\ UNCHANGED <<curr, read_ready, read_failed, last_need_reset>>
    BY <1>5 DEF Check, driver
  <2>3. goal' = IF KeepsBack \/ write_failed THEN (IF goal = "none" THEN "none" ELSE "old") ELSE goal
    BY <1>5 DEF Check, NeedReset, Broken
  <2> QED
    BY <2>1, <2>2, <2>3
<1>6. CASE Update
  BY <1>6 DEF Update, ResetControllers, driver, codes, sent
<1>7. CASE WriteCheck
  BY <1>7 DEF WriteCheck, Withheld, NeedReset, ForgetWrite, driver, needs, sent
<1>8. CASE Send
  BY <1>8 DEF Send, Unsent, Accepted, RefusedOrLost, Broken, driver, needs, sent
<1>9. CASE UNCHANGED loopVars
  BY <1>9 DEF loopVars, driver, codes, needs, sent
<1> QED
  BY <1>1, <1>2, <1>3, <1>4, <1>5, <1>6, <1>7, <1>8, <1>9 DEF LoopNext, Loop

\* Of a goal that the loop knows to be broken off the arm accepts no more than one
\* command between two reports, however fast or slowly these come, however short the
\* outages are and whichever commands are sent.
THEOREM OldGoals == LoopSpec => []OldGoalBound
<1>1. LoopInv /\ [LoopNext]_loopVars => LoopInv'
  BY LoopInvNext
<1>2. LoopInv => OldGoalBound
  BY DEF LoopInv
<1> QED
  BY LoopInvInit, <1>1, <1>2, PTL DEF LoopSpec
=============================================================================
