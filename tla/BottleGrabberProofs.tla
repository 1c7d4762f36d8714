------------------------ MODULE BottleGrabberProofs ------------------------
(***************************************************************************)
(* What the three threads of bottle_grabber.py keep, for every set of      *)
(* pixels, every number of messages and every combination of faults; and   *)
(* what the limits do to every pose.                                       *)
(***************************************************************************)
EXTENDS BottleGrabber, SequenceTheorems, TLAPS

-----------------------------------------------------------------------------
(* The limits.                                                              *)

\* Clamping puts a value inside the range, when the range is not empty.
LEMMA ClampIn ==
  ASSUME NEW x \in Int, NEW lo \in Int, NEW hi \in Int, lo <= hi
  PROVE  Clamp(x, lo, hi) \in lo..hi
BY DEF Clamp

\* enforce_safe_limits returns a pose, and one that verify_joint_safety accepts.
LEMMA EnforceIsSafe ==
  ASSUME NEW p \in [Joints -> Int]
  PROVE  /\ EnforceSafeLimits(p) \in [Joints -> Int]
         /\ VerifyJointSafety(EnforceSafeLimits(p))
<1> DEFINE e(i) == Clamp(Clamp(p[i], SafeMin[i], SafeMax[i]), OfficialMin[i], OfficialMax[i])
<1>1. ASSUME NEW i \in Joints
      PROVE  e(i) \in Int /\ e(i) >= SafeMin[i] /\ e(i) <= SafeMax[i]
  <2>1. p[i] \in Int
    OBVIOUS
  <2>2. i \in {1, 2, 3, 4, 5}
    BY DEF Joints
  <2>3. QED
    BY <2>1, <2>2 DEF Clamp, SafeMin, SafeMax, OfficialMin, OfficialMax
<1>2. EnforceSafeLimits(p) = <<e(1), e(2), e(3), e(4), e(5)>>
  BY DEF EnforceSafeLimits
<1> HIDE DEF e
<1>3. \A i \in Joints : EnforceSafeLimits(p)[i] = e(i)
  BY <1>2 DEF Joints
<1>4. EnforceSafeLimits(p) \in [Joints -> Int]
  BY <1>1, <1>2 DEF Joints
<1>5. QED
  BY <1>1, <1>3, <1>4 DEF VerifyJointSafety

\* The inverse kinematics of any pixel is a pose inside the safe limits, whatever
\* the camera reports: the delta clamp, the joint 4 fallback and the limits together.
THEOREM IKIsSafe ==
  ASSUME NEW u \in Int, NEW v \in Int
  PROVE  SimpleIK(u, v) \in [Joints -> Int] /\ VerifyJointSafety(SimpleIK(u, v))
<1>1. RawIK(u, v) \in [Joints -> Int]
  <2> DEFINE du == Clamp(u - CalibU, -MaxDelta, MaxDelta)
             dv == Clamp(v - CalibV, -MaxDelta, MaxDelta)
             c2 == Clamp(17 * dv, -MaxJChange, MaxJChange)
             c3 == Clamp(-7 * dv, -MaxJChange, MaxJChange)
  <2>1. du \in Int /\ dv \in Int
    BY DEF Clamp, CalibU, CalibV, MaxDelta
  <2>2. c2 \in Int /\ c3 \in Int
    BY <2>1 DEF Clamp, MaxJChange
  <2> DEFINE j1 == CalibJoints[1] - 5 * du
             j2 == CalibJoints[2] + c2
             j3 == CalibJoints[3] + c3
             j4 == Pitch(CalibJoints) - j2 - j3
  <2>3. j1 \in Int /\ j2 \in Int /\ j3 \in Int /\ j4 \in Int
    BY <2>1, <2>2 DEF CalibJoints, Pitch
  <2>4. CalibJoints[2] \in Int /\ CalibJoints[3] \in Int /\ CalibJoints[5] \in Int
        /\ SafeMin[4] \in Int
    BY DEF CalibJoints, SafeMin
  <2>5. RawIK(u, v) = IF j4 < SafeMin[4]
                      THEN <<j1, CalibJoints[2], CalibJoints[3], SafeMin[4], CalibJoints[5]>>
                      ELSE <<j1, j2, j3, j4, CalibJoints[5]>>
    BY DEF RawIK
  <2> HIDE DEF du, dv, c2, c3, j1, j2, j3, j4
  <2>6. QED
    BY <2>3, <2>4, <2>5 DEF Joints
<1>2. QED
  BY <1>1, EnforceIsSafe DEF SimpleIK

\* Every pose the callback derives from a safe pose is safe again, so the whole pour
\* stays inside the limits.
THEOREM DerivedIsSafe ==
  ASSUME NEW s, NEW p \in [Joints -> Int], VerifyJointSafety(p)
  PROVE  Derive(s, p) \in [Joints -> Int] /\ VerifyJointSafety(Derive(s, p))
<1>1. p[1] \in Int /\ p[2] \in Int /\ p[3] \in Int
  BY DEF Joints
<1>2. SafeMin[2] \in Int /\ SafeMax[2] \in Int /\ SafeMax[3] \in Int
  BY DEF SafeMin, SafeMax
<1>3. ASSUME NEW i \in Joints, NEW j \in Joints, NEW x \in Int, NEW y \in Int
      PROVE  [p EXCEPT ![i] = x, ![j] = y] \in [Joints -> Int]
  OBVIOUS
<1>4. ASSUME NEW i \in Joints, NEW x \in Int
      PROVE  [p EXCEPT ![i] = x] \in [Joints -> Int]
  OBVIOUS
<1>5. LiftOf(p) \in [Joints -> Int] /\ VerifyJointSafety(LiftOf(p))
  <2> DEFINE x == IF p[2] - 3000 < SafeMin[2] THEN SafeMin[2] ELSE p[2] - 3000
             y == IF p[3] + 1500 > SafeMax[3] THEN SafeMax[3] ELSE p[3] + 1500
             q == [p EXCEPT ![2] = x, ![3] = y]
  <2>1. x \in Int /\ y \in Int
    BY <1>1, <1>2
  <2>2. LiftOf(p) = EnforceSafeLimits(q)
    BY DEF LiftOf
  <2> HIDE DEF x, y
  <2>3. q \in [Joints -> Int]
    BY <1>3, <2>1 DEF Joints
  <2> HIDE DEF q
  <2>4. QED
    BY <2>2, <2>3, EnforceIsSafe
<1>6. CupOf(p) \in [Joints -> Int] /\ VerifyJointSafety(CupOf(p))
  <2> DEFINE x == p[1] + 12000
             y == IF p[2] + 6000 < SafeMin[2] THEN SafeMin[2] ELSE p[2] + 6000
             q == [p EXCEPT ![1] = x, ![2] = y]
  <2>1. x \in Int /\ y \in Int
    BY <1>1, <1>2
  <2>2. CupOf(p) = EnforceSafeLimits(q)
    BY DEF CupOf
  <2> HIDE DEF x, y
  <2>3. q \in [Joints -> Int]
    BY <1>3, <2>1 DEF Joints
  <2> HIDE DEF q
  <2>4. QED
    BY <2>2, <2>3, EnforceIsSafe
<1>7. ASSUME NEW x \in Int
      PROVE  /\ EnforceSafeLimits([p EXCEPT ![5] = x]) \in [Joints -> Int]
             /\ VerifyJointSafety(EnforceSafeLimits([p EXCEPT ![5] = x]))
  <2> DEFINE q == [p EXCEPT ![5] = x]
  <2>1. q \in [Joints -> Int]
    BY <1>4 DEF Joints
  <2> HIDE DEF q
  <2>2. EnforceSafeLimits(q) \in [Joints -> Int] /\ VerifyJointSafety(EnforceSafeLimits(q))
    BY <2>1, EnforceIsSafe
  <2>3. QED
    BY <2>2 DEF q
<1>8. LowerOf(p) \in [Joints -> Int] /\ VerifyJointSafety(LowerOf(p))
  <2> DEFINE x == IF p[2] + 2500 > SafeMax[2] THEN SafeMax[2] ELSE p[2] + 2500
             q == [p EXCEPT ![2] = x]
  <2>1. x \in Int
    BY <1>1, <1>2
  <2>2. LowerOf(p) = EnforceSafeLimits(q)
    BY DEF LowerOf
  <2> HIDE DEF x
  <2>3. q \in [Joints -> Int]
    BY <1>4, <2>1 DEF Joints
  <2> HIDE DEF q
  <2>4. QED
    BY <2>2, <2>3, EnforceIsSafe
<1>9. PourOf(p) \in [Joints -> Int] /\ VerifyJointSafety(PourOf(p))
  <2> DEFINE x == 60000
  <2>1. x \in Int
    OBVIOUS
  <2>2. PourOf(p) = EnforceSafeLimits([p EXCEPT ![5] = x])
    BY DEF PourOf
  <2> HIDE DEF x
  <2>3. QED
    BY <1>7, <2>1, <2>2, Zenon
<1>10. UprightOf(p) \in [Joints -> Int] /\ VerifyJointSafety(UprightOf(p))
  <2>1. 0 \in Int
    OBVIOUS
  <2>2. QED
    BY <1>7, <2>1, Zenon DEF UprightOf
<1>11. QED
  BY <1>5, <1>6, <1>8, <1>9, <1>10 DEF Derive

\* The home pose is one the limits accept.
LEMMA HomeIsSafe == HomePose \in [Joints -> Int] /\ VerifyJointSafety(HomePose)
<1>1. <<0, 11459, -17189, -28648, 0>> \in [Joints -> Int]
  BY DEF Joints
<1>2. QED
  BY <1>1, EnforceIsSafe DEF HomePose

-----------------------------------------------------------------------------
(* The poses of a pour as numbers. *)

\* Enforcing the limits leaves alone what lies inside both, joint by joint, and
\* brings joint 2 down to its safe maximum.
LEMMA EnforceTuple ==
  ASSUME NEW a \in Int, NEW b \in Int, NEW c \in Int, NEW d \in Int, NEW e \in Int,
         -90000 <= a, a <= 90000, -60000 <= b, b <= 118000, -120000 <= c, c <= 11000,
         -65000 <= d, d <= 80000, -120000 <= e, e <= 120000
  PROVE  EnforceSafeLimits(<<a, b, c, d, e>>) = <<a, IF b > 70000 THEN 70000 ELSE b, c, d, e>>
<1> SUFFICES ASSUME NEW p, p = <<a, b, c, d, e>>
             PROVE  EnforceSafeLimits(p) = <<a, IF b > 70000 THEN 70000 ELSE b, c, d, e>>
  OBVIOUS
<1> DEFINE f(i) == Clamp(Clamp(p[i], SafeMin[i], SafeMax[i]), OfficialMin[i], OfficialMax[i])
<1>1. EnforceSafeLimits(p) = <<f(1), f(2), f(3), f(4), f(5)>>
  BY DEF EnforceSafeLimits
<1>2. p[1] = a /\ p[2] = b /\ p[3] = c /\ p[4] = d /\ p[5] = e
  OBVIOUS
<1>3. f(1) = a /\ f(3) = c /\ f(4) = d /\ f(5) = e
  BY <1>2 DEF Clamp, SafeMin, SafeMax, OfficialMin, OfficialMax
<1>4. f(2) = IF b > 70000 THEN 70000 ELSE b
  BY <1>2 DEF Clamp, SafeMin, SafeMax, OfficialMin, OfficialMax
<1> HIDE DEF f
<1> QED
  BY <1>1, <1>3, <1>4

\* A pose to grasp a bottle in: joint 2 at its safe maximum, joint 5 as calibrated, and
\* the others within a quarter of a degree of the calibration.
NearCalib(g) ==
  /\ g = <<g[1], 70000, g[3], g[4], 4000>>
  /\ g[1] \in Int /\ 20400 <= g[1] /\ g[1] <= 20600
  /\ g[3] \in Int /\ -50140 <= g[3] /\ g[3] <= -49860
  /\ g[4] \in Int /\ -65000 <= g[4] /\ g[4] <= -64800

LEMMA NearCalibTuple ==
  ASSUME NEW a \in Int, NEW b \in Int, NEW c \in Int, NEW d \in Int, 20400 <= a, a <= 20600,
         70000 < b, b <= 118000, -50140 <= c, c <= -49860, -65000 <= d, d <= -64800
  PROVE  NearCalib(EnforceSafeLimits(<<a, b, c, d, 4000>>))
<1>1. EnforceSafeLimits(<<a, b, c, d, 4000>>) = <<a, 70000, c, d, 4000>>
  BY EnforceTuple
<1> QED
  BY <1>1 DEF NearCalib

\* The inverse kinematics of any pixel is such a pose.
LEMMA GraspPose == ASSUME NEW u \in Int, NEW v \in Int PROVE NearCalib(SimpleIK(u, v))
<1> DEFINE du == Clamp(u - CalibU, -MaxDelta, MaxDelta)
           dv == Clamp(v - CalibV, -MaxDelta, MaxDelta)
<1>1. du \in -20..20 /\ dv \in -20..20
  BY DEF Clamp, CalibU, CalibV, MaxDelta
<1> DEFINE j1 == CalibJoints[1] - 5 * du
           j2 == CalibJoints[2] + Clamp(17 * dv, -MaxJChange, MaxJChange)
           j3 == CalibJoints[3] + Clamp(-7 * dv, -MaxJChange, MaxJChange)
           j4 == Pitch(CalibJoints) - j2 - j3
<1>2. RawIK(u, v) = IF j4 < SafeMin[4]
                    THEN <<j1, CalibJoints[2], CalibJoints[3], SafeMin[4], CalibJoints[5]>>
                    ELSE <<j1, j2, j3, j4, CalibJoints[5]>>
  BY DEF RawIK
<1> HIDE DEF du, dv
<1>3. j1 = 20500 - 5 * du /\ j2 = 80000 + 17 * dv /\ j3 = -50000 - 7 * dv /\ j4 = -65000 - 10 * dv
  BY <1>1 DEF CalibJoints, Clamp, MaxJChange, Pitch
<1>4. CalibJoints[2] = 80000 /\ CalibJoints[3] = -50000 /\ CalibJoints[5] = 4000
      /\ SafeMin[4] = -65000
  BY DEF CalibJoints, SafeMin
<1> HIDE DEF j1, j2, j3, j4
<1>5. j1 \in Int /\ 20400 <= j1 /\ j1 <= 20600
  BY <1>1, <1>3
<1>6. CASE j4 < -65000
  <2>1. SimpleIK(u, v) = EnforceSafeLimits(<<j1, 80000, -50000, -65000, 4000>>)
    BY <1>2, <1>4, <1>6 DEF SimpleIK
  <2> QED
    BY <1>5, <2>1, NearCalibTuple
<1>7. CASE ~(j4 < -65000)
  <2>1. SimpleIK(u, v) = EnforceSafeLimits(<<j1, j2, j3, j4, 4000>>)
    BY <1>2, <1>4, <1>7 DEF SimpleIK
  <2>2. j2 \in Int /\ 70000 < j2 /\ j2 <= 118000
    BY <1>1, <1>3
  <2>3. j3 \in Int /\ -50140 <= j3 /\ j3 <= -49860 /\ j4 \in Int /\ -65000 <= j4 /\ j4 <= -64800
    BY <1>1, <1>3, <1>7
  <2> QED
    BY <1>5, <2>1, <2>2, <2>3, NearCalibTuple
<1> QED
  BY <1>6, <1>7

\* The poses that follow it, one after the other.  The last is its own: to lower the
\* bottle changes nothing.
LEMMA PosesOfPour ==
  ASSUME NEW g, NearCalib(g)
  PROVE  LET lift    == LiftOf(g)
             cup     == CupOf(lift)
             pour    == PourOf(cup)
             upright == UprightOf(pour)
         IN  /\ lift    = <<g[1], 67000, g[3] + 1500, g[4], 4000>>
             /\ cup     = <<g[1] + 12000, 70000, g[3] + 1500, g[4], 4000>>
             /\ pour    = <<g[1] + 12000, 70000, g[3] + 1500, g[4], 60000>>
             /\ upright = <<g[1] + 12000, 70000, g[3] + 1500, g[4], 0>>
             /\ LowerOf(upright) = upright
<1> DEFINE a == g[1]
           b == g[1] + 12000
           c == g[3] + 1500
           d == g[4]
<1>1. /\ a \in Int /\ -90000 <= a /\ a <= 90000 /\ b \in Int /\ -90000 <= b /\ b <= 90000
      /\ c \in Int /\ -120000 <= c /\ c <= 11000 /\ d \in Int /\ -65000 <= d /\ d <= 80000
  BY DEF NearCalib
<1>2. LiftOf(g) = EnforceSafeLimits(<<a, 67000, c, d, 4000>>)
  <2>1. g[2] = 70000 /\ c <= 30000 /\ c \in Int
    BY DEF NearCalib
  <2>2. SafeMin[2] = -60000 /\ SafeMax[3] = 30000
    BY DEF SafeMin, SafeMax
  <2> DEFINE x == IF g[2] - 3000 < SafeMin[2] THEN SafeMin[2] ELSE g[2] - 3000
             y == IF c > SafeMax[3] THEN SafeMax[3] ELSE c
             q == [g EXCEPT ![2] = x, ![3] = y]
  <2>3. LiftOf(g) = EnforceSafeLimits(q)
    BY DEF LiftOf
  <2>4. x = 67000 /\ y = c
    BY <2>1, <2>2
  <2> HIDE DEF x, y
  <2>5. q = <<a, 67000, c, d, 4000>>
    BY <2>4 DEF NearCalib
  <2> HIDE DEF q
  <2> QED
    BY <2>3, <2>5
<1> HIDE DEF a, b, c, d
<1>3. LiftOf(g) = <<a, 67000, c, d, 4000>>
  BY <1>1, <1>2, EnforceTuple
<1>4. CupOf(<<a, 67000, c, d, 4000>>) = <<b, 70000, c, d, 4000>>
  <2>1. CupOf(<<a, 67000, c, d, 4000>>) = EnforceSafeLimits(<<b, 73000, c, d, 4000>>)
    BY DEF CupOf, SafeMin, a, b
  <2>2. EnforceSafeLimits(<<b, 73000, c, d, 4000>>) = <<b, 70000, c, d, 4000>>
    BY <1>1, EnforceTuple
  <2> QED
    BY <2>1, <2>2
<1>5. PourOf(<<b, 70000, c, d, 4000>>) = <<b, 70000, c, d, 60000>>
  <2>1. PourOf(<<b, 70000, c, d, 4000>>) = EnforceSafeLimits(<<b, 70000, c, d, 60000>>)
    BY DEF PourOf
  <2>2. EnforceSafeLimits(<<b, 70000, c, d, 60000>>) = <<b, 70000, c, d, 60000>>
    BY <1>1, EnforceTuple
  <2> QED
    BY <2>1, <2>2
<1>6. UprightOf(<<b, 70000, c, d, 60000>>) = <<b, 70000, c, d, 0>>
  <2>1. UprightOf(<<b, 70000, c, d, 60000>>) = EnforceSafeLimits(<<b, 70000, c, d, 0>>)
    BY DEF UprightOf
  <2>2. EnforceSafeLimits(<<b, 70000, c, d, 0>>) = <<b, 70000, c, d, 0>>
    BY <1>1, EnforceTuple
  <2> QED
    BY <2>1, <2>2
<1>7. LowerOf(<<b, 70000, c, d, 0>>) = <<b, 70000, c, d, 0>>
  <2>1. LowerOf(<<b, 70000, c, d, 0>>) = EnforceSafeLimits(<<b, 70000, c, d, 0>>)
    BY DEF LowerOf, SafeMax
  <2>2. EnforceSafeLimits(<<b, 70000, c, d, 0>>) = <<b, 70000, c, d, 0>>
    BY <1>1, EnforceTuple
  <2> QED
    BY <2>1, <2>2
<1> QED
  BY <1>3, <1>4, <1>5, <1>6, <1>7 DEF a, b, c, d

-----------------------------------------------------------------------------
(* The threads.                                                             *)

Pending(t) == IF step[t] = "send" THEN 1 ELSE 0

\* The inductive invariant.  A move that has passed its check and is not sent yet
\* counts against the bound on late moves; that is what LateMoveBound lacks.
IInv ==
  /\ TypeOK
  /\ VerifyJointSafety(target)
  /\ joints = "safe" => late = 0
  /\ joints = "unsafe" => late + Pending("main") + Pending("bottle") <= 2

ThreadsTyped == stage \in [Movers -> Stages] /\ step \in [Movers -> Steps]
          /\ moving \in BOOLEAN /\ target \in [Joints -> Int]
          /\ VerifyJointSafety(target)

\* Every stage After leads to is a stage.
LEMMA AfterIsStage ==
  ASSUME NEW t \in Movers, NEW s \in Stages
  PROVE  After(t, s) \in Stages /\ OnCheckFail(s) \in Stages /\ OnVerifyFail(s) \in Stages
<1>1. After(t, s) \in Stages
  BY DEF After, Stages, MoveStages, GripperStages, ServiceStages
<1>2. OnCheckFail(s) \in Stages /\ OnVerifyFail(s) \in Stages
  BY DEF OnCheckFail, OnVerifyFail, Stages, MoveStages, GripperStages, ServiceStages
<1>3. QED
  BY <1>1, <1>2

\* Going to a stage keeps the threads' state well typed and the target safe, and
\* leaves the thread outside "send" and the other one where it is.
LEMMA GotoKeepsThreads ==
  ASSUME NEW t \in Movers, NEW s \in Stages, ThreadsTyped, Goto(t, s)
  PROVE  ThreadsTyped' /\ Pending(t)' = 0 /\ \A o \in Movers \ {t} : Pending(o)' = Pending(o)
<1>1. stage' \in [Movers -> Stages]
  BY DEF Goto, ThreadsTyped
<1>2. FirstStep(s) \in {"check", "act"}
  BY DEF FirstStep
<1>3. step' \in [Movers -> Steps] /\ Pending(t)' = 0
  BY <1>2 DEF Goto, ThreadsTyped, Steps, Pending
<1>4. \A o \in Movers \ {t} : Pending(o)' = Pending(o)
  BY DEF Goto, ThreadsTyped, Pending
<1>5. moving' \in BOOLEAN
  BY DEF Goto, ThreadsTyped
<1>6. target' \in [Joints -> Int] /\ VerifyJointSafety(target')
  <2>1. Derive(s, target) \in [Joints -> Int] /\ VerifyJointSafety(Derive(s, target))
    BY DerivedIsSafe DEF ThreadsTyped
  <2>2. target' = Derive(s, target) \/ target' = target
    BY DEF Goto
  <2>3. QED
    BY <2>1, <2>2 DEF ThreadsTyped
<1>7. VerifyJointSafety(target)'
  BY <1>6 DEF VerifyJointSafety
<1>8. QED
  BY <1>1, <1>3, <1>4, <1>5, <1>6, <1>7 DEF ThreadsTyped

\* Whatever a service does to the arm, it stays an arm.
LEMMA ArmStaysArm ==
  ASSUME NEW a \in Arms
  PROVE  /\ Halted(a) \in Arms
         /\ \A c : \A b \in ArmSetState(a, c) : b \in Arms
         /\ \A b \in ArmSetMode(a) : b \in Arms
         /\ \A s \in Stages : ArmGrip(a, s) \in Arms
         /\ \A g \in [Joints -> Int] : [a EXCEPT !.goals = Append(@, g)] \in Arms
         /\ a.goals # <<>>
              => [a EXCEPT !.pose = Head(a.goals), !.goals = Tail(@)] \in Arms
         /\ [Halted(a) EXCEPT !.err = TRUE] \in Arms
<1>1. Halted(a) \in Arms
  <2>1. <<>> \in Seq([Joints -> Int])
    OBVIOUS
  <2>2. QED
    BY <2>1 DEF Halted, Arms, STOPPED
<1>2. \A c : \A b \in ArmSetState(a, c) : b \in Arms
  BY <1>1 DEF ArmSetState, Arms, READY
<1>3. \A b \in ArmSetMode(a) : b \in Arms
  <2> DEFINE h == Halted(a)
  <2>1. h \in Arms
    BY <1>1
  <2> HIDE DEF h
  <2>2. \A s \in {STOPPED, CHANGED} : [h EXCEPT !.state = s] \in Arms
    BY <2>1 DEF Arms
  <2>3. QED
    BY <2>2, Zenon DEF ArmSetMode, h
<1>4. \A s \in Stages : ArmGrip(a, s) \in Arms
  BY DEF ArmGrip, Arms
<1>5. \A g \in [Joints -> Int] : [a EXCEPT !.goals = Append(@, g)] \in Arms
  <2>1. \A g \in [Joints -> Int] : Append(a.goals, g) \in Seq([Joints -> Int])
    BY AppendProperties DEF Arms
  <2>2. QED
    BY <2>1 DEF Arms
<1>6. ASSUME a.goals # <<>>
      PROVE  [a EXCEPT !.pose = Head(a.goals), !.goals = Tail(@)] \in Arms
  <2>1. Head(a.goals) \in [Joints -> Int] /\ Tail(a.goals) \in Seq([Joints -> Int])
    BY <1>6, HeadTailProperties DEF Arms
  <2>2. QED
    BY <2>1 DEF Arms
<1>7. [Halted(a) EXCEPT !.err = TRUE] \in Arms
  BY <1>1 DEF Arms
<1>8. QED
  BY <1>1, <1>2, <1>3, <1>4, <1>5, <1>6, <1>7

\* The initial state satisfies the invariant.
LEMMA InitIInv == Init => IInv
<1> SUFFICES ASSUME Init PROVE IInv
  OBVIOUS
<1> USE DEF Init
<1>1. px \in Pixels
  BY GrabberAssumption
<1>2. stage \in [Movers -> Stages] /\ step \in [Movers -> Steps]
  BY DEF Movers, Stages, ServiceStages, Steps
<1>3. stopping \in [Threads -> 0..3]
  OBVIOUS
<1>4. target \in [Joints -> Int] /\ VerifyJointSafety(target)
  BY HomeIsSafe
<1>5. arm \in Arms
  <2>1. [i \in Joints |-> 0] \in [Joints -> Int] /\ <<>> \in Seq([Joints -> Int])
    OBVIOUS
  <2>2. QED
    BY <2>1 DEF Arms, STOPPED
<1>6. inbox \in Seq(Pixels) /\ sent \in 0..MaxMsgs /\ late \in Nat
  BY GrabberAssumption
<1>7. joints \in {"safe", "unsafe"} /\ curState \in {0, READY, STOPPED, CHANGED}
      /\ moving \in BOOLEAN /\ inEmergency \in BOOLEAN /\ shutdown \in BOOLEAN
      /\ nominal \in BOOLEAN
  OBVIOUS
<1>8. TypeOK
  BY <1>1, <1>2, <1>3, <1>4, <1>5, <1>6, <1>7 DEF TypeOK
<1>9. QED
  BY <1>4, <1>8 DEF IInv

\* A step that sends a thread to another stage, and leaves joints and late alone,
\* keeps the invariant when the rest of the state stays well typed.
LEMMA ThreadsMoved ==
  ASSUME IInv, NEW t \in Movers, NEW s \in Stages, Goto(t, s),
         inbox' \in Seq(Pixels), sent' \in 0..MaxMsgs, inEmergency' \in BOOLEAN,
         stopping' \in [Threads -> 0..3], px' \in Pixels, arm' \in Arms,
         shutdown' \in BOOLEAN, nominal' \in BOOLEAN,
         UNCHANGED <<joints, curState, late>>
  PROVE  IInv'
<1>1. ThreadsTyped
  BY DEF IInv, TypeOK, ThreadsTyped
<1>2. ThreadsTyped' /\ Pending(t)' = 0 /\ \A o \in Movers \ {t} : Pending(o)' = Pending(o)
  BY <1>1, GotoKeepsThreads
<1>3. \A o \in Movers : Pending(o) \in 0..1
  BY DEF Pending
<1>4. late \in Nat
  BY DEF IInv, TypeOK
<1>5. joints = "unsafe" => late + Pending("main")' + Pending("bottle")' <= 2
  BY <1>2, <1>3, <1>4 DEF IInv, Movers
<1>6. QED
  BY <1>2, <1>5 DEF IInv, TypeOK, ThreadsTyped

-----------------------------------------------------------------------------
\* Every step keeps the invariant.
LEMMA NextIInv == IInv /\ [Next]_vars => IInv'
<1> SUFFICES ASSUME IInv, [Next]_vars PROVE IInv'
  OBVIOUS
<1> USE DEF IInv, TypeOK
<1>a. ThreadsTyped
  BY DEF ThreadsTyped
<1>b. arm.state \in {READY, STOPPED, CHANGED}
  BY DEF Arms
<1>c. arm \in Arms
  OBVIOUS
<1>1. ASSUME NEW p \in Pixels, Publish(p) PROVE IInv'
  <2>1. inbox' \in Seq(Pixels) /\ sent' \in 0..MaxMsgs
    BY <1>1, GrabberAssumption DEF Publish
  <2>2. QED
    BY <1>1, <2>1 DEF Publish, thread, Pending, VerifyJointSafety
<1>2. ASSUME NEW v \in {"safe", "unsafe"}, NEW due \in BOOLEAN, StateCallback(v, due)
      PROVE  IInv'
  <2>1. stopping' \in [Threads -> 0..3]
    BY <1>2 DEF StateCallback, Threads
  <2>2. /\ late' \in Nat /\ (joints' = "safe" => late' = 0)
        /\ joints' = "unsafe" => late' + Pending("main") + Pending("bottle") <= 2
    BY <1>2 DEF StateCallback, Pending
  <2>3. UNCHANGED <<inbox, sent, thread, inEmergency, px, arm, shutdown>>
        /\ joints' = v /\ curState' = arm.state /\ nominal' \in BOOLEAN
    BY <1>2 DEF StateCallback
  <2>4. QED
    BY <1>b, <2>1, <2>2, <2>3 DEF thread, Pending, VerifyJointSafety
<1>3. ASSUME NEW t \in Threads, ForceStop(t) \/ SkipStart(t) PROVE IInv'
  <2>0. PICK left \in 0..3 : StopGoesOn(t, left)
    BY <1>3 DEF ForceStop, SkipStart
  <2>1. stopping' \in [Threads -> 0..3] /\ inEmergency' \in BOOLEAN
    BY <1>3, <2>0 DEF ForceStop, SkipStart, StopGoesOn
  <2>2. arm' \in Arms
    <3>1. \A c : \A b \in ArmSetState(arm, c) : b \in Arms
      BY <1>c, ArmStaysArm
    <3>2. QED
      BY <1>3, <3>1 DEF ForceStop, SkipStart
  <2>3. UNCHANGED <<inbox, sent, joints, curState, px, shutdown, late, nominal>>
    BY <1>3 DEF ForceStop, SkipStart
  <2>4. CASE left = 0 /\ t \in Movers
    <3>1. AfterFailedCheck(t) \in Stages
      BY <2>4, AfterIsStage DEF AfterFailedCheck
    <3>2. Goto(t, AfterFailedCheck(t))
      BY <2>0, <2>4 DEF StopGoesOn
    <3>3. QED
      BY <1>a, <2>1, <2>2, <2>3, <2>4, <3>1, <3>2, ThreadsMoved
  <2>5. CASE ~(left = 0 /\ t \in Movers)
    <3>1. UNCHANGED thread
      BY <2>0, <2>5 DEF StopGoesOn
    <3>2. QED
      BY <2>1, <2>2, <2>3, <3>1 DEF thread, Pending, VerifyJointSafety
  <2>6. QED
    BY <2>4, <2>5
<1>4. CASE BottleCallback
  <2>1. inbox' \in Seq(Pixels) /\ Head(inbox) \in Pixels
    BY <1>4, HeadTailProperties DEF BottleCallback
  <2>2. UNCHANGED <<sent, inEmergency, joints, curState, stopping, arm, shutdown, late>>
    BY <1>4 DEF BottleCallback
  <2>3. CASE moving
    BY <1>4, <2>1, <2>2, <2>3 DEF BottleCallback, thread, Pending, VerifyJointSafety
  <2>4. CASE ~moving
    <3>1. /\ stage' = [stage EXCEPT !["bottle"] = "begin"]
          /\ step' = [step EXCEPT !["bottle"] = "check"]
          /\ moving' = TRUE /\ px' = Head(inbox)
          /\ target' = SimpleIK(px'[1], px'[2])
          /\ nominal' \in BOOLEAN
      BY <1>4, <2>4 DEF BottleCallback
    <3>2. stage' \in [Movers -> Stages] /\ step' \in [Movers -> Steps]
      BY <3>1 DEF Movers, Stages, Steps
    <3>3. px' \in Pixels /\ px'[1] \in Int /\ px'[2] \in Int
      BY <2>1, <3>1, GrabberAssumption
    <3>4. target' \in [Joints -> Int] /\ VerifyJointSafety(target')
      BY <3>1, <3>3, IKIsSafe
    <3>5. Pending("bottle")' = 0 /\ Pending("main")' = Pending("main")
      BY <3>1 DEF Pending, Movers
    <3>6. Pending("bottle") \in 0..1 /\ Pending("main") \in 0..1
      BY DEF Pending
    <3>7. joints' = "unsafe" => late' + Pending("main")' + Pending("bottle")' <= 2
      BY <2>2, <3>5, <3>6
    <3>8. VerifyJointSafety(target)'
      BY <3>4 DEF VerifyJointSafety
    <3>9. TypeOK'
      BY <2>1, <2>2, <3>1, <3>2, <3>3, <3>4
    <3>10. QED
      BY <2>2, <3>7, <3>8, <3>9
  <2>5. QED
    BY <2>3, <2>4
<1>5. ASSUME NEW t \in Movers, CheckFails(t) PROVE IInv'
  <2>1. stopping' \in [Threads -> 0..3]
    BY <1>5 DEF CheckFails, Threads
  <2>2. QED
    BY <1>5, <2>1 DEF CheckFails, thread, Pending, VerifyJointSafety
<1>6. ASSUME NEW t \in Movers, CheckBeforeMove(t) PROVE IInv'
  <2>1. Verified(t)
    BY DEF Verified
  <2>2. joints = "safe" /\ late = 0
    BY <1>6, <2>1 DEF CheckBeforeMove, CheckPasses
  <2>3. arm' \in Arms
    <3>1. \A c : \A b \in ArmSetState(arm, c) : b \in Arms
      BY <1>c, ArmStaysArm
    <3>2. QED
      BY <1>6, <3>1 DEF CheckBeforeMove
  <2>4. UNCHANGED <<inbox, sent, inEmergency, joints, curState, stopping, px,
                    shutdown, late>> /\ nominal' \in BOOLEAN
    BY <1>6 DEF CheckBeforeMove
  <2>5. stage[t] \in Stages /\ "begin" \in Stages
    BY DEF Stages
  <2>6. ASSUME NEW s \in Stages, Goto(t, s) PROVE IInv'
    BY <1>a, <2>2, <2>3, <2>4, <2>6, GotoKeepsThreads DEF ThreadsTyped
  <2>7. CASE /\ step' = [step EXCEPT ![t] = IF @ = "check" THEN "recheck" ELSE "send"]
             /\ UNCHANGED <<stage, moving, target>>
    <3>1. step' \in [Movers -> Steps]
      BY <2>7 DEF Steps
    <3>2. QED
      BY <2>2, <2>3, <2>4, <2>7, <3>1 DEF VerifyJointSafety
  <2>8. \/ Goto(t, After(t, "begin"))
        \/ Goto(t, OnVerifyFail(stage[t]))
        \/ Goto(t, AfterFailedCheck(t))
        \/ /\ step' = [step EXCEPT ![t] = IF @ = "check" THEN "recheck" ELSE "send"]
           /\ UNCHANGED <<stage, moving, target>>
    BY <1>6 DEF CheckBeforeMove
  <2>9. AfterFailedCheck(t) \in Stages
    BY <2>5, AfterIsStage DEF AfterFailedCheck
  <2>10. QED
    BY <2>5, <2>6, <2>7, <2>8, <2>9, AfterIsStage
<1>7. ASSUME NEW t \in Movers, SendMove(t) PROVE IInv'
  <2>0. late' = IF joints = "unsafe" THEN late + 1 ELSE late
    BY <1>7 DEF SendMove
  <2>1. /\ late' \in Nat
        /\ UNCHANGED <<inbox, sent, inEmergency, joints, curState, stopping, px, shutdown>>
        /\ (joints = "safe" => late' = 0)
        /\ (joints = "unsafe" => late' = late + 1)
    BY <1>7, <2>0 DEF SendMove
  <2>2. Pending(t) = 1 /\ \A o \in Movers : Pending(o) \in 0..1
    BY <1>7 DEF SendMove, Pending
  <2>3. CASE /\ arm' = [arm EXCEPT !.goals = Append(@, Wanted(t))]
             /\ step' = [step EXCEPT ![t] = "post"]
             /\ UNCHANGED <<stage, moving, target, nominal>>
    <3>1. Wanted(t) \in [Joints -> Int]
      BY HomeIsSafe DEF Wanted
    <3>2. arm' \in Arms
      BY <2>3, <3>1, ArmStaysArm
    <3>3. step' \in [Movers -> Steps]
      BY <2>3 DEF Steps
    <3>4. Pending(t)' = 0 /\ \A o \in Movers \ {t} : Pending(o)' = Pending(o)
      BY <2>3 DEF Pending
    <3>5. QED
      BY <2>1, <2>2, <2>3, <3>2, <3>3, <3>4 DEF VerifyJointSafety, Movers
  <2>4. CASE Goto(t, After(t, stage[t])) /\ arm' = arm /\ nominal' = FALSE
    <3>1. After(t, stage[t]) \in Stages
      BY AfterIsStage
    <3>2. ThreadsTyped' /\ Pending(t)' = 0 /\ \A o \in Movers \ {t} : Pending(o)' = Pending(o)
      BY <1>a, <2>4, <3>1, GotoKeepsThreads
    <3>3. joints' = "unsafe" => late' + Pending("main")' + Pending("bottle")' <= 2
      <4>1. t = "main" \/ t = "bottle"
        BY DEF Movers
      <4>2. "main" \in Movers /\ "bottle" \in Movers
        BY DEF Movers
      <4>3. QED
        BY <2>1, <2>2, <3>2, <4>1, <4>2
    <3>4. TypeOK'
      BY <2>1, <2>4, <3>2 DEF ThreadsTyped
    <3>5. QED
      BY <2>1, <3>2, <3>3, <3>4 DEF ThreadsTyped
  <2>5. QED
    BY <1>7, <2>3, <2>4 DEF SendMove
<1>8. ASSUME NEW t \in Movers, MoveDone(t) PROVE IInv'
  <2>1. Goto(t, After(t, stage[t])) /\ After(t, stage[t]) \in Stages
    BY <1>8, AfterIsStage DEF MoveDone
  <2>2. arm' \in Arms /\ nominal' \in BOOLEAN
        /\ UNCHANGED <<inbox, sent, inEmergency, joints, curState, stopping, px,
                       shutdown, late>>
    BY <1>8, ArmStaysArm DEF MoveDone
  <2>3. QED
    BY <1>a, <2>1, <2>2, ThreadsMoved
<1>9. ASSUME NEW t \in Movers, SetGripper(t) PROVE IInv'
  <2>1. Goto(t, After(t, stage[t])) /\ After(t, stage[t]) \in Stages
    BY <1>9, AfterIsStage DEF SetGripper
  <2>2. arm' \in Arms /\ nominal' \in BOOLEAN
        /\ UNCHANGED <<inbox, sent, inEmergency, joints, curState, stopping, px,
                       shutdown, late>>
    BY <1>9, ArmStaysArm DEF SetGripper
  <2>3. QED
    BY <1>a, <2>1, <2>2, ThreadsMoved
<1>10. CASE Initialize
  <2>1. Goto("main", After("main", stage["main"])) /\ "main" \in Movers
        /\ After("main", stage["main"]) \in Stages
    BY <1>10, AfterIsStage DEF Initialize, Movers
  <2>2. arm' \in Arms
        /\ UNCHANGED <<inbox, sent, inEmergency, joints, curState, stopping, px,
                       shutdown, late, nominal>>
    <3>1. stage["main"] \in {"setmode", "setstate", "configure"}
      BY <1>10 DEF Initialize, ServiceStages
    <3>2. arm' \in ArmSetMode(arm) \/ arm' \in ArmSetState(arm, 0) \/ arm' = arm
      BY <1>10, <3>1, Zenon DEF Initialize
    <3>3. /\ \A c : \A b \in ArmSetState(arm, c) : b \in Arms
          /\ \A b \in ArmSetMode(arm) : b \in Arms
      BY <1>c, ArmStaysArm
    <3>4. QED
      BY <1>10, <3>2, <3>3 DEF Initialize
  <2>3. QED
    BY <1>a, <2>1, <2>2, ThreadsMoved
<1>11. CASE InitializeFails
  <2>1. Goto("main", "dead") /\ "main" \in Movers /\ "dead" \in Stages
    BY <1>11 DEF InitializeFails, Movers, Stages
  <2>2. shutdown' = TRUE /\ nominal' = FALSE
        /\ UNCHANGED <<inbox, sent, inEmergency, joints, curState, stopping, px, arm, late>>
    BY <1>11 DEF InitializeFails
  <2>3. QED
    BY <1>a, <2>1, <2>2, ThreadsMoved
<1>12. CASE ArmArrives
  BY <1>12, ArmStaysArm DEF ArmArrives, thread, Pending, VerifyJointSafety
<1>13. CASE ArmFails
  BY <1>13, ArmStaysArm DEF ArmFails, thread, Pending, VerifyJointSafety
<1>14. CASE Shutdown
  BY <1>14 DEF Shutdown, thread, Pending, VerifyJointSafety
<1>15. CASE UNCHANGED vars
  BY <1>15 DEF vars, thread, Pending, VerifyJointSafety
<1>16. QED
  BY <1>1, <1>2, <1>3, <1>4, <1>5, <1>6, <1>7, <1>8, <1>9, <1>10, <1>11, <1>12,
     <1>13, <1>14, <1>15 DEF Next

\* The invariant holds in every reachable state.
THEOREM Invariance == Spec => []IInv
BY InitIInv, NextIInv, PTL DEF Spec

\* Type correctness of the node and of the arm behind it.
THEOREM TypeCorrect == Spec => []TypeOK
<1>1. IInv => TypeOK
  BY DEF IInv
<1>2. QED
  BY <1>1, Invariance, PTL

\* Whatever bottle is reported and whatever fails, no target of the pour is turned
\* down by verify_joint_safety: the branches that handle that are never taken.
THEOREM TargetsSafe == Spec => []VerifyNeverFails
<1>1. IInv => VerifyNeverFails
  BY DEF IInv, VerifyNeverFails, Verified
<1>2. QED
  BY <1>1, Invariance, PTL

\* From the moment the joints are reported unsafe, at most the two moves whose
\* check was already passed go out.
THEOREM LateMoves == Spec => []LateMoveBound
<1>1. IInv => LateMoveBound
  BY DEF IInv, TypeOK, LateMoveBound, Pending
<1>2. QED
  BY <1>1, Invariance, PTL

-----------------------------------------------------------------------------
(* The pour in which nothing goes wrong, for every pixel and every number   *)
(* of bottles, and what the stop of the script comes to in any.             *)

\* The poses of the pour under way.
Grasp   == SimpleIK(px[1], px[2])
Lift    == LiftOf(Grasp)
Cup     == CupOf(Lift)
Pour    == PourOf(Cup)
Upright == UprightOf(Pour)

HeldStages == {"lift", "cup", "pour", "upright", "lower", "release"}
PourStages == {"idle", "begin", "open", "approach", "grasp", "home"} \cup HeldStages

\* Where the arm is before the move of a stage, and where the callback wants it then.
PoseBefore(s) ==
  CASE s \in {"grasp", "lift"}             -> Grasp
    [] s = "cup"                           -> Lift
    [] s = "pour"                          -> Cup
    [] s = "upright"                       -> Pour
    [] s \in {"lower", "release", "home"}  -> Upright
    [] s \in {"idle", "begin", "open", "approach"} -> HomePose

TargetOf(s) ==
  CASE s \in {"begin", "open", "approach", "grasp"}   -> Grasp
    [] s = "lift"                                     -> Lift
    [] s = "cup"                                      -> Cup
    [] s = "pour"                                     -> Pour
    [] s \in {"upright", "lower", "release", "home"}  -> Upright

InMotion(p) == arm.goals = <<p>> \/ (arm.goals = <<>> /\ arm.pose = p)

StepFits(t) == stage[t] \notin MoveStages => step[t] = FirstStep(stage[t])

\* While the constructor runs, and once it is through.
Starting ==
  /\ stage["bottle"] = "idle" /\ ~arm.held
  /\ stage["main"] \in {"setmode", "setstate", "configure", "open", "home"}
  /\ stage["main"] = "home" => arm.gripper = "open"
  /\ IF step["main"] = "post" THEN InMotion(HomePose) ELSE arm.goals = <<>>

Pouring ==
  /\ stage["bottle"] \in PourStages
  /\ stage["bottle"] # "idle" => target = TargetOf(stage["bottle"])
  /\ arm.held <=> stage["bottle"] \in HeldStages
  /\ arm.held <=> arm.gripper = "closed"
  /\ IF step["bottle"] = "post" THEN InMotion(Wanted("bottle")) ELSE arm.goals = <<>>
  /\ step["bottle"] # "post" \/ arm.goals # <<>> => arm.pose = PoseBefore(stage["bottle"])

\* What nominal comes to: each stage finds the arm where the one before it left it.
Quiet ==
  /\ joints = "safe" /\ ~shutdown
  /\ \A t \in Threads : stopping[t] = 0
  /\ StepFits("main") /\ StepFits("bottle")
  /\ IF stage["main"] = "idle" THEN Pouring ELSE Starting

Undisturbed == nominal => Quiet

-----------------------------------------------------------------------------
LEMMA MoversAre == Movers = {"main", "bottle"} /\ "main" \in Movers /\ "bottle" \in Movers
                   /\ "main" \in Threads /\ "bottle" \in Threads
  BY DEF Movers, Threads

\* Poses that the stages need: lowering leaves the arm where it is.
LEMMA LoweringIsNoOp == ASSUME IInv PROVE LowerOf(Upright) = Upright
<1>1. px[1] \in Int /\ px[2] \in Int
  BY GrabberAssumption DEF IInv, TypeOK
<1>2. NearCalib(Grasp)
  BY <1>1, GraspPose DEF Grasp
<1> QED
  BY <1>2, PosesOfPour DEF Lift, Cup, Pour, Upright

LEMMA InitQuiet == Init => Quiet
<1> SUFFICES ASSUME Init PROVE Quiet
  OBVIOUS
<1>1. stage["main"] = "setmode" /\ stage["bottle"] = "idle"
      /\ step["main"] = "act" /\ step["bottle"] = "act"
  BY MoversAre DEF Init
<1>2. arm.goals = <<>> /\ ~arm.held
  BY DEF Init
<1>3. \A t \in Threads : stopping[t] = 0
  BY DEF Init
<1> QED
  BY <1>1, <1>2, <1>3 DEF Init, Quiet, Starting, StepFits, FirstStep, MoveStages

\* Steps that leave the threads and the arm alone.
LEMMA Aside ==
  ASSUME Quiet, UNCHANGED <<joints, shutdown, stopping, stage, step, target, px, arm>>
  PROVE  Quiet'
<1>1. Grasp' = Grasp
  BY DEF Grasp
<1>2. Lift' = Lift /\ Cup' = Cup /\ Pour' = Pour /\ Upright' = Upright
  BY <1>1 DEF Lift, Cup, Pour, Upright
<1>3. Pouring' = Pouring
  BY <1>1, <1>2 DEF Pouring, TargetOf, PoseBefore, InMotion, Wanted
<1>4. Starting' = Starting
  BY DEF Starting, InMotion
<1> QED
  BY <1>3, <1>4 DEF Quiet, StepFits

\* What the two movers need, to go on to a stage undisturbed.
LEMMA BottleGoes ==
  ASSUME IInv, Quiet, stage["main"] = "idle", NEW s \in PourStages, Goto("bottle", s),
         UNCHANGED <<joints, shutdown, stopping, px>>,
         s # "idle" => Derive(s, target) = TargetOf(s),
         arm'.goals = <<>>, arm'.pose = PoseBefore(s),
         arm'.held <=> s \in HeldStages, arm'.held <=> arm'.gripper = "closed"
  PROVE  Quiet'
<1>1. Grasp' = Grasp /\ Lift' = Lift /\ Cup' = Cup /\ Pour' = Pour /\ Upright' = Upright
  BY DEF Grasp, Lift, Cup, Pour, Upright
<1>2. \A x : TargetOf(x)' = TargetOf(x) /\ PoseBefore(x)' = PoseBefore(x)
  BY <1>1 DEF TargetOf, PoseBefore
<1>3. /\ stage'["bottle"] = s /\ step'["bottle"] = FirstStep(s)
      /\ stage'["main"] = "idle" /\ step'["main"] = step["main"]
  BY MoversAre DEF IInv, TypeOK, Goto
<1>4. step'["bottle"] # "post"
  BY <1>3 DEF FirstStep
<1>5. StepFits("main")' /\ StepFits("bottle")'
  BY <1>3 DEF StepFits, Quiet
<1>6. target' = Derive(s, target)
  BY DEF Goto
<1>7. Pouring'
  BY <1>2, <1>3, <1>4, <1>6 DEF Pouring
<1> QED
  BY <1>3, <1>5, <1>7 DEF Quiet

LEMMA MainGoes ==
  ASSUME IInv, Quiet, stage["main"] # "idle",
         NEW s \in {"setstate", "configure", "open", "home"}, Goto("main", s),
         UNCHANGED <<joints, shutdown, stopping>>,
         arm'.goals = <<>>, ~arm'.held, s = "home" => arm'.gripper = "open"
  PROVE  Quiet'
<1>1. /\ stage'["main"] = s /\ step'["main"] = FirstStep(s)
      /\ stage'["bottle"] = stage["bottle"] /\ step'["bottle"] = step["bottle"]
  BY MoversAre DEF IInv, TypeOK, Goto
<1>2. step'["main"] # "post"
  BY <1>1 DEF FirstStep
<1>3. StepFits("main")' /\ StepFits("bottle")'
  BY <1>1 DEF StepFits, Quiet
<1>4. Starting'
  BY <1>1, <1>2 DEF Starting, Quiet
<1> QED
  BY <1>1, <1>3, <1>4 DEF Quiet

\* A service that starts the arm leaves everything else about it.
LEMMA StartKeeps ==
  ASSUME arm \in Arms, arm' \in ArmSetState(arm, 0)
  PROVE  /\ arm'.goals = arm.goals /\ arm'.pose = arm.pose
         /\ arm'.held = arm.held /\ arm'.gripper = arm.gripper
  BY DEF ArmSetState, Arms

-----------------------------------------------------------------------------
(* The steps, each with nothing going wrong before or in it. *)

LEMMA CallbackQuiet == IInv /\ Quiet /\ BottleCallback /\ nominal' => Quiet'
<1> SUFFICES ASSUME IInv, Quiet, BottleCallback, nominal' PROVE Quiet'
  OBVIOUS
<1>1. UNCHANGED <<joints, shutdown, stopping, arm>>
  BY DEF BottleCallback
<1>2. CASE moving
  BY <1>1, <1>2, Aside DEF BottleCallback, thread
<1>3. CASE ~moving
  <2>1. /\ stage' = [stage EXCEPT !["bottle"] = "begin"]
        /\ step' = [step EXCEPT !["bottle"] = "check"]
        /\ target' = SimpleIK(px'[1], px'[2])
        /\ stage["bottle"] = "idle"
    BY <1>3 DEF BottleCallback
  <2>2. stage["main"] = "idle"
    BY <1>3, Zenon DEF BottleCallback
  <2>3. /\ stage'["bottle"] = "begin" /\ step'["bottle"] = "check"
        /\ stage'["main"] = "idle" /\ step'["main"] = step["main"]
    BY <2>1, <2>2, MoversAre DEF IInv, TypeOK
  <2>4. Pouring /\ step["bottle"] # "post"
    BY <2>1, <2>2 DEF Quiet, StepFits, MoveStages, FirstStep
  <2>5. arm.goals = <<>> /\ arm.pose = HomePose /\ ~arm.held /\ arm.gripper # "closed"
    BY <2>1, <2>4 DEF Pouring, PoseBefore, HeldStages
  <2>6. target' = TargetOf("begin")'
    BY <2>1 DEF TargetOf, Grasp
  <2>7. Pouring'
    BY <1>1, <2>3, <2>5, <2>6 DEF Pouring, PoseBefore, HeldStages, PourStages
  <2>8. StepFits("main")' /\ StepFits("bottle")'
    BY <2>2, <2>3 DEF StepFits, Quiet, FirstStep
  <2> QED
    BY <1>1, <2>3, <2>7, <2>8 DEF Quiet
<1> QED
  BY <1>2, <1>3

LEMMA CheckQuiet ==
  ASSUME IInv, Quiet, NEW t \in Movers, CheckBeforeMove(t), nominal'
  PROVE  Quiet'
<1>1. UNCHANGED <<joints, shutdown, stopping, px>>
  BY DEF CheckBeforeMove
<1>2. /\ step[t] \in {"check", "recheck"} /\ stage[t] \notin {"idle", "dead"}
      /\ arm' \in ArmSetState(arm, 0) \/ arm' = arm
      /\ IF stage[t] = "begin" THEN Goto(t, After(t, "begin"))
         ELSE /\ step' = [step EXCEPT ![t] = IF @ = "check" THEN "recheck" ELSE "send"]
              /\ UNCHANGED <<stage, moving, target>>
  BY Zenon DEF CheckBeforeMove, Running
<1>3. /\ arm'.goals = arm.goals /\ arm'.pose = arm.pose
      /\ arm'.held = arm.held /\ arm'.gripper = arm.gripper
  BY <1>2, StartKeeps DEF IInv, TypeOK
<1>4. CASE stage[t] = "begin"
  <2>1. t = "bottle" /\ stage["main"] = "idle"
    BY <1>2, <1>4, MoversAre DEF Quiet, Starting
  <2>2. Goto("bottle", "open")
    BY <1>2, <1>4, <2>1 DEF After, Quiet, SleepsInCallback
  <2>3. Pouring /\ step["bottle"] # "post"
    BY <1>2, <2>1 DEF Quiet
  <2>4. /\ arm.goals = <<>> /\ arm.pose = PoseBefore("open") /\ target = TargetOf("open")
        /\ ~arm.held /\ arm.gripper # "closed"
    BY <1>4, <2>1, <2>3 DEF Pouring, PoseBefore, TargetOf, HeldStages
  <2>5. Derive("open", target) = target
    BY DEF Derive
  <2>6. "open" \in PourStages /\ "open" \notin HeldStages
    BY DEF PourStages, HeldStages
  <2> QED
    BY <1>1, <1>3, <2>1, <2>2, <2>4, <2>5, <2>6, BottleGoes
<1>5. CASE stage[t] # "begin"
  <2>1. /\ step' = [step EXCEPT ![t] = IF @ = "check" THEN "recheck" ELSE "send"]
        /\ UNCHANGED <<stage, target>>
    BY <1>2, <1>5
  <2>2. stage[t] \in MoveStages
    BY <1>2, <1>5, MoversAre DEF Quiet, StepFits, FirstStep
  <2>3. \A m \in Movers : (step'[m] = "post") = (step[m] = "post")
    BY <1>2, <2>1, MoversAre DEF IInv, TypeOK
  <2>4. \A m \in Movers \ {t} : step'[m] = step[m]
    BY <2>1, MoversAre DEF IInv, TypeOK
  <2>5. StepFits("main")' /\ StepFits("bottle")'
    BY <2>1, <2>2, <2>4, MoversAre DEF StepFits, Quiet
  <2>6. Grasp' = Grasp /\ Lift' = Lift /\ Cup' = Cup /\ Pour' = Pour /\ Upright' = Upright
    BY <1>1 DEF Grasp, Lift, Cup, Pour, Upright
  <2>7. Pouring => Pouring'
    BY <1>3, <2>1, <2>3, <2>6, MoversAre DEF Pouring, TargetOf, PoseBefore, InMotion, Wanted
  <2>8. Starting => Starting'
    BY <1>3, <2>1, <2>3, MoversAre DEF Starting, InMotion
  <2> QED
    BY <1>1, <2>1, <2>5, <2>7, <2>8 DEF Quiet
<1> QED
  BY <1>4, <1>5

LEMMA SendQuiet ==
  ASSUME IInv, Quiet, NEW t \in Movers, SendMove(t), nominal'
  PROVE  Quiet'
<1>1. UNCHANGED <<joints, shutdown, stopping, px>>
  BY DEF SendMove
<1>2. /\ step[t] = "send" /\ stage[t] \notin {"idle", "dead"}
      /\ arm' = [arm EXCEPT !.goals = Append(@, Wanted(t))]
      /\ step' = [step EXCEPT ![t] = "post"]
      /\ UNCHANGED <<stage, target>>
  BY Zenon DEF SendMove, Running
<1>3. stage[t] \in MoveStages
  BY <1>2, MoversAre DEF Quiet, StepFits, FirstStep
<1>4. step'[t] = "post" /\ \A m \in Movers \ {t} : step'[m] = step[m]
  BY <1>2, MoversAre DEF IInv, TypeOK
<1>5. StepFits("main")' /\ StepFits("bottle")'
  BY <1>2, <1>3, <1>4, MoversAre DEF StepFits, Quiet
<1>6. Wanted(t)' = Wanted(t)
  BY <1>2 DEF Wanted
<1>7. CASE stage["main"] = "idle"
  <2>1. t = "bottle"
    BY <1>2, <1>7, MoversAre
  <2>2. Pouring /\ arm.goals = <<>> /\ arm.pose = PoseBefore(stage["bottle"])
    BY <1>2, <1>7, <2>1 DEF Quiet, Pouring
  <2>3. /\ arm'.goals = <<Wanted("bottle")'>> /\ arm'.pose = arm.pose
        /\ arm'.held = arm.held /\ arm'.gripper = arm.gripper
    BY <1>2, <1>6, <2>1, <2>2 DEF IInv, TypeOK, Arms
  <2>4. Grasp' = Grasp /\ Lift' = Lift /\ Cup' = Cup /\ Pour' = Pour /\ Upright' = Upright
    BY <1>1 DEF Grasp, Lift, Cup, Pour, Upright
  <2>5. Pouring'
    BY <1>2, <1>4, <2>1, <2>2, <2>3, <2>4 DEF Pouring, TargetOf, PoseBefore, InMotion
  <2> QED
    BY <1>1, <1>2, <1>5, <1>7, <2>5 DEF Quiet
<1>8. CASE stage["main"] # "idle"
  <2>1. t = "main" /\ Starting
    BY <1>2, <1>8, MoversAre DEF Quiet, Starting
  <2>2. stage["main"] = "home"
    BY <1>3, <2>1 DEF Starting, MoveStages
  <2>3. arm.goals = <<>>
    BY <1>2, <2>1 DEF Starting
  <2>4. /\ arm'.goals = <<HomePose>>
        /\ arm'.held = arm.held /\ arm'.gripper = arm.gripper
    BY <1>2, <2>1, <2>2, <2>3 DEF IInv, TypeOK, Arms, Wanted
  <2>5. Starting'
    BY <1>2, <1>4, <2>1, <2>4 DEF Starting, InMotion
  <2> QED
    BY <1>1, <1>2, <1>5, <1>8, <2>5 DEF Quiet
<1> QED
  BY <1>7, <1>8

\* The stage after a move finds the arm where the move has put it, and the bottle in
\* the gripper if it was there.
LEMMA AfterMove ==
  ASSUME IInv, Quiet, Pouring, stage["bottle"] \in MoveStages, arm.pose = Wanted("bottle")
  PROVE  LET s == After("bottle", stage["bottle"])
         IN  /\ s \in PourStages /\ arm.pose = PoseBefore(s)
             /\ s # "idle" => Derive(s, target) = TargetOf(s)
             /\ stage["bottle"] \in HeldStages <=> s \in HeldStages
<1>1. ~shutdown
  BY DEF Quiet
<1>2. stage["bottle"] # "idle" /\ target = TargetOf(stage["bottle"])
  BY DEF Pouring, MoveStages
<1>3. LowerOf(Upright) = Upright
  BY LoweringIsNoOp
<1>4. CASE stage["bottle"] \in {"approach", "home", "lower"}
  BY <1>1, <1>2, <1>4
     DEF After, PoseBefore, TargetOf, Derive, Wanted, PourStages, HeldStages, SleepsInCallback
<1>5. CASE stage["bottle"] \in {"lift", "cup"}
  BY <1>1, <1>2, <1>5 DEF After, PoseBefore, TargetOf, Derive, Wanted, PourStages, HeldStages,
     SleepsInCallback, Cup, Pour
<1>6. CASE stage["bottle"] \in {"pour", "upright"}
  BY <1>1, <1>2, <1>3, <1>6 DEF After, PoseBefore, TargetOf, Derive, Wanted, PourStages, HeldStages,
     SleepsInCallback, Upright
<1> QED
  BY <1>4, <1>5, <1>6 DEF MoveStages

LEMMA DoneQuiet ==
  ASSUME IInv, Quiet, NEW t \in Movers, MoveDone(t), nominal'
  PROVE  Quiet'
<1>1. UNCHANGED <<joints, shutdown, stopping, px, arm>>
  BY DEF MoveDone
<1>2. /\ step[t] = "post" /\ stage[t] \notin {"idle", "dead"}
      /\ Goto(t, After(t, stage[t]))
  BY DEF MoveDone, Running
<1>3. arm.goals = <<>>
  BY Zenon DEF MoveDone
<1>4. stage[t] \in MoveStages
  BY <1>2, MoversAre DEF Quiet, StepFits, FirstStep
<1>5. CASE stage["main"] = "idle"
  <2>1. t = "bottle" /\ Pouring
    BY <1>2, <1>5, MoversAre DEF Quiet
  <2>2. arm.pose = Wanted("bottle")
    BY <1>2, <1>3, <2>1 DEF Pouring, InMotion
  <2>3. arm.held <=> stage["bottle"] \in HeldStages
    BY <2>1 DEF Pouring
  <2>4. arm.held <=> arm.gripper = "closed"
    BY <2>1 DEF Pouring
  <2> DEFINE s == After("bottle", stage["bottle"])
  <2>5. /\ s \in PourStages /\ arm.pose = PoseBefore(s)
        /\ s # "idle" => Derive(s, target) = TargetOf(s)
        /\ stage["bottle"] \in HeldStages <=> s \in HeldStages
    BY <1>4, <2>1, <2>2, AfterMove
  <2>6. Goto("bottle", s)
    BY <1>2, <2>1
  <2>7. PoseBefore(s) = arm'.pose /\ arm'.goals = <<>>
    BY <1>1, <1>3, <2>5
  <2>8. (arm'.held <=> s \in HeldStages) /\ (arm'.held <=> arm'.gripper = "closed")
    BY <1>1, <2>3, <2>4, <2>5
  <2> HIDE DEF s
  <2> QED
    BY <1>1, <1>5, <2>5, <2>6, <2>7, <2>8, BottleGoes
<1>6. CASE stage["main"] # "idle"
  <2>1. t = "main" /\ Starting /\ stage["main"] = "home"
    BY <1>2, <1>4, <1>6, MoversAre DEF Quiet, Starting, MoveStages
  <2>2. After("main", "home") = "idle"
    BY DEF After
  <2>3. /\ stage'["main"] = "idle" /\ step'["main"] = "act"
        /\ stage'["bottle"] = "idle" /\ step'["bottle"] = step["bottle"]
    BY <1>2, <2>1, <2>2, MoversAre DEF IInv, TypeOK, Goto, FirstStep, MoveStages, Starting
  <2>4. step["bottle"] = "act"
    BY <2>1 DEF Quiet, StepFits, Starting, FirstStep, MoveStages
  <2>5. arm.pose = HomePose
    BY <1>2, <1>3, <2>1 DEF Starting, InMotion
  <2>6. ~arm.held /\ arm.gripper # "closed"
    BY <2>1 DEF Starting
  <2>7. Pouring'
    BY <1>1, <1>3, <2>3, <2>4, <2>5, <2>6 DEF Pouring, PoseBefore, PourStages, HeldStages
  <2>8. StepFits("main")' /\ StepFits("bottle")'
    BY <2>3, <2>4 DEF StepFits, FirstStep, MoveStages
  <2> QED
    BY <1>1, <2>3, <2>7, <2>8 DEF Quiet
<1> QED
  BY <1>5, <1>6

LEMMA GripperQuiet ==
  ASSUME IInv, Quiet, NEW t \in Movers, SetGripper(t), nominal'
  PROVE  Quiet'
<1>1. UNCHANGED <<joints, shutdown, stopping, px>>
  BY DEF SetGripper
<1>2. /\ stage[t] \in GripperStages /\ Goto(t, After(t, stage[t]))
      /\ arm' = ArmGrip(arm, stage[t])
  BY Zenon DEF SetGripper
<1>3. step[t] # "post"
  BY <1>2, MoversAre DEF Quiet, StepFits, FirstStep, GripperStages, MoveStages
<1>4. arm \in Arms
  BY DEF IInv, TypeOK
<1>5. arm'.goals = arm.goals /\ arm'.pose = arm.pose
  BY <1>2, <1>4 DEF ArmGrip, Arms
<1>6. CASE stage["main"] = "idle"
  <2>1. t = "bottle" /\ Pouring
    BY <1>2, <1>6, MoversAre DEF Quiet, GripperStages
  <2>2. /\ arm.goals = <<>> /\ arm.pose = PoseBefore(stage["bottle"])
        /\ target = TargetOf(stage["bottle"])
    BY <1>2, <1>3, <2>1 DEF Pouring, GripperStages
  <2>3. (arm.held <=> stage["bottle"] \in HeldStages) /\ (arm.held <=> arm.gripper = "closed")
    BY <2>1 DEF Pouring
  <2>4. ~shutdown
    BY DEF Quiet
  <2>5. CASE stage["bottle"] = "open"
    <3>1. Goto("bottle", "approach")
      BY <1>2, <2>1, <2>4, <2>5 DEF After, SleepsInCallback
    <3>2. ~arm'.held /\ arm'.gripper # "closed"
      BY <1>2, <1>4, <2>1, <2>5 DEF ArmGrip, Arms
    <3>3. /\ arm'.pose = PoseBefore("approach") /\ Derive("approach", target) = TargetOf("approach")
          /\ "approach" \in PourStages \ HeldStages
      BY <1>5, <2>2, <2>5 DEF PoseBefore, TargetOf, Derive, PourStages, HeldStages
    <3> QED
      BY <1>1, <1>5, <1>6, <2>2, <3>1, <3>2, <3>3, BottleGoes
  <2>6. CASE stage["bottle"] = "grasp"
    <3>1. Goto("bottle", "lift")
      BY <1>2, <2>1, <2>4, <2>6 DEF After, SleepsInCallback
    <3>2. arm.gripper = "open" /\ arm.pose = target
      BY <1>4, <2>2, <2>3, <2>6 DEF Arms, HeldStages, PoseBefore, TargetOf
    <3>3. arm'.held /\ arm'.gripper = "closed"
      BY <1>2, <1>4, <2>1, <2>6, <3>2 DEF ArmGrip, Arms
    <3>4. /\ arm'.pose = PoseBefore("lift") /\ Derive("lift", target) = TargetOf("lift")
          /\ "lift" \in PourStages /\ "lift" \in HeldStages
      BY <1>5, <2>2, <2>6 DEF PoseBefore, TargetOf, Derive, PourStages, HeldStages, Lift
    <3> QED
      BY <1>1, <1>5, <1>6, <2>2, <3>1, <3>3, <3>4, BottleGoes
  <2>7. CASE stage["bottle"] = "release"
    <3>1. Goto("bottle", "home")
      BY <1>2, <2>1, <2>4, <2>7 DEF After, SleepsInCallback
    <3>2. ~arm'.held /\ arm'.gripper # "closed"
      BY <1>2, <1>4, <2>1, <2>7 DEF ArmGrip, Arms
    <3>3. /\ arm'.pose = PoseBefore("home") /\ Derive("home", target) = TargetOf("home")
          /\ "home" \in PourStages \ HeldStages
      BY <1>5, <2>2, <2>7 DEF PoseBefore, TargetOf, Derive, PourStages, HeldStages
    <3> QED
      BY <1>1, <1>5, <1>6, <2>2, <3>1, <3>2, <3>3, BottleGoes
  <2> QED
    BY <1>2, <2>1, <2>5, <2>6, <2>7 DEF GripperStages
<1>7. CASE stage["main"] # "idle"
  <2>1. t = "main" /\ Starting /\ stage["main"] = "open"
    BY <1>2, <1>7, MoversAre DEF Quiet, Starting, GripperStages
  <2>2. Goto("main", "home")
    BY <1>2, <2>1 DEF After
  <2>3. ~arm'.held /\ arm'.gripper = "open" /\ arm'.goals = <<>>
    BY <1>2, <1>3, <1>4, <1>5, <2>1 DEF ArmGrip, Arms, Starting
  <2> QED
    BY <1>1, <1>7, <2>2, <2>3, MainGoes
<1> QED
  BY <1>6, <1>7

LEMMA InitializeQuiet == ASSUME IInv, Quiet, Initialize PROVE Quiet'
<1>1. UNCHANGED <<joints, shutdown, stopping>>
  BY DEF Initialize
<1>2. stage["main"] \in {"setmode", "setstate", "configure"} /\ stage["main"] # "idle"
      /\ Goto("main", After("main", stage["main"]))
  BY DEF Initialize, ServiceStages
<1>3. Starting /\ step["main"] # "post"
  BY <1>2 DEF Quiet, StepFits, FirstStep, MoveStages
<1>4. arm.goals = <<>> /\ ~arm.held /\ arm \in Arms
  BY <1>3 DEF Starting, IInv, TypeOK
<1>5. arm' \in ArmSetMode(arm) \/ arm' \in ArmSetState(arm, 0) \/ arm' = arm
  BY <1>2, Zenon DEF Initialize
<1>6. arm'.goals = <<>> /\ ~arm'.held
  BY <1>4, <1>5, StartKeeps DEF ArmSetMode, Halted, Arms
<1>7. After("main", stage["main"]) \in {"setstate", "configure", "open"}
  BY <1>2 DEF After
<1> QED
  BY <1>1, <1>2, <1>6, <1>7, MainGoes

LEMMA ArrivesQuiet == ASSUME IInv, Quiet, ArmArrives PROVE Quiet'
<1>1. UNCHANGED <<joints, shutdown, stopping, px, stage, step, target>>
  BY DEF ArmArrives, thread
<1>2. /\ arm.goals # <<>> /\ arm'.pose = Head(arm.goals) /\ arm'.goals = Tail(arm.goals)
      /\ arm'.held = arm.held /\ arm'.gripper = arm.gripper
  BY DEF ArmArrives, IInv, TypeOK, Arms
<1>3. \A p : InMotion(p) => arm'.goals = <<>> /\ arm'.pose = p
  <2> SUFFICES ASSUME NEW p, arm.goals = <<p>> PROVE arm'.goals = <<>> /\ arm'.pose = p
    BY <1>2 DEF InMotion
  <2>1. Head(<<p>>) = p /\ Tail(<<p>>) = <<>>
    OBVIOUS
  <2> QED
    BY <1>2, <2>1
<1>4. Grasp' = Grasp /\ Lift' = Lift /\ Cup' = Cup /\ Pour' = Pour /\ Upright' = Upright
  BY <1>1 DEF Grasp, Lift, Cup, Pour, Upright
<1>5. Pouring => Pouring'
  BY <1>1, <1>2, <1>3, <1>4 DEF Pouring, TargetOf, PoseBefore, Wanted, InMotion
<1>6. Starting => Starting'
  BY <1>1, <1>2, <1>3 DEF Starting, InMotion
<1> QED
  BY <1>1, <1>5, <1>6 DEF Quiet, StepFits

-----------------------------------------------------------------------------
\* Every step keeps an undisturbed pour undisturbed, or ends nominal.
LEMMA NextUndisturbed == IInv /\ Undisturbed /\ [Next]_vars => Undisturbed'
<1> SUFFICES ASSUME IInv, Undisturbed, [Next]_vars, nominal' PROVE Quiet'
  BY DEF Undisturbed
<1>1. nominal
  BY Zenon DEF Next, vars, Publish, StateCallback, ForceStop, SkipStart, BottleCallback, CheckFails,
     CheckBeforeMove, SendMove, MoveDone, SetGripper, Initialize, InitializeFails, ArmArrives,
     ArmFails, Shutdown
<1>2. Quiet
  BY <1>1 DEF Undisturbed
<1>3. ASSUME NEW p \in Pixels, Publish(p) PROVE Quiet'
  BY <1>2, <1>3, Aside DEF Publish, thread
<1>4. ASSUME NEW v \in {"safe", "unsafe"}, NEW due \in BOOLEAN, StateCallback(v, due)
      PROVE  Quiet'
  <2>1. v = "safe"
    BY <1>4, Zenon DEF StateCallback
  <2>2. stopping' = stopping
    BY <1>2, <1>4, <2>1 DEF StateCallback, IInv, TypeOK, Threads
  <2>3. joints' = joints
    BY <1>2, <1>4, <2>1 DEF StateCallback, Quiet
  <2> QED
    BY <1>2, <1>4, <2>2, <2>3, Aside DEF StateCallback, thread
<1>5. ASSUME NEW t \in Threads, ForceStop(t) \/ SkipStart(t) PROVE FALSE
  <2>1. stopping[t] = 0
    BY <1>2 DEF Quiet
  <2>2. stopping[t] > 0 \/ stopping[t] = 1
    BY <1>5, Zenon DEF ForceStop, SkipStart
  <2> QED
    BY <2>1, <2>2
<1>6. ASSUME NEW t \in Movers, CheckFails(t) PROVE FALSE
  BY <1>2, <1>6 DEF CheckFails, Quiet
<1>7. CASE InitializeFails \/ ArmFails \/ Shutdown
  BY <1>7, Zenon DEF InitializeFails, ArmFails, Shutdown
<1>8. CASE UNCHANGED vars
  BY <1>2, <1>8, Aside DEF vars
<1> QED
  BY <1>2, <1>3, <1>4, <1>5, <1>6, <1>7, <1>8, CallbackQuiet, CheckQuiet, SendQuiet, DoneQuiet,
     GripperQuiet, InitializeQuiet, ArrivesQuiet DEF Next

\* In every pour in which nothing goes wrong each stage finds the arm where the one
\* before it left it, for every pixel and any number of bottles.
THEOREM PourUndisturbed == Spec => [](IInv /\ Undisturbed)
<1>1. Init => Undisturbed
  BY InitQuiet DEF Undisturbed
<1> QED
  BY <1>1, InitIInv, NextIInv, NextUndisturbed, PTL DEF Spec

\* The stage named lower moves nothing, whatever pixel the bottle is seen at.
THEOREM LowerMovesNothing == Spec => []LowerIsNoOp
<1>1. IInv /\ Undisturbed => LowerIsNoOp
  <2> SUFFICES ASSUME IInv, Quiet, stage["bottle"] = "lower" PROVE arm.pose = target
    BY DEF LowerIsNoOp, Undisturbed
  <2>1. Pouring /\ target = Upright
    BY DEF Quiet, Starting, Pouring, TargetOf
  <2> QED
    BY <2>1 DEF Pouring, PoseBefore, InMotion, Wanted
<1> QED
  BY <1>1, PourUndisturbed, PTL

\* When nothing has gone wrong the arm waits at home for the next bottle.
THEOREM WaitsHome == Spec => []WaitsAtHome
<1>1. IInv /\ Undisturbed => WaitsAtHome
  <2> SUFFICES ASSUME IInv, Quiet, stage["bottle"] = "idle", stage["main"] = "idle"
               PROVE  arm.pose = HomePose /\ arm.goals = <<>> /\ arm.gripper = "open" /\ ~arm.held
    BY MoversAre DEF WaitsAtHome, Undisturbed
  <2>1. Pouring /\ step["bottle"] # "post"
    BY DEF Quiet, StepFits, FirstStep, MoveStages
  <2>2. arm.gripper \in {"open", "closed"}
    BY DEF IInv, TypeOK, Arms
  <2> QED
    BY <2>1, <2>2 DEF Pouring, PoseBefore, HeldStages
<1> QED
  BY <1>1, PourUndisturbed, PTL

\* While a bottle is held the arm is in one of the poses the pour goes through.
LEMMA HeldPoses ==
  ASSUME IInv, Undisturbed, nominal, arm.held
  PROVE  arm.pose \in {Grasp, Lift, Cup, Pour, Upright}
<1>1. Pouring /\ stage["bottle"] \in HeldStages
  BY DEF Undisturbed, Quiet, Starting, Pouring
<1>2. CASE step["bottle"] # "post" \/ arm.goals # <<>>
  BY <1>1, <1>2 DEF Pouring, PoseBefore, HeldStages
<1>3. CASE step["bottle"] = "post" /\ arm.goals = <<>>
  <2>1. arm.pose = TargetOf(stage["bottle"])
    BY <1>1, <1>3 DEF Pouring, InMotion, Wanted, HeldStages
  <2> QED
    BY <1>1, <2>1 DEF TargetOf, HeldStages
<1> QED
  BY <1>2, <1>3

\* The grasp pose, and the others written out from it.
LEMMA PosesAre ==
  ASSUME IInv
  PROVE  /\ NearCalib(Grasp)
         /\ Lift    = <<Grasp[1], 67000, Grasp[3] + 1500, Grasp[4], 4000>>
         /\ Cup     = <<Grasp[1] + 12000, 70000, Grasp[3] + 1500, Grasp[4], 4000>>
         /\ Pour    = <<Grasp[1] + 12000, 70000, Grasp[3] + 1500, Grasp[4], 60000>>
         /\ Upright = <<Grasp[1] + 12000, 70000, Grasp[3] + 1500, Grasp[4], 0>>
<1>1. px[1] \in Int /\ px[2] \in Int
  BY GrabberAssumption DEF IInv, TypeOK
<1>2. NearCalib(Grasp)
  BY <1>1, GraspPose DEF Grasp
<1> QED
  BY <1>2, PosesOfPour DEF Lift, Cup, Pour, Upright

\* Between grasp and release the gripper keeps its pitch to a degree and a half, in
\* every pour in which nothing goes wrong and for every pixel.
THEOREM KeptLevel == Spec => []BottleKeptLevel
<1>1. IInv /\ Undisturbed => BottleKeptLevel
  <2> SUFFICES ASSUME IInv, Undisturbed, nominal, arm.held
               PROVE  LET d == Pitch(arm.pose) - Pitch(Grasp) IN d >= -1500 /\ d <= 1500
    BY DEF BottleKeptLevel, Grasp
  <2>1. /\ Grasp[2] = 70000 /\ Grasp[3] \in Int /\ Grasp[4] \in Int
    BY PosesAre DEF NearCalib
  <2>2. Lift[2] = 67000 /\ Lift[3] = Grasp[3] + 1500 /\ Lift[4] = Grasp[4]
    BY PosesAre
  <2>3. \A p \in {Cup, Pour, Upright} :
          p[2] = 70000 /\ p[3] = Grasp[3] + 1500 /\ p[4] = Grasp[4]
    BY PosesAre
  <2> HIDE DEF Grasp, Lift, Cup, Pour, Upright
  <2>4. CASE arm.pose = Grasp
    BY <2>1, <2>4 DEF Pitch
  <2>5. CASE arm.pose = Lift
    BY <2>1, <2>2, <2>5 DEF Pitch
  <2>6. CASE arm.pose \in {Cup, Pour, Upright}
    BY <2>1, <2>3, <2>6 DEF Pitch
  <2> QED
    BY <2>4, <2>5, <2>6, HeldPoses
<1> QED
  BY <1>1, PourUndisturbed, PTL

\* In such a pour only the release stage lets a held bottle go, and it finds the arm in
\* the upright pose, twelve degrees from where the bottle was grasped.
LEMMA LetsGoUpright ==
  ASSUME IInv, Undisturbed, [Next]_vars, nominal, arm.held, ~arm'.held
  PROVE  arm.pose = Upright
<1>1. Pouring /\ stage["bottle"] \in HeldStages /\ stage["main"] = "idle"
  BY DEF Undisturbed, Quiet, Starting, Pouring
<1>2. arm \in Arms
  BY DEF IInv, TypeOK
<1>3. ~(arm' = arm)
  OBVIOUS
<1>4. \A c : arm' \notin ArmSetState(arm, c)
  BY <1>2 DEF ArmSetState, Halted, Arms
<1>5. PICK t \in Movers : SetGripper(t)
  <2>1. \A t \in Movers : ~CheckBeforeMove(t)
    BY <1>3, <1>4, Zenon DEF CheckBeforeMove
  <2>2. \A t \in Threads : ~ForceStop(t) /\ ~SkipStart(t)
    BY <1>3, <1>4, Zenon DEF ForceStop, SkipStart
  <2>3. \A t \in Movers : ~SendMove(t)
    BY <1>2 DEF SendMove, Arms
  <2>4. ~ArmArrives /\ ~ArmFails
    BY <1>2 DEF ArmArrives, ArmFails, Halted, Arms
  <2>5. ~Initialize
    BY <1>1, MoversAre DEF Initialize, Running
  <2>6. \A t \in Movers : ~CheckFails(t) /\ ~MoveDone(t)
    BY <1>3, Zenon DEF CheckFails, MoveDone
  <2>7. /\ \A p \in Pixels : ~Publish(p)
        /\ \A v \in {"safe", "unsafe"}, due \in BOOLEAN : ~StateCallback(v, due)
        /\ ~BottleCallback /\ ~InitializeFails /\ ~Shutdown /\ ~UNCHANGED vars
    BY <1>3, Zenon DEF Publish, StateCallback, BottleCallback, InitializeFails, Shutdown, vars
  <2> QED
    BY <2>1, <2>2, <2>3, <2>4, <2>5, <2>6, <2>7 DEF Next
<1>6. t = "bottle" /\ stage["bottle"] \in GripperStages
  BY <1>1, <1>5, MoversAre DEF SetGripper, Running
<1>7. stage["bottle"] = "release"
  BY <1>1, <1>6 DEF GripperStages, HeldStages
<1>8. step["bottle"] # "post"
  BY <1>7 DEF Undisturbed, Quiet, StepFits, MoveStages, FirstStep
<1> QED
  BY <1>1, <1>7, <1>8 DEF Pouring, PoseBefore

\* A bottle held in such a pour is let go nowhere but upright and on the cup's side.
THEOREM Released == Spec => ReleasedOnlyWhenPutDown
<1> DEFINE Down == nominal /\ arm.held /\ ~arm'.held
                     => /\ arm.pose[5] = 0
                        /\ arm.pose[1] = SimpleIK(px[1], px[2])[1] + 12000
<1>1. IInv /\ Undisturbed /\ [Next]_vars => Down
  <2> SUFFICES ASSUME IInv, Undisturbed, [Next]_vars, nominal, arm.held, ~arm'.held
               PROVE  arm.pose[5] = 0 /\ arm.pose[1] = Grasp[1] + 12000
    BY DEF Grasp
  <2>1. arm.pose = Upright
    BY LetsGoUpright
  <2>2. Upright[5] = 0 /\ Upright[1] = Grasp[1] + 12000
    BY PosesAre
  <2> QED
    BY <2>1, <2>2
<1>2. IInv /\ Undisturbed /\ [Next]_vars => [Down]_vars
  BY <1>1
<1> HIDE DEF Down
<1>3. Spec => [][Down]_vars
  BY <1>2, PourUndisturbed, PTL DEF Spec
<1> QED
  BY <1>3 DEF Down, ReleasedOnlyWhenPutDown

-----------------------------------------------------------------------------
(* The software stop, while ROS is up, with every fault but a call that raises. *)

\* What StopNotLatched lacks to be inductive: the constructor's calls are no moves.
RestInv ==
  /\ IInv
  /\ stage["main"] \in ServiceStages => step["main"] = "act"
  /\ StopNotLatched

Restful == /\ ~shutdown
           /\ \A t \in Threads : stopping[t] = 0
           /\ stage["main"] \notin {"setmode", "setstate", "dead"}
Rested == arm.state = READY \/ arm.err

\* set_state(0) leaves the arm ready or in error; no other service does worse unless
\* it stops the arm.
LEMMA StartRests == ASSUME arm \in Arms, arm' \in ArmSetState(arm, 0) PROVE Rested'
  BY DEF ArmSetState, Arms, Rested

\* A step that keeps the arm rested and lets no thread out of its stop.
LEMMA StaysRested ==
  ASSUME RestInv, Restful' => Restful, Rested => Rested'
  PROVE  StopNotLatched'
  BY DEF RestInv, StopNotLatched, Restful, Rested

\* Going to another stage never leaves the constructor's calls with a move's step.
LEMMA GotoActs ==
  ASSUME IInv, NEW t \in Movers, NEW s, Goto(t, s), RestInv
  PROVE  stage'["main"] \in ServiceStages => step'["main"] = "act"
<1>1. FirstStep(s) = "act" \/ s \notin ServiceStages
  BY DEF FirstStep, ServiceStages, MoveStages
<1>2. CASE t = "main"
  BY <1>1, <1>2, MoversAre DEF Goto, IInv, TypeOK
<1>3. CASE t = "bottle"
  BY <1>3, MoversAre DEF Goto, IInv, TypeOK, RestInv
<1> QED
  BY <1>2, <1>3, MoversAre

\* The constructor's calls are never checked as moves are.
LEMMA MainActs ==
  ASSUME RestInv, [Next]_vars
  PROVE  stage'["main"] \in ServiceStages => step'["main"] = "act"
<1> DEFINE Acts == stage["main"] \in ServiceStages => step["main"] = "act"
<1>1. Acts /\ IInv
  BY DEF RestInv
<1>2. CASE stage' = stage /\ step' = step
  BY <1>1, <1>2
<1>3. CASE \E t \in Movers : \E s : Goto(t, s)
  BY <1>1, <1>3, GotoActs
<1>4. CASE \E t \in Movers : CheckBeforeMove(t) \/ SendMove(t)
  <2>1. PICK t \in Movers : CheckBeforeMove(t) \/ SendMove(t)
    BY <1>4
  <2>2. step[t] # "act"
    BY <2>1, Zenon DEF CheckBeforeMove, SendMove
  <2>3. CASE \E s : Goto(t, s)
    BY <1>1, <2>3, GotoActs
  <2>4. CASE stage' = stage /\ \A o \in Movers \ {t} : step'[o] = step[o]
    BY <1>1, <2>2, <2>4, MoversAre
  <2>5. CheckBeforeMove(t) =>
          \/ \E s : Goto(t, s)
          \/ /\ stage' = stage
             /\ step' = [step EXCEPT ![t] = IF @ = "check" THEN "recheck" ELSE "send"]
    BY Zenon DEF CheckBeforeMove
  <2>6. SendMove(t) =>
          \/ \E s : Goto(t, s)
          \/ stage' = stage /\ step' = [step EXCEPT ![t] = "post"]
    BY Zenon DEF SendMove
  <2>7. step \in [Movers -> Steps]
    BY DEF RestInv, IInv, TypeOK
  <2> QED
    BY <2>1, <2>3, <2>4, <2>5, <2>6, <2>7
<1>5. CASE BottleCallback
  BY <1>1, <1>5, MoversAre DEF BottleCallback, thread, RestInv, IInv, TypeOK
<1>6. ASSUME NEW t \in Threads, ForceStop(t) \/ SkipStart(t)
      PROVE  (stage' = stage /\ step' = step) \/ \E o \in Movers : \E s : Goto(o, s)
  BY <1>6, Zenon DEF ForceStop, SkipStart, StopGoesOn, thread
<1>7. ASSUME NEW t \in Movers, CheckFails(t) \/ MoveDone(t) \/ SetGripper(t)
      PROVE  (stage' = stage /\ step' = step) \/ \E o \in Movers : \E s : Goto(o, s)
  BY <1>7, Zenon DEF CheckFails, MoveDone, SetGripper, thread
<1>8. Initialize \/ InitializeFails => \E o \in Movers : \E s : Goto(o, s)
  BY MoversAre, Zenon DEF Initialize, InitializeFails
<1>9. \/ \E p \in Pixels : Publish(p)
      \/ \E v \in {"safe", "unsafe"}, due \in BOOLEAN : StateCallback(v, due)
      \/ ArmArrives \/ ArmFails \/ Shutdown \/ UNCHANGED vars
      => stage' = stage /\ step' = step
  BY Zenon DEF Publish, StateCallback, ArmArrives, ArmFails, Shutdown, vars, thread
<1> HIDE DEF Acts
<1> QED
  BY <1>2, <1>3, <1>4, <1>5, <1>6, <1>7, <1>8, <1>9 DEF Next

\* No step leaves the arm stopped once no stop is under way.
LEMMA NextRests ==
  ASSUME "call" \notin Faults, RestInv, [Next]_vars
  PROVE  StopNotLatched'
<1>1. IInv /\ arm \in Arms
  BY DEF RestInv, IInv, TypeOK
<1>0. shutdown => shutdown'
  BY Zenon DEF Next, vars, Publish, StateCallback, ForceStop, SkipStart, BottleCallback, CheckFails,
     CheckBeforeMove, SendMove, MoveDone, SetGripper, Initialize, InitializeFails, ArmArrives,
     ArmFails, Shutdown
<1>2. CASE UNCHANGED <<arm, stage, stopping>>
  BY <1>0, <1>2 DEF RestInv, StopNotLatched
<1>17. CASE shutdown
  BY <1>0, <1>17 DEF StopNotLatched
<1>18. ASSUME NEW t \in Threads, SkipStart(t) PROVE shutdown
  BY <1>18 DEF SkipStart
<1>3. ASSUME NEW v \in {"safe", "unsafe"}, NEW due \in BOOLEAN, StateCallback(v, due)
      PROVE  StopNotLatched'
  <2>1. \A t \in Threads : stopping'[t] = 0 => stopping[t] = 0
    BY <1>1, <1>3 DEF StateCallback, IInv, TypeOK, Threads
  <2> QED
    BY <1>3, <2>1, StaysRested DEF StateCallback, thread, Restful, Rested
<1>4. ASSUME NEW t \in Threads, ForceStop(t), ~shutdown PROVE StopNotLatched'
  <2>1. stopping[t] \in 1..3 /\ stopping'[t] = stopping[t] - 1
        /\ arm' \in ArmSetState(arm, StopCommand(stopping[t]))
    BY <1>1, <1>4 DEF ForceStop, StopGoesOn, IInv, TypeOK
  <2>2. CASE stopping[t] = 1
    <3>1. arm' \in ArmSetState(arm, 0)
      BY <2>1, <2>2 DEF StopCommand
    <3> QED
      BY <1>1, <3>1, StartRests DEF StopNotLatched, Rested
  <2>3. CASE stopping[t] # 1
    BY <2>1, <2>3 DEF StopNotLatched
  <2> QED
    BY <2>2, <2>3
<1>5. CASE BottleCallback
  <2>1. stage'["main"] = stage["main"]
    BY <1>1, <1>5, MoversAre DEF BottleCallback, thread, IInv, TypeOK
  <2> QED
    BY <1>5, <2>1, StaysRested DEF BottleCallback, Restful, Rested
<1>6. ASSUME NEW t \in Movers, CheckFails(t) PROVE StopNotLatched'
  <2>1. stopping'[t] = 3 /\ t \in Threads
    BY <1>1, <1>6, MoversAre DEF CheckFails, IInv, TypeOK
  <2> QED
    BY <2>1 DEF StopNotLatched
<1>7. ASSUME NEW t \in Movers, stopping' = stopping, Rested => Rested',
             step[t] # "act" \/ stage[t] \in GripperStages, stage[t] # "dead",
             stage' = stage \/ \E s : Goto(t, s)
      PROVE  StopNotLatched'
  <2>1. stage["main"] \in {"setmode", "setstate", "dead"} => t # "main" \/ stage' = stage
    BY <1>7 DEF RestInv, ServiceStages, GripperStages
  <2>2. t # "main" => stage'["main"] = stage["main"]
    BY <1>1, <1>7, MoversAre DEF Goto, IInv, TypeOK
  <2> QED
    BY <1>0, <1>7, <2>1, <2>2, StaysRested DEF Restful
<1>8. ASSUME NEW t \in Movers, CheckBeforeMove(t) PROVE StopNotLatched'
  <2>1. /\ stopping' = stopping /\ step[t] # "act" /\ stage[t] # "dead"
        /\ arm' \in ArmSetState(arm, 0) \/ arm' = arm
        /\ stage' = stage \/ \E s : Goto(t, s)
    BY <1>8, Zenon DEF CheckBeforeMove, Running
  <2>2. Rested => Rested'
    BY <1>1, <2>1, StartRests DEF Rested
  <2> QED
    BY <1>7, <2>1, <2>2
<1>9. ASSUME NEW t \in Movers, SendMove(t) PROVE StopNotLatched'
  <2>1. /\ stopping' = stopping /\ step[t] # "act" /\ stage[t] # "dead"
        /\ arm' = [arm EXCEPT !.goals = Append(@, Wanted(t))] \/ arm' = arm
        /\ stage' = stage \/ \E s : Goto(t, s)
    BY <1>9, Zenon DEF SendMove, Running
  <2>2. Rested => Rested'
    BY <1>1, <2>1 DEF Rested, Arms
  <2> QED
    BY <1>7, <2>1, <2>2
<1>10. ASSUME NEW t \in Movers, MoveDone(t) PROVE StopNotLatched'
  <2>1. /\ stopping' = stopping /\ step[t] # "act" /\ stage[t] # "dead" /\ arm' = arm
        /\ \E s : Goto(t, s)
    BY <1>10, Zenon DEF MoveDone, Running
  <2> QED
    BY <1>7, <2>1 DEF Rested
<1>11. ASSUME NEW t \in Movers, SetGripper(t) PROVE StopNotLatched'
  <2>1. /\ stopping' = stopping /\ stage[t] \in GripperStages /\ stage[t] # "dead"
        /\ arm' = ArmGrip(arm, stage[t]) \/ arm' = arm
        /\ \E s : Goto(t, s)
    BY <1>11, Zenon DEF SetGripper, Running
  <2>2. Rested => Rested'
    BY <1>1, <2>1 DEF Rested, Arms, ArmGrip
  <2> QED
    BY <1>7, <2>1, <2>2
<1>12. CASE Initialize
  <2>1. /\ Goto("main", After("main", stage["main"])) /\ stage["main"] \in ServiceStages
        /\ stopping' = stopping
    BY <1>12 DEF Initialize
  <2>2. stage'["main"] = After("main", stage["main"])
    BY <1>1, <2>1, MoversAre DEF Goto, IInv, TypeOK
  <2>3. CASE stage["main"] = "setmode"
    BY <2>2, <2>3 DEF After, StopNotLatched
  <2>4. CASE stage["main"] = "setstate"
    <3>1. arm' \in ArmSetState(arm, 0)
      BY <1>12, <2>4 DEF Initialize
    <3> QED
      BY <1>1, <3>1, StartRests DEF StopNotLatched, Rested
  <2>5. CASE stage["main"] = "configure"
    <3>1. arm' = arm
      BY <1>12, <2>5 DEF Initialize
    <3> QED
      BY <1>0, <2>1, <2>5, <3>1, StaysRested DEF Restful, Rested
  <2> QED
    BY <2>1, <2>3, <2>4, <2>5 DEF ServiceStages
<1>13. CASE InitializeFails
  BY <1>13 DEF InitializeFails, StopNotLatched
<1>14. CASE ArmArrives
  BY <1>1, <1>14, StaysRested DEF ArmArrives, thread, Restful, Rested, Arms
<1>15. CASE ArmFails
  <2>1. arm'.err = TRUE
    BY <1>1, <1>15 DEF ArmFails, Halted, Arms
  <2> QED
    BY <2>1 DEF StopNotLatched
<1>16. (\E p \in Pixels : Publish(p)) \/ Shutdown \/ UNCHANGED vars
       => UNCHANGED <<arm, stage, stopping>>
  BY Zenon DEF Publish, Shutdown, vars, thread
<1> QED
  BY <1>2, <1>3, <1>4, <1>5, <1>6, <1>8, <1>9, <1>10, <1>11, <1>12, <1>13, <1>14,
     <1>15, <1>16, <1>17, <1>18 DEF Next

\* As long as ROS is up and no call to a service raises, the stops of the three threads
\* leave the arm started or in error, however they overlap.
THEOREM StopIsLifted == ASSUME "call" \notin Faults PROVE Spec => []StopNotLatched
<1>1. Init => RestInv
  <2> SUFFICES ASSUME Init PROVE RestInv
    OBVIOUS
  <2>1. stage["main"] = "setmode" /\ step["main"] = "act"
    BY MoversAre DEF Init
  <2> QED
    BY <2>1, InitIInv DEF RestInv, StopNotLatched
<1>2. RestInv /\ [Next]_vars => RestInv'
  <2> SUFFICES ASSUME RestInv, [Next]_vars PROVE RestInv'
    OBVIOUS
  <2>1. IInv'
    BY NextIInv DEF RestInv
  <2> QED
    BY <2>1, MainActs, NextRests DEF RestInv
<1>3. RestInv => StopNotLatched
  BY DEF RestInv
<1> QED
  BY <1>1, <1>2, <1>3, PTL DEF Spec

=============================================================================
