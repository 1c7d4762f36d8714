------------------------------ MODULE PourPlan ------------------------------
(***************************************************************************)
(* The joint targets of one pour, as bottle_grabber.py computes them.      *)
(* Angles are integers in millidegrees: every constant of the script and   *)
(* every pixel step is a whole number of them, so no rounding is lost.     *)
(* A pose is a function from the five joints to angles.                    *)
(***************************************************************************)
EXTENDS Integers

Joints == 1..5

\* Mutant: the safe range of joint 2 is the official one.
WideSafeMax == <<90000, 120000, 30000, 80000, 120000>>

\* safe_limits, the range the team lets each joint use.
SafeMin == <<-90000, -60000, -120000, -65000, -120000>>
SafeMax == <<90000, 70000, 30000, 80000, 120000>>

\* joint_limits_deg, the range of the xArm5 itself.
OfficialMin == <<-360000, -118000, -225000, -97000, -360000>>
OfficialMax == <<360000, 120000, 11000, 180000, 360000>>

\* CALIB_JOINTS_DEG at CALIB_PIXEL: where the arm grasps a bottle seen there.
CalibJoints == <<20500, 80000, -50000, -65000, 4000>>
CalibU == 478
CalibV == 343
MaxDelta == 20
MaxJChange == 1000

Clamp(x, lo, hi) == IF x < lo THEN lo ELSE IF x > hi THEN hi ELSE x

\* Mutant: only the lower bounds are enforced.
EnforceLowerLimits(p) ==
  LET limited(i) == IF p[i] < SafeMin[i] THEN SafeMin[i] ELSE p[i]
  IN  <<limited(1), limited(2), limited(3), limited(4), limited(5)>>

\* enforce_safe_limits: first the safe range, then the official one.
EnforceSafeLimits(p) ==
  LET limited(i) ==
        Clamp(Clamp(p[i], SafeMin[i], SafeMax[i]), OfficialMin[i], OfficialMax[i])
  IN  <<limited(1), limited(2), limited(3), limited(4), limited(5)>>

\* verify_joint_safety; its extra test of joint 4 repeats the range test.
VerifyJointSafety(p) == \A i \in Joints : p[i] >= SafeMin[i] /\ p[i] <= SafeMax[i]

\* The pitch of the gripper: joints 2, 3 and 4 turn about parallel axes.
Pitch(p) == p[2] + p[3] + p[4]

-----------------------------------------------------------------------------
(* simple_ik_pixel_adjust before it enforces the limits: joint 1 follows the *)
(* column, joints 2 and 3 the row, joint 4 keeps the calibrated pitch, and a *)
(* joint 4 that cannot do so puts joints 2 and 3 back on the calibration.    *)
(* One pixel row is 0.02*0.9 - 0.01*0.1 = 17 mdeg of joint 2 and             *)
(* 0.02*0.1 - 0.01*0.9 = -7 mdeg of joint 3; one column is -5 mdeg of joint 1.*)
RawIK(u, v) ==
  LET du == Clamp(u - CalibU, -MaxDelta, MaxDelta)
      dv == Clamp(v - CalibV, -MaxDelta, MaxDelta)
      j1 == CalibJoints[1] - 5 * du
      j2 == CalibJoints[2] + Clamp(17 * dv, -MaxJChange, MaxJChange)
      j3 == CalibJoints[3] + Clamp(-7 * dv, -MaxJChange, MaxJChange)
      j4 == Pitch(CalibJoints) - j2 - j3
  IN  IF j4 < SafeMin[4]
      THEN <<j1, CalibJoints[2], CalibJoints[3], SafeMin[4], CalibJoints[5]>>
      ELSE <<j1, j2, j3, j4, CalibJoints[5]>>

SimpleIK(u, v) == EnforceSafeLimits(RawIK(u, v))

-----------------------------------------------------------------------------
(* The poses bottle_callback derives from the grasp pose, each from the one  *)
(* before it and each put back inside the limits.                            *)
\* Mutant: joint 3 is turned the wrong way.
LiftWithoutLevel(p) ==
  EnforceSafeLimits([p EXCEPT ![2] = @ - 3000, ![3] = @ - 1500])

LiftOf(p) ==
  LET j2 == p[2] - 3000
      j3 == p[3] + 1500
  IN  EnforceSafeLimits([p EXCEPT ![2] = IF j2 < SafeMin[2] THEN SafeMin[2] ELSE j2,
                                  ![3] = IF j3 > SafeMax[3] THEN SafeMax[3] ELSE j3])

CupOf(p) ==
  LET j2 == p[2] + 6000
  IN  EnforceSafeLimits([p EXCEPT ![1] = @ + 12000,
                                  ![2] = IF j2 < SafeMin[2] THEN SafeMin[2] ELSE j2])

PourOf(p) == EnforceSafeLimits([p EXCEPT ![5] = 60000])

UprightOf(p) == EnforceSafeLimits([p EXCEPT ![5] = 0])

LowerOf(p) ==
  LET j2 == p[2] + 2500
  IN  EnforceSafeLimits([p EXCEPT ![2] = IF j2 > SafeMax[2] THEN SafeMax[2] ELSE j2])

\* home_joints_rad = [0.0, 0.2, -0.3, -0.5, 0.0], in millidegrees.
HomePose == EnforceSafeLimits(<<0, 11459, -17189, -28648, 0>>)

MoveStages == {"approach", "lift", "cup", "pour", "upright", "lower", "home"}

\* The pose bottle_callback asks for in stage s, p being the one before it.
Derive(s, p) ==
  CASE s = "lift"    -> LiftOf(p)
    [] s = "cup"     -> CupOf(p)
    [] s = "pour"    -> PourOf(p)
    [] s = "upright" -> UprightOf(p)
    [] s = "lower"   -> LowerOf(p)
    [] OTHER         -> p
=============================================================================
