---------------------------- MODULE ActionFormat ----------------------------
(***************************************************************************)
(* What one row of a policy's answer means: the format proposed for an     *)
(* unknown response (schema/response_detect.py) and the columns a          *)
(* confirmed format reads from a row (schema/apply.py). Angles, metres,    *)
(* confidences and gripper values are counted in hundredths; a row is the  *)
(* sequence of its columns, a chunk the sequence of its rows.              *)
(***************************************************************************)
EXTENDS Integers, Sequences, FiniteSetsExt, SequencesExt

CONSTANTS
  Chunks,    \* answers of the policy server considered
  Postures   \* [q |-> seven joint angles, ee |-> hand position] when one arrives

\* np.asarray(chunk): at least one row, of numbers.
ASSUME AnswerAssumption ==
  /\ \A chunk \in Chunks : chunk \in Seq(Seq(Int)) /\ chunk # << >>
  /\ \A posture \in Postures : posture.q \in [1..7 -> Int] /\ posture.ee \in [1..3 -> Int]

VARIABLE trials  \* the detection made last: {} or {[chunk, posture, spec]}

-----------------------------------------------------------------------------
QLower == <<-274, -178, -290, -304, -281, 54, -302>>
QUpper == <<274, 178, 290, -15, 281, 452, 302>>

RangeMargin == 30
CloseToCurrent == 100
SmallJoint == 30
Reach == 10..95
SmallPos == 15

Magnitude(x) == IF x < 0 THEN -x ELSE x
MaxDev(s, t) == Max({Magnitude(s[i] - t[i]) : i \in DOMAIN t})
Zeros(n) == [i \in 1..n |-> 0]

\* The length of a vector, rounded down.
Norm(v) ==
  LET square == v[1] * v[1] + v[2] * v[2] + v[3] * v[3]
  IN  CHOOSE r \in 0..square : r * r <= square /\ square < (r + 1) * (r + 1)

Confident(x) == Max({30, x})

ScoreJoint(row, q) ==
  LET inRange == \A i \in 1..7 : row[i] \in (QLower[i] - RangeMargin)..(QUpper[i] + RangeMargin)
      dev == MaxDev(row, q)
      mag == MaxDev(row, Zeros(7))
  IN  CASE inRange /\ dev < CloseToCurrent ->
             <<"joint_absolute", Confident(100 - (100 * dev) \div CloseToCurrent)>>
        [] ~(inRange /\ dev < CloseToCurrent) /\ mag < SmallJoint ->
             <<"joint_delta", Confident(100 - (100 * mag) \div SmallJoint)>>
        [] OTHER -> IF inRange THEN <<"joint_absolute", 10>> ELSE <<"joint_delta", 0>>

\* Slip: the distance to the hand is left out of the confidence.
ScoreEEAnywhere(row, ee) ==
  LET radius == Norm(row)
  IN  CASE radius \in Reach -> <<"ee_absolute", 100>>
        [] radius < SmallPos /\ radius \notin Reach ->
             <<"ee_delta", Confident(100 - (100 * radius) \div SmallPos)>>
        [] OTHER -> <<"ee_absolute", 5>>

ScoreEE(row, ee) ==
  LET radius == Norm(row)
      dev == Norm([i \in 1..3 |-> row[i] - ee[i]])
  IN  CASE radius \in Reach -> <<"ee_absolute", Confident(100 - Min({dev, 100}))>>
        [] radius < SmallPos /\ radius \notin Reach ->
             <<"ee_delta", Confident(100 - (100 * radius) \div SmallPos)>>
        [] OTHER -> <<"ee_absolute", 5>>

GripperConvention(column) ==
  IF ~(column \subseteq (-5)..105) /\ column \subseteq (-105)..105 THEN "-1_1" ELSE "0_1"

RotationRepr(dim) == CASE dim = 3 -> "axis_angle" [] dim = 4 -> "quat" [] dim = 6 -> "rot6d"
RotDim(repr) ==
  CASE repr = "axis_angle" -> 3 [] repr = "quat" -> 4 [] repr = "rot6d" -> 6 [] repr = "none" -> 0

Format(dim, hasGripper, repr, score, column) ==
  [kind |-> score[1], dim |-> dim, has_gripper |-> hasGripper, rotation_repr |-> repr,
   gripper_convention |-> IF hasGripper THEN GripperConvention(column) ELSE "none",
   confidence |-> score[2]]

\* The formats whose width is that of the chunk, in the order they are tried.
Candidates(chunk, posture) ==
  LET row == chunk[1]
      column == {chunk[t][Len(row)] : t \in DOMAIN chunk}
      Joint(g) ==
        IF Len(row) = 7 + (IF g THEN 1 ELSE 0)
          THEN <<Format(Len(row), g, "none", ScoreJoint(row, posture.q), column)>>
          ELSE << >>
      Pose(g, r) ==
        IF Len(row) = 3 + r + (IF g THEN 1 ELSE 0)
          THEN <<Format(Len(row), g, RotationRepr(r), ScoreEE(row, posture.ee), column)>>
          ELSE << >>
  IN  Joint(TRUE) \o Joint(FALSE)
        \o Pose(TRUE, 3) \o Pose(TRUE, 4) \o Pose(TRUE, 6)
        \o Pose(FALSE, 3) \o Pose(FALSE, 4) \o Pose(FALSE, 6)

\* The guess over the first seven columns when no width matches.
Fallback(chunk) == Format(Len(chunk[1]), FALSE, "none", <<"joint_absolute", 0>>, {})

\* The most confident candidate; the sort is stable, so the first of equals.
DetectActionSpace(chunk, posture) ==
  LET found == Candidates(chunk, posture)
      top == Max({found[i].confidence : i \in DOMAIN found})
  IN  IF found = << >> THEN Fallback(chunk)
        ELSE found[Min({i \in DOMAIN found : found[i].confidence = top})]

-----------------------------------------------------------------------------
\* The columns row_to_joint_target() reads: the motion's, and the gripper's.
MotionColumns(spec) ==
  IF spec.kind \in {"joint_absolute", "joint_delta"} THEN 1..7
    ELSE 1..(3 + RotDim(spec.rotation_repr))
GripperColumns(spec) == IF spec.has_gripper THEN {spec.dim} ELSE {}

\* How far the first row moves the joints, or the hand (delta scales are 1).
FirstMove(spec, row, posture) ==
  CASE spec.kind = "joint_absolute" -> MaxDev(row, posture.q)
    [] spec.kind = "joint_delta" -> MaxDev(row, Zeros(7))
    [] spec.kind = "ee_absolute" -> Norm([i \in 1..3 |-> row[i] - posture.ee[i]])
    [] spec.kind = "ee_delta" -> Norm(row)

FormatInit == trials = {}

Detect ==
  \E chunk \in Chunks, posture \in Postures :
    trials' = {[chunk |-> chunk, posture |-> posture,
                spec |-> DetectActionSpace(chunk, posture)]}

FormatSpec == FormatInit /\ [][Detect]_trials

-----------------------------------------------------------------------------
\* A format proposed with any confidence fits the rows it was proposed for: every
\* column it reads exists, and the gripper's column is not also read as motion.
\* (It does not hold of the confidence-0 guess, which reads seven columns of
\* whatever came.)
SpecFitsRow(trial) ==
  trial.spec.confidence > 0 =>
    /\ MotionColumns(trial.spec) \cup GripperColumns(trial.spec) = 1..Len(trial.chunk[1])
    /\ MotionColumns(trial.spec) \cap GripperColumns(trial.spec) = {}

\* A format proposed with more than the floor confidence never asks, with the row it
\* was judged by, for a first move of a radian, or of 70 cm of the hand.
FirstMoveSmall(trial) ==
  trial.spec.confidence > 30 =>
    FirstMove(trial.spec, trial.chunk[1], trial.posture)
      < (IF trial.spec.kind \in {"joint_absolute", "joint_delta"} THEN CloseToCurrent ELSE 70)

\* Detection and adapter agree: what is proposed to the operator can be applied to
\* the answers it was judged by, and does not start with a leap.
ProposalSound == \A trial \in trials : SpecFitsRow(trial) /\ FirstMoveSmall(trial)

=============================================================================
