----------------------------- MODULE MotionPath -----------------------------
(***************************************************************************)
(* The way of one joint's target from a policy row to the robot: row,      *)
(* smoothing, step clamp, joint limits (a tick of control_loop.py's        *)
(* _run()), then the reference filter that the robot node's control thread *)
(* steps a hundred times as often. Positions are whole numbers, time is    *)
(* counted in filter steps (dt = 1).                                       *)
(***************************************************************************)
EXTENDS Integers

CONSTANTS
  Lower, Upper,  \* joint limits
  Margin,        \* DEFAULT_JOINT_LIMIT_MARGIN
  MaxStep,       \* LoopConfig.max_step_rad
  VMax, AMax,    \* saturation of velocity and acceleration
  JMax,          \* j_max * dt: the largest change of the acceleration in one step
  KpInv,         \* 1 / kp; critical damping makes kd = 2 sqrt(kp)
  Kinds,         \* action spaces considered
  Rows,          \* values of a row's column considered
  Lag            \* largest distance of the measured joint from the commanded one

ASSUME LimitAssumption ==
  /\ Lower \in Int /\ Upper \in Int /\ Margin \in Nat /\ Lower + Margin <= Upper - Margin
  /\ MaxStep \in Nat /\ Lag \in Nat /\ Rows \subseteq Int
  /\ Kinds \subseteq {"joint_absolute", "joint_delta", "ee_absolute", "ee_delta"}
ASSUME FilterAssumption ==
  /\ VMax \in Nat /\ AMax \in Nat /\ JMax \in Nat /\ KpInv \in Nat
  /\ \E r \in 1..KpInv : r * r = KpInv

VARIABLES
  kind,     \* the confirmed ActionSpaceSpec.kind
  value,    \* EMASmoother._value
  target,   \* the target the robot node holds
  q, v,     \* q_cmd and qd_cmd of the filter
  acc,      \* _acc_prev
  live,     \* the robot node's control thread runs
  running   \* the policy thread runs (with or without the other: see ControlSession)

pathVars == <<kind, value, target, q, v, acc, live, running>>

-----------------------------------------------------------------------------
Clip(x, lo, hi) == IF x < lo THEN lo ELSE IF x > hi THEN hi ELSE x

\* Toward zero, so that equal errors to both sides are treated alike.
Quotient(n, d) == IF n >= 0 THEN n \div d ELSE -((-n) \div d)

\* EMASmoother.step() with alpha = 1/2.
Smoothed(raw) == Quotient(raw + value, 2)

\* Slip: the target may lie on the joint limit.
ClipToHardLimits(x) == Clip(x, Lower, Upper)

\* A tick never aims further than MaxStep from where the joint is.
ClampStep(x, measured) == measured + Clip(x - measured, -MaxStep, MaxStep)

ClipToJointLimits(x) == Clip(x, Lower + Margin, Upper - Margin)

\* The joint's angle that a row asks for. The inverse kinematics answers with the
\* angle it was seeded with or any other within the limits.
RawTargets(row, measured) ==
  CASE kind = "joint_absolute" -> {row}
    [] kind = "joint_delta" -> {measured + row}
    [] kind \in {"ee_absolute", "ee_delta"} -> Lower..Upper \cup {measured}

PathInit ==
  /\ kind \in Kinds
  /\ q \in Lower..Upper
  /\ value = q /\ target = q
  /\ v = 0 /\ acc = 0
  /\ live = FALSE /\ running = FALSE

\* The joint's angle as it is measured.
Measured == ((q - Lag)..(q + Lag)) \cap (Lower..Upper)

\* A live connect(): the control thread latches its filter and its first target to
\* the pose the robot desires, which is near the last command.
Connect ==
  /\ ~live
  /\ live' = TRUE
  /\ q' \in Measured
  /\ target' = q' /\ v' = 0 /\ acc' = 0
  /\ UNCHANGED <<kind, value, running>>

\* start(): the smoother starts from the joint as measured.
Start ==
  /\ ~running
  /\ value' \in Measured
  /\ running' = TRUE
  /\ UNCHANGED <<kind, target, q, v, acc, live>>

\* stop() ends the ticks; the robot goes on to the last target.
StopTicks ==
  /\ running
  /\ running' = FALSE
  /\ UNCHANGED <<kind, value, target, q, v, acc, live>>

\* FR3Runtime.stop(), first half: the target is frozen where the joint is.
Freeze ==
  /\ live
  /\ target' \in Measured
  /\ UNCHANGED <<kind, value, q, v, acc, live, running>>

\* ... and its end, once the joint has slowed down or the wait for it was given up; or
\* the control thread fails.
StopControl ==
  /\ live
  /\ live' = FALSE
  /\ UNCHANGED <<kind, value, target, q, v, acc, running>>

\* One tick of _run(), anchored to the joint as it is measured.
Tick ==
  /\ running
  /\ \E row \in Rows, measured \in Measured :
       \E raw \in RawTargets(row, measured) :
         /\ value' = Smoothed(raw)
         /\ target' = ClipToJointLimits(ClampStep(Smoothed(raw), measured))
  /\ UNCHANGED <<kind, q, v, acc, live, running>>

\* kp * err - kd * qd_cmd for kp = 1/KpInv and kd = 2 sqrt(kp), KpInv a square.
Demand ==
  LET root == CHOOSE r \in 1..KpInv : r * r = KpInv
  IN  Quotient((target - q) - 2 * root * v, KpInv)

\* Slip: the demand is not limited in jerk.
FilterStepJerky ==
  LET speed == Clip(v + Clip(Demand, -AMax, AMax), -VMax, VMax)
  IN  /\ live
      /\ v' = speed /\ acc' = speed - v /\ q' = q + speed
      /\ UNCHANGED <<kind, value, target, live, running>>

\* JerkLimitedReferenceFilter.step(): one step of the 1 kHz thread.
FilterStep ==
  LET wanted == Clip(Demand, -AMax, AMax)
      limited == Clip(wanted, acc - JMax, acc + JMax)
      speed == Clip(v + limited, -VMax, VMax)
  IN  /\ live
      /\ v' = speed /\ acc' = speed - v /\ q' = q + speed
      /\ UNCHANGED <<kind, value, target, live, running>>

PathNext == Connect \/ Start \/ Tick \/ StopTicks \/ Freeze \/ StopControl \/ FilterStep

PathSpec == PathInit /\ [][PathNext]_pathVars

\* The 1 kHz thread steps its filter as long as it lives.
FairPathSpec == PathSpec /\ WF_pathVars(FilterStep)

-----------------------------------------------------------------------------
PathTypeOK ==
  /\ kind \in Kinds
  /\ value \in Int /\ target \in Int /\ q \in Int
  /\ v \in Int /\ acc \in Int
  /\ live \in BOOLEAN /\ running \in BOOLEAN

\* Whatever the policy asks for and however often it changes its mind, the
\* commanded joint stays within the hard limits: what the filter overshoots by
\* (its demand is cut to AMax and JMax) is less than the margin the targets keep.
WithinLimits == q \in Lower..Upper

\* The filter's state keeps to the limits of velocity and acceleration.
BoundedCommand == v \in -VMax..VMax /\ acc \in -AMax..AMax

\* However noisy the targets are, the command never gets faster than VMax, never
\* accelerates harder than AMax, and its acceleration changes by no more than JMax
\* from step to step, with one exception: in the step in which the speed reaches its
\* limit, the acceleration toward it may end at once.
SmoothCommand ==
  [][live /\ live' =>
       /\ v' \in -VMax..VMax /\ v' - v \in -AMax..AMax
       /\ \/ acc' - acc \in -JMax..JMax
          \/ v' = VMax /\ acc' \in 0..acc
          \/ v' = -VMax /\ acc' \in acc..0 ]_<<q, v, acc>>

\* "saturated in jerk/accel/velocity" (reference_filter.py:25), without exception. The
\* velocity clamp comes after the jerk limit: at its limit the code does not keep this.
JerkLimited == [][live /\ live' => acc' - acc \in -JMax..JMax]_<<q, v, acc>>

=============================================================================
