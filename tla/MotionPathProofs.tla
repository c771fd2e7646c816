-------------------------- MODULE MotionPathProofs --------------------------
(***************************************************************************)
(* Proofs about one joint's way from a policy row to the command: types,   *)
(* the limits of velocity and acceleration, the smoothness of the command, *)
(* and how far it overshoots, for all limits, margins and rows.            *)
(***************************************************************************)
EXTENDS MotionPath, TLAPS

\* np.clip() keeps whole numbers whole, and puts them between its bounds.
LEMMA ClipType ==
  ASSUME NEW x \in Int, NEW lo \in Int, NEW hi \in Int
  PROVE  Clip(x, lo, hi) \in Int
BY DEF Clip

LEMMA ClipBounds ==
  ASSUME NEW x \in Int, NEW lo \in Int, NEW hi \in Int, lo <= hi
  PROVE  Clip(x, lo, hi) \in lo..hi
BY DEF Clip

LEMMA QuotientType ==
  ASSUME NEW n \in Int, NEW d \in Nat \ {0}
  PROVE  Quotient(n, d) \in Int
<1>1. \A k \in Int : k \div d \in Int
  OBVIOUS
<1>2. n \div d \in Int /\ (-n) \div d \in Int
  BY <1>1
<1> QED BY <1>2 DEF Quotient

\* The control law asks for a whole number: KpInv has a square root.
LEMMA DemandType ==
  ASSUME PathTypeOK
  PROVE  Demand \in Int
<1> DEFINE root == CHOOSE r \in 1..KpInv : r * r = KpInv
<1>1. root \in 1..KpInv
  BY FilterAssumption
<1>2. root \in Int
  BY <1>1, FilterAssumption
<1>3. KpInv \in Nat \ {0}
  BY <1>1, FilterAssumption
<1>4. 2 * root * v \in Int
  BY <1>2 DEF PathTypeOK
<1>5. (target - q) - 2 * root * v \in Int
  BY <1>4 DEF PathTypeOK
<1> QED BY <1>3, <1>5, QuotientType DEF Demand

\* One step of the filter: the new speed and the acceleration that survived.
LEMMA FilterStepFacts ==
  ASSUME PathTypeOK, v \in -VMax..VMax, acc \in -AMax..AMax, FilterStep
  PROVE  /\ q' \in Int
         /\ v' \in -VMax..VMax
         /\ acc' = v' - v
         /\ acc' \in -AMax..AMax
         /\ \/ acc' - acc \in -JMax..JMax
            \/ v' = VMax /\ acc' \in 0..acc
            \/ v' = -VMax /\ acc' \in acc..0
<1> DEFINE wanted == Clip(Demand, -AMax, AMax)
<1> DEFINE limited == Clip(wanted, acc - JMax, acc + JMax)
<1> DEFINE speed == Clip(v + limited, -VMax, VMax)
<1>0. VMax \in Nat /\ AMax \in Nat /\ JMax \in Nat /\ v \in Int /\ acc \in Int /\ q \in Int
  BY FilterAssumption DEF PathTypeOK
<1>1. wanted \in -AMax..AMax
  <2>1. Demand \in Int /\ -AMax \in Int /\ AMax \in Int /\ -AMax <= AMax
    BY <1>0, DemandType
  <2> QED BY <2>1, ClipBounds
<1>2. limited \in (acc - JMax)..(acc + JMax) /\ limited \in -AMax..AMax
  <2>1. wanted \in Int
    BY <1>0, <1>1
  <2>2. limited \in (acc - JMax)..(acc + JMax)
    <3> HIDE DEF wanted
    <3> QED BY <1>0, <2>1, ClipBounds
  <2>3. limited \in -AMax..AMax
    <3> HIDE DEF wanted
    <3> QED BY <1>0, <1>1 DEF Clip
  <2> QED BY <2>2, <2>3
<1>3. limited \in Int
  BY <1>0, <1>2
<1>4. v + limited \in Int
  BY <1>0, <1>3
<1>5. speed \in -VMax..VMax
  <2> HIDE DEF limited
  <2>1. -VMax \in Int /\ VMax \in Int /\ -VMax <= VMax
    BY <1>0
  <2> QED BY <1>4, <2>1, ClipBounds
<1>6. v' = speed /\ acc' = speed - v /\ q' = q + speed
  BY DEF FilterStep
<1>7. speed - v \in -AMax..AMax
  <2> HIDE DEF limited
  <2> QED BY <1>0, <1>2, <1>3 DEF Clip
<1>8. \/ speed - v \in (acc - JMax)..(acc + JMax)
      \/ speed = VMax /\ speed - v \in 0..acc
      \/ speed = -VMax /\ speed - v \in acc..0
  <2> HIDE DEF limited
  <2> QED BY <1>0, <1>2, <1>3 DEF Clip
<1> HIDE DEF speed
<1>9. speed \in Int
  BY <1>0, <1>5
<1>10. \/ (speed - v) - acc \in -JMax..JMax
       \/ speed = VMax /\ speed - v \in 0..acc
       \/ speed = -VMax /\ speed - v \in acc..0
  BY <1>0, <1>8, <1>9
<1> QED BY <1>0, <1>5, <1>6, <1>7, <1>9, <1>10

-----------------------------------------------------------------------------
PathInv == PathTypeOK /\ BoundedCommand

LEMMA MeasuredType == PathTypeOK => Measured \subseteq Int
BY LimitAssumption DEF PathTypeOK, Measured

LEMMA RawType ==
  ASSUME PathTypeOK, NEW row \in Rows, NEW measured \in Measured
  PROVE  RawTargets(row, measured) \subseteq Int
<1>1. row \in Int /\ measured \in Int /\ Lower..Upper \subseteq Int
  <2>1. row \in Int /\ Lower..Upper \subseteq Int
    BY LimitAssumption
  <2>2. measured \in Int
    BY MeasuredType
  <2> QED BY <2>1, <2>2
<1>2. CASE kind = "joint_absolute"
  <2>1. RawTargets(row, measured) = {row}
    BY <1>2 DEF RawTargets
  <2> QED BY <1>1, <2>1
<1>3. CASE kind = "joint_delta"
  <2>1. RawTargets(row, measured) = {measured + row}
    BY <1>3 DEF RawTargets
  <2> QED BY <1>1, <2>1
<1>4. CASE kind \in {"ee_absolute", "ee_delta"}
  <2>1. RawTargets(row, measured) = Lower..Upper \cup {measured}
    BY <1>4 DEF RawTargets
  <2> QED BY <1>1, <2>1
<1> QED BY <1>2, <1>3, <1>4, LimitAssumption DEF PathTypeOK

LEMMA TickTypes ==
  ASSUME PathTypeOK, Tick
  PROVE  value' \in Int /\ target' \in Int
<1>1. PICK row \in Rows, measured \in Measured : \E raw \in RawTargets(row, measured) :
        value' = Smoothed(raw) /\ target' = ClipToJointLimits(ClampStep(Smoothed(raw), measured))
  BY DEF Tick
<1>2. PICK raw \in RawTargets(row, measured) :
        value' = Smoothed(raw) /\ target' = ClipToJointLimits(ClampStep(Smoothed(raw), measured))
  BY <1>1
<1>3. raw \in Int /\ measured \in Int
  BY RawType, MeasuredType
<1>4. raw + value \in Int
  BY <1>3 DEF PathTypeOK
<1>5. Smoothed(raw) \in Int
  BY <1>4, QuotientType DEF Smoothed
<1>6. ClampStep(Smoothed(raw), measured) \in Int
  <2> DEFINE x == Smoothed(raw)
  <2>1. x \in Int /\ x - measured \in Int /\ -MaxStep \in Int /\ MaxStep \in Int
    BY <1>3, <1>5, LimitAssumption
  <2>2. Clip(x - measured, -MaxStep, MaxStep) \in Int
    BY <2>1, ClipType
  <2> QED BY <1>3, <2>2 DEF ClampStep
<1>7. ClipToJointLimits(ClampStep(Smoothed(raw), measured)) \in Int
  BY <1>6, ClipType, LimitAssumption DEF ClipToJointLimits
<1> QED BY <1>2, <1>5, <1>7

LEMMA PathInitial == PathInit => PathInv
<1> SUFFICES ASSUME PathInit PROVE PathInv
  OBVIOUS
<1>1. Lower \in Int /\ Upper \in Int /\ VMax \in Nat /\ AMax \in Nat
  BY LimitAssumption, FilterAssumption
<1>2. 0 \in -VMax..VMax /\ 0 \in -AMax..AMax
  BY <1>1
<1>3. PathTypeOK
  <2>1. q \in Int /\ value = q /\ target = q
    BY <1>1 DEF PathInit
  <2>2. v \in Int /\ acc \in Int
    BY DEF PathInit
  <2>3. kind \in Kinds /\ live \in BOOLEAN /\ running \in BOOLEAN
    BY Zenon DEF PathInit
  <2>4. value \in Int /\ target \in Int /\ q \in Int
    BY <2>1
  <2> QED BY <2>2, <2>3, <2>4, Zenon DEF PathTypeOK
<1> QED BY <1>2, <1>3 DEF PathInit, PathInv, BoundedCommand

LEMMA PathInductive == PathInv /\ [PathNext]_pathVars => PathInv'
<1> SUFFICES ASSUME PathInv, [PathNext]_pathVars PROVE PathInv'
  OBVIOUS
<1> USE DEF PathInv
<1>0. VMax \in Nat /\ AMax \in Nat
  BY FilterAssumption
<1>1. CASE Connect
  BY <1>0, <1>1, MeasuredType DEF Connect, PathTypeOK, BoundedCommand
<1>2. CASE Start
  BY <1>2, MeasuredType DEF Start, PathTypeOK, BoundedCommand
<1>3. CASE Tick
  BY <1>3, TickTypes DEF Tick, PathTypeOK, BoundedCommand
<1>4. CASE StopTicks
  BY <1>4 DEF StopTicks, PathTypeOK, BoundedCommand
<1>5. CASE Freeze
  BY <1>5, MeasuredType DEF Freeze, PathTypeOK, BoundedCommand
<1>6. CASE StopControl
  BY <1>6 DEF StopControl, PathTypeOK, BoundedCommand
<1>7. CASE FilterStep
  <2>1. q' \in Int /\ v' \in -VMax..VMax /\ acc' \in -AMax..AMax
    BY <1>7, FilterStepFacts DEF BoundedCommand
  <2>2. UNCHANGED <<kind, value, target, live, running>>
    BY <1>7 DEF FilterStep
  <2> QED BY <1>0, <2>1, <2>2 DEF PathTypeOK, BoundedCommand
<1>8. CASE UNCHANGED pathVars
  BY <1>8 DEF pathVars, PathTypeOK, BoundedCommand
<1> QED BY <1>1, <1>2, <1>3, <1>4, <1>5, <1>6, <1>7, <1>8 DEF PathNext

\* Every variable of the path keeps its type, for all limits, gains and rows.
THEOREM PathTypeCorrect == PathSpec => []PathTypeOK
<1>1. PathInv => PathTypeOK
  BY DEF PathInv
<1> QED BY <1>1, PathInitial, PathInductive, PTL DEF PathSpec

\* The filter's velocity and acceleration keep to VMax and AMax, whatever targets the
\* policy sends and whenever the control thread stops or latches anew.
THEOREM CommandBounded == PathSpec => []BoundedCommand
<1>1. PathInv => BoundedCommand
  BY DEF PathInv
<1> QED BY <1>1, PathInitial, PathInductive, PTL DEF PathSpec

\* The command is smooth for all limits, gains and rows: no step of the filter exceeds
\* the limits of velocity and acceleration, nor that of jerk, but for the step in which
\* the velocity clamp ends an acceleration toward the limit.
THEOREM CommandIsSmooth == PathSpec => SmoothCommand
<1>1. PathInv /\ [PathNext]_pathVars =>
        [live /\ live' =>
           /\ v' \in -VMax..VMax /\ v' - v \in -AMax..AMax
           /\ \/ acc' - acc \in -JMax..JMax
              \/ v' = VMax /\ acc' \in 0..acc
              \/ v' = -VMax /\ acc' \in acc..0 ]_<<q, v, acc>>
  <2> SUFFICES ASSUME PathInv, [PathNext]_pathVars, live, live', ~UNCHANGED <<q, v, acc>>
               PROVE  /\ v' \in -VMax..VMax /\ v' - v \in -AMax..AMax
                      /\ \/ acc' - acc \in -JMax..JMax
                         \/ v' = VMax /\ acc' \in 0..acc
                         \/ v' = -VMax /\ acc' \in acc..0
    OBVIOUS
  <2>1. FilterStep
    BY DEF PathNext, pathVars, Connect, Start, Tick, StopTicks, Freeze, StopControl
  <2> QED BY <2>1, FilterStepFacts DEF PathInv, BoundedCommand
<1> QED BY <1>1, PathInitial, PathInductive, PTL DEF PathSpec, SmoothCommand

-----------------------------------------------------------------------------
(***************************************************************************)
(* How far the command overshoots. Toward a wall that no target lies       *)
(* beyond, the command keeps room for the braking the filter will do: r    *)
(* steps' way at its speed, and at speeds beyond r * AMax, where the brake *)
(* is saturated, the longer way to stop at AMax. The room ends KpInv       *)
(* beyond the wall: within KpInv of its target the demand rounds to zero.  *)
(***************************************************************************)
Root == CHOOSE r \in 1..KpInv : r * r = KpInv

\* The gains: the velocity limit can be braked away, and the jerk limit follows what
\* the demand changes by in a step.
GainsFit ==
  /\ Root >= 2 /\ VMax >= 1
  /\ VMax <= (3 * Root - 2) * AMax
  /\ VMax + 2 * Root * AMax <= JMax * KpInv

Room(room, speed) ==
  /\ room >= 0
  /\ speed > 0 => room >= Root * speed
  /\ speed > Root * AMax => 2 * AMax * room >= speed * speed + KpInv * AMax * AMax

\* The largest demand of a target not beyond the wall, at this distance from it.
Brake(distance, speed) == Clip(Quotient(distance - 2 * Root * speed, KpInv), -AMax, AMax)

\* The wall is far enough, and the jerk limit lets the brake be what it should.
CanStop(distance, speed, change) ==
  /\ Room(distance + KpInv, speed)
  /\ change - JMax <= Brake(distance, speed)

LEMMA GainTypes ==
  /\ Root \in Nat /\ Root >= 1 /\ KpInv \in Nat /\ KpInv >= 1 /\ Root * Root = KpInv
  /\ VMax \in Nat /\ AMax \in Nat /\ JMax \in Nat
<1>1. Root \in 1..KpInv /\ Root * Root = KpInv
  BY FilterAssumption DEF FilterAssumption, Root
<1>2. KpInv \in Nat /\ VMax \in Nat /\ AMax \in Nat /\ JMax \in Nat
  BY FilterAssumption DEF FilterAssumption
<1> QED BY <1>1, <1>2

LEMMA GainBounds == GainsFit => AMax >= 1
<1>1. CASE AMax = 0
  <2>1. (3 * Root - 2) * AMax = 0
    BY <1>1, GainTypes
  <2> QED BY <2>1, GainTypes DEF GainsFit
<1> QED BY <1>1, GainTypes

\* A square is monotone.
LEMMA Squares ==
  ASSUME NEW a \in Nat, NEW b \in Nat, a <= b
  PROVE  a * a <= b * b
<1>1. a * a <= a * b /\ a * b <= b * b
  BY SMTT(30)
<1> QED BY <1>1

\* The default gains (fr3_runtime.py), counted in microradians and milliseconds: 1 rad/s,
\* 4 rad/s^2, 3000 rad/s^3 and a natural frequency of 10 rad/s.
LEMMA DefaultGainsFit ==
  ASSUME VMax = 1000, AMax = 4, JMax = 3, KpInv = 10000
  PROVE  GainsFit
<1>1. Root \in Nat /\ Root * Root = 10000
  BY GainTypes
<1>2. Root = 100
  <2>1. Root <= 99 => Root * Root <= 99 * 99
    BY <1>1, Squares
  <2>2. Root >= 101 => 101 * 101 <= Root * Root
    BY <1>1, Squares
  <2> QED BY <1>1, <2>1, <2>2
<1> QED BY <1>2 DEF GainsFit

LEMMA DivisionFacts ==
  ASSUME NEW n \in Nat, NEW d \in Nat \ {0}
  PROVE  /\ n \div d \in Nat
         /\ d * (n \div d) <= n /\ n < d * (n \div d) + d
<1>1. /\ n \div d \in Int /\ n >= d * (n \div d)
      /\ n < d * (n \div d) + d
  OBVIOUS
<1>2. ~(n \div d < 0)
  <2>1. SUFFICES ASSUME n \div d <= -1 PROVE FALSE
    BY <1>1
  <2>2. d * (n \div d) <= -d
    BY <1>1, <2>1
  <2> QED BY <1>1, <2>2
<1> QED BY <1>1, <1>2

\* Division toward zero: by how much it rounds, and which way.
LEMMA QuotientFacts ==
  ASSUME NEW n \in Int, NEW d \in Nat \ {0}
  PROVE  /\ Quotient(n, d) \in Int
         /\ n >= 0 => Quotient(n, d) >= 0 /\ d * Quotient(n, d) <= n
                      /\ n < d * Quotient(n, d) + d
         /\ n <= 0 => Quotient(n, d) <= 0 /\ n <= d * Quotient(n, d)
                      /\ d * Quotient(n, d) < n + d
<1>1. CASE n >= 0
  <2>1. Quotient(n, d) = n \div d /\ n \in Nat
    BY <1>1 DEF Quotient
  <2>2. n = 0 => n \div d = 0
    <3> SUFFICES ASSUME n = 0 PROVE n \div d = 0
      OBVIOUS
    <3> DEFINE k == n \div d
    <3>1. k \in Nat /\ d * k <= 0
      BY <2>1, DivisionFacts
    <3>2. k >= 1 => d * k >= d
      BY <3>1
    <3> QED BY <3>1, <3>2
  <2> QED BY <1>1, <2>1, <2>2, DivisionFacts
<1>2. CASE n < 0
  <2> DEFINE k == (-n) \div d
  <2>1. -n \in Nat
    BY <1>2
  <2>2. k \in Nat /\ d * k <= -n /\ -n < d * k + d
    BY <2>1, DivisionFacts
  <2>3. Quotient(n, d) = -k
    BY <1>2 DEF Quotient
  <2> HIDE DEF k
  <2>4. d * (-k) = -(d * k)
    BY <2>2
  <2> QED BY <1>2, <2>2, <2>3, <2>4
<1> QED BY <1>1, <1>2

LEMMA QuotientOdd ==
  ASSUME NEW n \in Int, NEW d \in Nat \ {0}
  PROVE  Quotient(-n, d) = -Quotient(n, d)
<1>1. CASE n = 0
  <2>1. Quotient(n, d) = 0
    BY <1>1, QuotientFacts
  <2> QED BY <1>1, <2>1
<1>2. CASE n > 0
  <2>1. Quotient(n, d) = n \div d /\ Quotient(-n, d) = -(n \div d)
    BY <1>2 DEF Quotient
  <2> QED BY <2>1
<1>3. CASE n < 0
  <2>1. Quotient(n, d) = -((-n) \div d) /\ Quotient(-n, d) = (-n) \div d
    BY <1>3 DEF Quotient
  <2>2. (-n) \div d \in Int
    <3>1. -n \in Nat
      BY <1>3
    <3> QED BY <3>1, DivisionFacts
  <2> QED BY <2>1, <2>2
<1> QED BY <1>1, <1>2, <1>3

\* A smaller error, by at most k divisors, lowers the quotient by at most k.
LEMMA QuotientFalls ==
  ASSUME NEW n \in Int, NEW x \in Int, NEW k \in Nat, NEW d \in Nat \ {0}, n - x <= k * d
  PROVE  Quotient(x, d) >= Quotient(n, d) - k
<1> DEFINE a == Quotient(n, d)
           b == Quotient(x, d)
<1>1. a \in Int /\ b \in Int
  BY QuotientFacts
<1>2. SUFFICES ASSUME b <= a - k - 1 PROVE FALSE
  BY <1>1
<1>3. d * b <= d * a - k * d - d
  <2> HIDE DEF a, b
  <2>1. d * b <= d * (a - k - 1)
    BY <1>1, <1>2
  <2>2. d * (a - k - 1) = d * a - k * d - d
    BY <1>1
  <2> QED BY <1>1, <2>1, <2>2
<1>4. CASE n >= 0 /\ x >= 0
  BY <1>1, <1>3, <1>4, QuotientFacts
<1>5. CASE n < 0 /\ x < 0
  BY <1>1, <1>3, <1>5, QuotientFacts
<1>6. CASE n < 0 /\ x >= 0
  BY <1>1, <1>2, <1>6, QuotientFacts
<1>7. CASE n >= 0 /\ x < 0
  <2>1. a >= 0 /\ d * a <= n /\ b <= 0 /\ x <= d * b /\ d * b < x + d
    BY <1>7, QuotientFacts
  <2> QED BY <1>1, <1>3, <1>7, <2>1
<1> QED BY <1>4, <1>5, <1>6, <1>7

LEMMA ClipOdd ==
  ASSUME NEW x \in Int, NEW lo \in Int, NEW hi \in Int, lo <= hi
  PROVE  Clip(-x, -hi, -lo) = -Clip(x, lo, hi)
BY DEF Clip

\* A step at full brake keeps the room of the speed before.
LEMMA BrakingKeepsRoom ==
  ASSUME GainsFit, NEW room \in Int, NEW speed \in Int, NEW next \in Int,
         Room(room, speed), next <= speed - AMax
  PROVE  Room(room - next, next)
<1> DEFINE r == Root
           a == AMax
<1>0. r \in Nat /\ r >= 2 /\ a \in Nat /\ a >= 1 /\ KpInv = r * r
  BY GainTypes, GainBounds DEF GainsFit
<1>1. CASE next <= 0
  <2>1. r * a \in Nat
    BY <1>0
  <2> QED BY <1>1, <2>1 DEF Room
<1>2. CASE next > 0 /\ next <= r * a
  <2>1. room >= r * speed
    BY <1>0, <1>2 DEF Room
  <2>2. r * speed >= r * (next + a)
    BY <1>0
  <2>3. r * (next + a) = r * next + r * a
    BY <1>0
  <2>4. room - next >= r * next /\ room - next >= 0
    <3>1. r * next >= 0
      BY <1>0, <1>2
    <3> HIDE DEF r, a
    <3>2. r * next \in Int /\ r * a \in Int /\ r * speed \in Int
      BY <1>0
    <3> QED BY <1>2, <2>1, <2>2, <2>3, <3>1, <3>2
  <2>5. ~(next > Root * AMax)
    BY <1>0, <1>2
  <2> QED BY <2>4, <2>5 DEF Room
<1>3. CASE next > r * a
  <2>1. 2 * a * room >= speed * speed + KpInv * a * a
    <3>1. r * a \in Nat
      BY <1>0
    <3> QED BY <1>0, <1>3, <3>1 DEF Room
  <2>2. speed * speed >= (next + a) * (next + a)
    <3> DEFINE b == next + a
    <3>1. r * a \in Nat
      BY <1>0
    <3>2. b \in Nat /\ speed \in Nat /\ b <= speed
      <4> HIDE DEF r
      <4> QED BY <1>0, <1>3, <3>1
    <3> HIDE DEF b
    <3>3. b * b <= speed * speed
      BY <3>2, Squares
    <3> QED BY <3>3 DEF b
  <2>3. (next + a) * (next + a) = next * next + 2 * a * next + a * a
    BY <1>0
  <2>4. 2 * a * (room - next) = 2 * a * room - 2 * a * next
    BY <1>0
  <2>5. 2 * a * (room - next) >= next * next + KpInv * a * a
    <3>1. a * a >= 0
      BY <1>0
    <3> DEFINE x1 == speed * speed
               x2 == next * next
               x3 == 2 * a * next
               x4 == a * a
               x5 == KpInv * a * a
               x6 == 2 * a * room
               x7 == (next + a) * (next + a)
               x8 == 2 * a * (room - next)
    <3>2. /\ x1 \in Int /\ x2 \in Int /\ x3 \in Int /\ x4 \in Int /\ x5 \in Int
          /\ x6 \in Int /\ x7 \in Int /\ x8 \in Int
      BY <1>0
    <3>3. x6 >= x1 + x5 /\ x1 >= x7 /\ x7 = x2 + x3 + x4 /\ x8 = x6 - x3 /\ x4 >= 0
      BY <2>1, <2>2, <2>3, <2>4, <3>1
    <3>4. x8 >= x2 + x5
      <4> HIDE DEF x1, x2, x3, x4, x5, x6, x7, x8
      <4> QED BY <3>2, <3>3
    <3> QED BY <3>4
  <2>6. room - next >= r * next
    \* 2 a (room - next) >= next^2 + (r a)^2 >= 2 a (r next)
    <3>1. KpInv * a * a = (r * a) * (r * a)
      BY <1>0
    <3>2. (next - r * a) * (next - r * a) >= 0
      BY <1>0, <1>3
    <3>3. (next - r * a) * (next - r * a)
            = next * next - 2 * a * (r * next) + (r * a) * (r * a)
      BY <1>0
    <3>4. 2 * a * (room - next) >= 2 * a * (r * next)
      <4> DEFINE x1 == next * next
                 x2 == 2 * a * (r * next)
                 x3 == (r * a) * (r * a)
                 x4 == 2 * a * (room - next)
                 x5 == (next - r * a) * (next - r * a)
                 x6 == KpInv * a * a
      <4>1. x1 \in Int /\ x2 \in Int /\ x3 \in Int /\ x4 \in Int /\ x5 \in Int /\ x6 \in Int
        BY <1>0
      <4>2. x4 >= x1 + x6 /\ x6 = x3 /\ x5 >= 0 /\ x5 = x1 - x2 + x3
        BY <2>5, <3>1, <3>2, <3>3
      <4>3. x4 >= x2
        <5> HIDE DEF x1, x2, x3, x4, x5, x6
        <5> QED BY <4>1, <4>2
      <4> QED BY <4>3
    <3>5. \A x, y \in Int : 2 * a * x >= 2 * a * y => x >= y
      BY <1>0, SMTT(30)
    <3> QED BY <1>0, <3>4, <3>5
  <2>7. room - next >= 0
    <3>1. r * next \in Nat
      BY <1>0, <1>3
    <3> QED BY <2>6, <3>1
  <2> QED BY <2>5, <2>6, <2>7 DEF Room
<1>4. r * a \in Int
  BY <1>0
<1> QED BY <1>1, <1>2, <1>3, <1>4

\* A step by no more than the demand keeps room at every speed ...
LEMMA DemandKeepsWay ==
  ASSUME GainsFit, NEW room \in Int, NEW speed \in Int, NEW next \in Int,
         Room(room, speed), next > 0,
         room >= KpInv * (next - speed) + 2 * Root * speed
  PROVE  room - next >= Root * next
<1> DEFINE r == Root
<1>0. r \in Nat /\ r >= 2 /\ KpInv = r * r
  BY GainTypes DEF GainsFit
<1>1. room >= r * speed
  <2>1. CASE speed > 0
    BY <1>0, <2>1 DEF Room
  <2>2. CASE speed <= 0
    <3>1. r * speed <= 0
      BY <1>0, <2>2
    <3> HIDE DEF r
    <3>2. r * speed \in Int /\ room >= 0
      BY <1>0 DEF Room
    <3> QED BY <3>1, <3>2
  <2> QED BY <2>1, <2>2
<1>2. (r - 2) * room >= (r - 2) * (r * speed)
  <2> DEFINE m == r - 2
             w == r * speed
  <2>1. m \in Nat /\ w \in Int /\ room >= w
    BY <1>0, <1>1
  <2> HIDE DEF m, w
  <2>2. m * room >= m * w
    BY <2>1
  <2> QED BY <2>2 DEF m, w
<1>3. (r - 1) * room >= r * r * next
  <2> DEFINE x1 == (r - 2) * room
             x2 == (r - 2) * (r * speed)
             x3 == r * speed
             x4 == r * r * speed
             x5 == r * r * next
             x6 == (r - 1) * room
             x7 == KpInv * (next - speed)
             x8 == 2 * Root * speed
  <2>1. /\ x1 \in Int /\ x2 \in Int /\ x3 \in Int /\ x4 \in Int /\ x5 \in Int /\ x6 \in Int
        /\ x7 \in Int /\ x8 \in Int
    BY <1>0
  <2>2. x6 = x1 + room /\ x2 = x4 - 2 * x3 /\ x7 = x5 - x4 /\ x8 = 2 * x3
    BY <1>0
  <2>3. x1 >= x2 /\ room >= x7 + x8
    BY <1>2
  <2>4. x6 >= x5
    <3> HIDE DEF x1, x2, x3, x4, x5, x6, x7, x8
    <3> QED BY <2>1, <2>2, <2>3
  <2> QED BY <2>4
<1>4. r * r * next = (r - 1) * ((r + 1) * next) + next
  BY <1>0
<1>5. (r - 1) * room >= (r - 1) * ((r + 1) * next)
  <2> DEFINE x1 == (r - 1) * room
             x2 == (r - 1) * ((r + 1) * next)
  <2>1. x1 \in Int /\ x2 \in Int
    BY <1>0
  <2>2. x1 >= x2 + next
    BY <1>3, <1>4
  <2> HIDE DEF x1, x2
  <2>3. x1 >= x2
    BY <2>1, <2>2
  <2> QED BY <2>3 DEF x1, x2
<1>6. room >= (r + 1) * next
  <2> DEFINE m == r - 1
             w == (r + 1) * next
  <2>1. m \in Nat /\ m >= 1 /\ w \in Int /\ m * room >= m * w
    BY <1>0, <1>5
  <2> HIDE DEF m, w
  <2>2. room >= w
    BY <2>1
  <2> QED BY <2>2 DEF w
<1>7. (r + 1) * next = r * next + next
  BY <1>0
<1>8. r * next \in Int
  BY <1>0
<1> HIDE DEF r
<1>9. room - next >= r * next
  BY <1>6, <1>7, <1>8
<1> QED BY <1>9 DEF r

\* ... and the longer room of the fast ones.
LEMMA DemandKeepsStop ==
  ASSUME GainsFit, NEW room \in Int, NEW speed \in Int, NEW next \in Int,
         next > Root * AMax, next <= VMax, next >= speed - AMax,
         room >= KpInv * (next - speed) + 2 * Root * speed
  PROVE  2 * AMax * (room - next) >= next * next + KpInv * AMax * AMax
<1> DEFINE r == Root
           a == AMax
           c == next - speed + a
           w == r * a
<1>0. /\ r \in Nat /\ r >= 2 /\ a \in Nat /\ a >= 1 /\ KpInv = r * r
      /\ c \in Nat /\ w \in Nat /\ speed = next - c + a
  <2>1. r \in Nat /\ r >= 2 /\ a \in Nat /\ a >= 1 /\ KpInv = r * r
    BY GainTypes, GainBounds DEF GainsFit
  <2> QED BY <2>1
\* Both brake factors are those of next = p + w.
<1>1. next > w /\ next <= 3 * w - 2 * a
  <2>1. (3 * r - 2) * a = 3 * w - 2 * a
    BY <1>0
  <2>2. VMax <= (3 * r - 2) * a /\ VMax \in Nat
    BY GainTypes DEF GainsFit
  <2>3. next > w
    BY <1>0
  <2> HIDE DEF w
  <2>4. next <= 3 * w - 2 * a
    BY <1>0, <2>1, <2>2
  <2> QED BY <2>3, <2>4
<1>2. (next - w) * (3 * w - next) >= 2 * a * (next - w)
  <2> DEFINE p == next - w
             m == 3 * w - next
  <2>1. p \in Nat /\ m \in Nat /\ m >= 2 * a
    <3> HIDE DEF w
    <3> QED BY <1>0, <1>1
  <2> HIDE DEF p, m
  <2>2. p * m >= p * (2 * a)
    BY <1>0, <2>1
  <2>3. p * (2 * a) = 2 * a * p
    BY <1>0, <2>1
  <2>4. p * m >= 2 * a * p
    BY <2>2, <2>3
  <2> QED BY <2>4 DEF p, m
<1>3. 2 * a * room >= 2 * a * (r * r * (c - a) + 2 * r * (next - c + a))
  <2> DEFINE y == r * r * (c - a) + 2 * r * (next - c + a)
  <2>1. next - speed = c - a /\ speed = next - c + a
    BY <1>0
  <2>2. KpInv * (next - speed) + 2 * Root * speed = r * r * (c - a) + 2 * r * (next - c + a)
    <3> HIDE DEF c
    <3> QED BY <1>0, <2>1
  <2>3. room >= y /\ y \in Int
    <3> HIDE DEF c
    <3> QED BY <1>0, <2>2
  <2> HIDE DEF y, c, w
  <2>4. 2 * a * room >= 2 * a * y
    BY <1>0, <2>3
  <2> QED BY <2>4 DEF y
<1>4. 2 * a * (r * r * (c - a) + 2 * r * (next - c + a))
        = 2 * a * (c * (r * (r - 2))) - 2 * (w * w) + 4 * (w * next) + 4 * (a * w)
  <2> HIDE DEF c
  <2> QED BY <1>0
<1>5. 2 * a * (c * (r * (r - 2))) >= 0
  <2> HIDE DEF c, w
  <2>1. r * (r - 2) \in Nat
    BY <1>0
  <2>2. c * (r * (r - 2)) \in Nat
    BY <1>0, <2>1
  <2> QED BY <1>0, <2>2
<1>6. (next - w) * (3 * w - next) = 4 * (w * next) - next * next - 3 * (w * w)
  <2> HIDE DEF w, c
  <2> QED BY <1>0
<1>7. 2 * a * (next - w) = 2 * (a * next) - 2 * (a * w)
  <2> HIDE DEF w, c
  <2> QED BY <1>0
<1>8. 2 * a * (room - next) = 2 * a * room - 2 * (a * next)
  BY <1>0
<1>9. KpInv * a * a = w * w
  BY <1>0
<1>10. a * w >= 0 /\ a * next >= 0
  <2>1. next >= 0
    BY <1>0, <1>1
  <2> HIDE DEF w, c
  <2> QED BY <1>0, <2>1
<1> DEFINE x1 == (next - w) * (3 * w - next)
           x2 == 2 * a * (next - w)
           x3 == 2 * a * room
           x4 == 2 * a * (r * r * (c - a) + 2 * r * (next - c + a))
           x5 == 2 * a * (c * (r * (r - 2)))
           ww == w * w
           wn == w * next
           aw == a * w
           an == a * next
           nn == next * next
           x6 == 2 * a * (room - next)
           x7 == KpInv * a * a
<1>11. /\ x1 \in Int /\ x2 \in Int /\ x3 \in Int /\ x4 \in Int /\ x5 \in Int /\ x6 \in Int
       /\ x7 \in Int /\ ww \in Int /\ wn \in Int /\ aw \in Int /\ an \in Int /\ nn \in Int
  <2> HIDE DEF c, w
  <2> QED BY <1>0
<1>12. /\ x1 >= x2 /\ x3 >= x4 /\ x5 >= 0 /\ aw >= 0
       /\ x4 = x5 - 2 * ww + 4 * wn + 4 * aw
       /\ x1 = 4 * wn - nn - 3 * ww
       /\ x2 = 2 * an - 2 * aw
       /\ x6 = x3 - 2 * an
       /\ x7 = ww
  BY <1>2, <1>3, <1>4, <1>5, <1>6, <1>7, <1>8, <1>9, <1>10
<1>13. x6 >= nn + x7
  <2> HIDE DEF x1, x2, x3, x4, x5, x6, x7, ww, wn, aw, an, nn, c, w
  <2> QED BY <1>11, <1>12
<1> QED BY <1>13

\* The next step may brake as hard as it then must: the demand falls by no more than
\* the jerk limit.
LEMMA DemandFallsSlowly ==
  ASSUME GainsFit, NEW distance \in Int, NEW speed \in Int, NEW next \in Int,
         next <= VMax, next - speed <= AMax,
         next - speed <= Brake(distance, speed)
  PROVE  next - speed - JMax <= Brake(distance - next, next)
<1> DEFINE n == distance - 2 * Root * speed
           x == (distance - next) - 2 * Root * next
<1>0. /\ Root \in Nat /\ KpInv \in Nat \ {0} /\ JMax \in Nat /\ AMax \in Nat /\ VMax \in Nat
      /\ VMax + 2 * Root * AMax <= JMax * KpInv
  BY GainTypes DEF GainsFit
<1>1. n \in Int /\ x \in Int
  BY <1>0
<1>2. n - x <= JMax * KpInv
  <2>1. n - x = next + 2 * (Root * (next - speed))
    BY <1>0
  <2>2. Root * (next - speed) <= Root * AMax
    BY <1>0
  <2> DEFINE y == Root * (next - speed)
             w == Root * AMax
             k == JMax * KpInv
  <2>3. y \in Int /\ w \in Int /\ k \in Int /\ 2 * Root * AMax = 2 * w
    BY <1>0
  <2>4. n - x = next + 2 * y /\ y <= w /\ VMax + 2 * w <= k
    BY <1>0, <2>1, <2>2, <2>3
  <2> HIDE DEF y, w, k, n, x
  <2>5. n - x <= k
    BY <1>0, <1>1, <2>3, <2>4
  <2> QED BY <2>5 DEF k
<1>3. Quotient(x, KpInv) >= Quotient(n, KpInv) - JMax
  <2> HIDE DEF n, x
  <2> QED BY <1>0, <1>1, <1>2, QuotientFalls
<1>4. Quotient(x, KpInv) \in Int /\ Quotient(n, KpInv) \in Int
  <2> HIDE DEF n, x
  <2> QED BY <1>0, <1>1, QuotientFacts
<1>5. /\ Brake(distance, speed) = Clip(Quotient(n, KpInv), -AMax, AMax)
      /\ Brake(distance - next, next) = Clip(Quotient(x, KpInv), -AMax, AMax)
  BY DEF Brake
<1> HIDE DEF n, x
<1> QED BY <1>0, <1>3, <1>4, <1>5 DEF Clip

\* One step of the filter toward the wall, or away from it.
LEMMA StepKeepsRoom ==
  ASSUME GainsFit,
         NEW distance \in Int, NEW speed \in -VMax..VMax, NEW change \in -AMax..AMax,
         CanStop(distance, speed, change),
         NEW wanted \in -AMax..AMax, wanted <= Brake(distance, speed),
         NEW next, next = Clip(speed + Clip(wanted, change - JMax, change + JMax), -VMax, VMax)
  PROVE  CanStop(distance - next, next, next - speed)
<1> DEFINE limited == Clip(wanted, change - JMax, change + JMax)
           room == distance + KpInv
<1>0. /\ Root \in Nat /\ Root >= 2 /\ KpInv \in Nat \ {0} /\ JMax \in Nat /\ AMax \in Nat
      /\ VMax \in Nat /\ VMax >= 1 /\ AMax >= 1
  BY GainTypes, GainBounds DEF GainsFit
<1>1. Brake(distance, speed) \in -AMax..AMax
  <2>1. distance - 2 * Root * speed \in Int
    BY <1>0
  <2>2. Quotient(distance - 2 * Root * speed, KpInv) \in Int
    BY <1>0, <2>1, QuotientFacts
  <2>3. -AMax \in Int /\ AMax \in Int /\ -AMax <= AMax
    BY <1>0
  <2> QED BY <2>2, <2>3, ClipBounds DEF Brake
<1>2. /\ limited \in -AMax..AMax
      /\ limited <= Brake(distance, speed)
  BY <1>0, <1>1 DEF Clip, CanStop
<1>3. /\ next \in -VMax..VMax
      /\ \/ next <= speed + limited
         \/ next = -VMax /\ next <= speed
  <2>1. next = Clip(speed + limited, -VMax, VMax)
    OBVIOUS
  <2> HIDE DEF limited
  <2> QED BY <1>0, <1>2, <2>1 DEF Clip
<1>4. Room(room, speed) /\ room \in Int
  BY <1>0 DEF CanStop
<1> HIDE DEF limited, room
<1>5. Room(room - next, next)
  <2>1. CASE next <= 0
    <3>1. Root * AMax >= 0
      BY <1>0
    <3> QED BY <1>0, <1>3, <1>4, <2>1, <3>1 DEF Room
  <2>2. CASE next <= speed - AMax
    BY <1>3, <1>4, <2>2, BrakingKeepsRoom
  <2>3. CASE next > 0 /\ next > speed - AMax
    <3>1. next - speed <= Brake(distance, speed) /\ next - speed > -AMax
      BY <1>0, <1>1, <1>2, <1>3, <2>3
    <3> DEFINE n == distance - 2 * Root * speed
               d == Quotient(n, KpInv)
    <3>2. n \in Int /\ d \in Int /\ KpInv * d < n + KpInv
      <4>1. n \in Int
        BY <1>0
      <4> HIDE DEF n
      <4>2. d \in Int /\ (n >= 0 => KpInv * d <= n) /\ (n <= 0 => KpInv * d < n + KpInv)
        BY <1>0, <4>1, QuotientFacts
      <4> QED BY <1>0, <4>1, <4>2
    <3>3. next - speed <= d
      <4>1. Brake(distance, speed) = Clip(d, -AMax, AMax)
        BY DEF Brake
      <4> HIDE DEF d
      <4> QED BY <1>0, <3>1, <3>2, <4>1 DEF Clip
    <3>4. KpInv * (next - speed) <= KpInv * d
      <4> HIDE DEF d
      <4> QED BY <1>0, <1>3, <3>2, <3>3
    <3>5. room >= KpInv * (next - speed) + 2 * Root * speed
      <4> DEFINE x1 == KpInv * (next - speed)
                 x2 == KpInv * d
                 x3 == 2 * Root * speed
      <4>1. x1 \in Int /\ x2 \in Int /\ x3 \in Int
        <5> HIDE DEF d
        <5> QED BY <1>0, <1>3, <3>2
      <4>2. x1 <= x2 /\ x2 < (distance - x3) + KpInv /\ room = distance + KpInv
        BY <3>2, <3>4 DEF room
      <4>3. room >= x1 + x3
        <5> HIDE DEF x1, x2, x3, d
        <5> QED BY <1>0, <4>1, <4>2
      <4> QED BY <4>3
    <3>6. room - next >= Root * next
      BY <1>3, <1>4, <2>3, <3>5, DemandKeepsWay
    <3>7. next > Root * AMax =>
            2 * AMax * (room - next) >= next * next + KpInv * AMax * AMax
      BY <1>0, <1>3, <1>4, <2>3, <3>5, DemandKeepsStop
    <3>8. room - next >= 0
      <4>1. Root * next >= 0 /\ Root * next \in Int
        BY <1>0, <1>3, <2>3
      <4> QED BY <1>3, <1>4, <3>6, <4>1
    <3> QED BY <3>6, <3>7, <3>8 DEF Room
  <2> QED BY <1>0, <1>3, <2>1, <2>2, <2>3
<1>6. (distance - next) + KpInv = room - next
  BY <1>0, <1>3 DEF room
<1>7. next - speed - JMax <= Brake(distance - next, next)
  <2>1. CASE next <= speed + limited
    <3>1. next \in Int /\ next <= VMax /\ next - speed <= AMax
          /\ next - speed <= Brake(distance, speed)
      BY <1>0, <1>1, <1>2, <1>3, <2>1
    <3> QED BY <3>1, DemandFallsSlowly
  <2>2. CASE next = -VMax /\ next <= speed
    <3> DEFINE x == (distance - next) - 2 * Root * next
    <3>1. room >= 0
      BY <1>4 DEF Room
    <3>2. Root * next <= 0 /\ Root * next \in Int
      BY <1>0, <2>2
    <3>3. x \in Int /\ x >= -KpInv /\ x # -KpInv
      <4>1. x = (distance - next) - 2 * (Root * next)
        BY <1>0, <2>2
      <4> HIDE DEF x
      <4> QED BY <1>0, <2>2, <3>1, <3>2, <4>1 DEF room
    <3>4. Quotient(x, KpInv) >= 0
      <4> HIDE DEF x
      <4>1. CASE x >= 0
        BY <1>0, <3>3, <4>1, QuotientFacts
      <4>2. CASE x < 0
        <5> DEFINE d == Quotient(x, KpInv)
        <5>1. d \in Int /\ x <= KpInv * d
          BY <1>0, <3>3, <4>2, QuotientFacts
        <5> HIDE DEF d
        <5>2. d <= -1 => KpInv * d <= -KpInv
          BY <1>0, <5>1
        <5>3. d >= 0
          BY <1>0, <3>3, <5>1, <5>2
        <5> QED BY <5>3 DEF d
      <4> QED BY <3>3, <4>1, <4>2
    <3>5. Brake(distance - next, next) >= 0
      <4>1. Quotient(x, KpInv) \in Int
        <5> HIDE DEF x
        <5> QED BY <1>0, <3>3, QuotientFacts
      <4>2. Brake(distance - next, next) = Clip(Quotient(x, KpInv), -AMax, AMax)
        BY DEF Brake
      <4> HIDE DEF x
      <4> QED BY <1>0, <3>4, <4>1, <4>2 DEF Clip
    <3>6. Brake(distance - next, next) \in Int
      <4>1. Quotient(x, KpInv) \in Int
        <5> HIDE DEF x
        <5> QED BY <1>0, <3>3, QuotientFacts
      <4> QED BY <1>0, <4>1, ClipType DEF Brake
    <3> QED BY <1>0, <1>3, <2>2, <3>5, <3>6
  <2> QED BY <1>3, <2>1, <2>2
<1> QED BY <1>5, <1>6, <1>7 DEF CanStop

-----------------------------------------------------------------------------
\* Every target lies between the walls, and the command can stop before either.
Walled(lo, hi) ==
  /\ target \in lo..hi
  /\ CanStop(hi - q, v, acc)
  /\ CanStop(q - lo, -v, -acc)

LEMMA RestCanStop ==
  ASSUME GainsFit, NEW distance \in Nat
  PROVE  CanStop(distance, 0, 0)
<1>0. /\ Root \in Nat /\ KpInv \in Nat \ {0} /\ JMax \in Nat /\ AMax \in Nat
  BY GainTypes
<1>1. Root * AMax \in Nat
  BY <1>0
<1>2. Room(distance + KpInv, 0)
  BY <1>0, <1>1 DEF Room
<1>3. distance - 2 * Root * 0 = distance
  BY <1>0
<1>4. Quotient(distance, KpInv) \in Int /\ Quotient(distance, KpInv) >= 0
  BY <1>0, QuotientFacts
<1>5. Brake(distance, 0) = Clip(Quotient(distance, KpInv), -AMax, AMax)
  BY <1>3 DEF Brake
<1>6. Brake(distance, 0) >= 0 /\ Brake(distance, 0) \in Int
  BY <1>0, <1>4, <1>5 DEF Clip
<1> QED BY <1>0, <1>2, <1>6 DEF CanStop

\* A pose between the walls, at rest.
LEMMA RestBetween ==
  ASSUME GainsFit, NEW lo \in Int, NEW hi \in Int, NEW pose \in lo..hi,
         NEW speed, NEW change, speed = 0, change = 0
  PROVE  CanStop(hi - pose, speed, change) /\ CanStop(pose - lo, -speed, -change)
<1>1. hi - pose \in Nat /\ pose - lo \in Nat
  OBVIOUS
<1>2. \A x \in Int : x <= 0 /\ x >= 0 => -x <= 0 /\ -x >= 0 /\ -x \in Int
  OBVIOUS
<1>3. \A x \in Int : x <= 0 /\ x >= 0 => x = 0
  OBVIOUS
<1>4. 0 \in Int /\ 0 <= 0 /\ 0 >= 0
  OBVIOUS
<1>5. -0 = 0
  <2>1. -0 <= 0 /\ -0 >= 0 /\ -0 \in Int
    BY <1>2, <1>4, Zenon
  <2> QED BY <1>3, <2>1, Zenon
<1>6. CanStop(hi - pose, 0, 0) /\ CanStop(pose - lo, 0, 0)
  BY <1>1, RestCanStop
<1> QED BY <1>5, <1>6, Zenon

\* The filter latched anew to a pose between the walls.
LEMMA LatchWalled ==
  ASSUME GainsFit, NEW lo \in Int, NEW hi \in Int,
         q \in lo..hi, target \in lo..hi, v = 0, acc = 0
  PROVE  Walled(lo, hi)
BY RestBetween DEF Walled

LEMMA BrakeMonotone ==
  ASSUME NEW e \in Int, NEW distance \in Int, e <= distance, NEW speed \in Int
  PROVE  Clip(Quotient(e - 2 * Root * speed, KpInv), -AMax, AMax) <= Brake(distance, speed)
<1> DEFINE n == e - 2 * Root * speed
           x == distance - 2 * Root * speed
<1>0. /\ Root \in Nat /\ KpInv \in Nat \ {0} /\ AMax \in Nat
  BY GainTypes
<1>1. 2 * Root * speed \in Int
  BY <1>0
<1>2. n \in Int /\ x \in Int /\ n <= x
  BY <1>1
<1>3. Brake(distance, speed) = Clip(Quotient(x, KpInv), -AMax, AMax)
  BY DEF Brake
<1> HIDE DEF n, x
<1>4. n - x <= 0 * KpInv
  BY <1>0, <1>2
<1>5. Quotient(x, KpInv) >= Quotient(n, KpInv) - 0
  BY <1>0, <1>2, <1>4, QuotientFalls
<1>6. Quotient(x, KpInv) \in Int /\ Quotient(n, KpInv) \in Int
  BY <1>0, <1>2, QuotientFacts
<1>7. Clip(Quotient(n, KpInv), -AMax, AMax) <= Clip(Quotient(x, KpInv), -AMax, AMax)
  BY <1>0, <1>5, <1>6 DEF Clip
<1> QED BY <1>3, <1>7 DEF n

LEMMA FilterKeepsWalls ==
  ASSUME GainsFit, PathInv, NEW lo \in Int, NEW hi \in Int, Walled(lo, hi), FilterStep
  PROVE  Walled(lo, hi)'
<1> DEFINE wanted == Clip(Demand, -AMax, AMax)
           limited == Clip(wanted, acc - JMax, acc + JMax)
           speed == Clip(v + limited, -VMax, VMax)
           way == (target - q) - 2 * Root * v
<1>0. /\ Root \in Nat /\ KpInv \in Nat \ {0} /\ AMax \in Nat /\ JMax \in Nat /\ VMax \in Nat
      /\ q \in Int /\ target \in Int /\ v \in -VMax..VMax /\ acc \in -AMax..AMax
      /\ v \in Int /\ acc \in Int
  BY GainTypes DEF PathInv, PathTypeOK, BoundedCommand
<1>1. Demand = Quotient(way, KpInv) /\ way \in Int
  <2>1. 2 * Root * v \in Int
    BY <1>0
  <2> QED BY <1>0, <2>1 DEF Demand, Root
<1>2. Demand \in Int
  BY DemandType DEF PathInv
<1>3. wanted \in -AMax..AMax
  <2>1. -AMax \in Int /\ AMax \in Int /\ -AMax <= AMax
    BY <1>0
  <2> QED BY <1>2, <2>1, ClipBounds
<1>4. /\ v' = speed /\ acc' = speed - v /\ q' = q + speed /\ target' = target
  BY DEF FilterStep
<1>5. speed \in Int
  <2>1. limited \in Int
    <3> HIDE DEF wanted
    <3> QED BY <1>0, <1>3, ClipType
  <2>2. v + limited \in Int /\ -VMax \in Int /\ VMax \in Int
    BY <1>0, <2>1
  <2> HIDE DEF limited
  <2> QED BY <2>2, ClipType
<1>6. CanStop(hi - q', v', acc')
  <2>1. target - q <= hi - q /\ target - q \in Int /\ hi - q \in Int
    BY <1>0 DEF Walled
  <2>2. wanted <= Brake(hi - q, v)
    BY <1>0, <1>1, <2>1, BrakeMonotone
  <2>3. CanStop(hi - q, v, acc)
    BY DEF Walled
  <2>4. CanStop((hi - q) - speed, speed, speed - v)
    <3> HIDE DEF wanted
    <3> QED BY <1>0, <1>3, <2>1, <2>2, <2>3, StepKeepsRoom
  <2> HIDE DEF speed
  <2>5. (hi - q) - speed = hi - q'
    BY <1>0, <1>4, <1>5
  <2> QED BY <1>4, <2>4, <2>5
\* The other wall, seen from its side.
<1>7. CanStop(q' - lo, -v', -acc')
  <2>1. q - target <= q - lo /\ q - target \in Int /\ q - lo \in Int
    BY <1>0 DEF Walled
  <2>2. Quotient((q - target) - 2 * Root * (-v), KpInv) = -Demand
    <3>1. (q - target) - 2 * Root * (-v) = -way
      BY <1>0
    <3> HIDE DEF way
    <3> QED BY <1>0, <1>1, <3>1, QuotientOdd
  <2>3. Clip(-Demand, -AMax, AMax) = -wanted
    <3>1. -AMax \in Int /\ AMax \in Int /\ -AMax <= AMax /\ -(-AMax) = AMax
      BY <1>0
    <3> QED BY <1>2, <3>1 DEF Clip
  <2>4. -v \in Int /\ -v \in -VMax..VMax /\ -acc \in -AMax..AMax
    BY <1>0
  <2>5. -wanted <= Brake(q - lo, -v)
    BY <2>1, <2>2, <2>3, <2>4, BrakeMonotone
  <2>6. CanStop(q - lo, -v, -acc)
    BY DEF Walled
  <2>7. -wanted \in -AMax..AMax
    <3> HIDE DEF wanted
    <3> QED BY <1>0, <1>3
  <2>8. -speed = Clip(-v + Clip(-wanted, -acc - JMax, -acc + JMax), -VMax, VMax)
    <3> HIDE DEF wanted
    <3>1. Clip(-wanted, -acc - JMax, -acc + JMax) = -limited
      BY <1>0, <1>3 DEF Clip
    <3>2. limited \in Int
      BY <1>0, <1>3, ClipType
    <3> HIDE DEF limited
    <3> QED BY <1>0, <3>1, <3>2 DEF Clip
  <2>9. CanStop((q - lo) - (-speed), -speed, (-speed) - (-v))
    <3> DEFINE next == -speed
               w == -wanted
    <3>1. next = Clip(-v + Clip(w, -acc - JMax, -acc + JMax), -VMax, VMax)
      BY <2>8
    <3> HIDE DEF next, w, speed, wanted
    <3>2. w \in -AMax..AMax /\ w <= Brake(q - lo, -v)
      BY <2>5, <2>7 DEF w
    <3>3. CanStop((q - lo) - next, next, next - (-v))
      BY <2>1, <2>4, <2>6, <3>1, <3>2, StepKeepsRoom
    <3> QED BY <3>3 DEF next
  <2> HIDE DEF speed
  <2>10. (q - lo) - (-speed) = q' - lo /\ -speed = -v' /\ (-speed) - (-v) = -acc'
    BY <1>0, <1>4, <1>5
  <2> QED BY <2>9, <2>10
<1> QED BY <1>4, <1>6, <1>7 DEF Walled

LEMMA NextKeepsWalls ==
  ASSUME GainsFit, PathInv, NEW lo \in Int, NEW hi \in Int, Walled(lo, hi),
         target' \in lo..hi, [PathNext]_pathVars
  PROVE  Walled(lo, hi)'
<1>1. CASE FilterStep
  BY <1>1, FilterKeepsWalls
<1>2. CASE Connect
  <2>1. q' \in lo..hi /\ v' = 0 /\ acc' = 0
    BY <1>2 DEF Connect
  <2> QED BY <2>1, RestBetween DEF Walled
<1>3. CASE ~FilterStep /\ ~Connect
  <2>1. UNCHANGED <<q, v, acc>>
    BY <1>3 DEF PathNext, pathVars, Start, Tick, StopTicks, Freeze, StopControl
  <2> QED BY <2>1 DEF Walled
<1> QED BY <1>1, <1>2, <1>3

LEMMA WalledCommand ==
  ASSUME PathInv, NEW lo \in Int, NEW hi \in Int, Walled(lo, hi)
  PROVE  q \in (lo - KpInv)..(hi + KpInv)
<1>1. q \in Int /\ KpInv \in Nat
  BY GainTypes DEF PathInv, PathTypeOK
<1>2. (hi - q) + KpInv >= 0 /\ (q - lo) + KpInv >= 0
  BY DEF Walled, CanStop, Room
<1> QED BY <1>1, <1>2

\* The targets never leave the hard limits, wherever they come from.
LEMMA TargetsWithinLimits ==
  ASSUME PathInv, [PathNext]_pathVars, target \in Lower..Upper
  PROVE  target' \in Lower..Upper
<1>0. Lower \in Int /\ Upper \in Int /\ Margin \in Nat /\ Lower + Margin <= Upper - Margin
  BY LimitAssumption DEF LimitAssumption
<1>1. CASE Tick
  <2>1. PICK row \in Rows, measured \in Measured : \E raw \in RawTargets(row, measured) :
          target' = ClipToJointLimits(ClampStep(Smoothed(raw), measured))
    BY <1>1 DEF Tick
  <2>2. PICK raw \in RawTargets(row, measured) :
          target' = ClipToJointLimits(ClampStep(Smoothed(raw), measured))
    BY <2>1
  <2> DEFINE x == ClampStep(Smoothed(raw), measured)
  <2>3. Clip(x, Lower + Margin, Upper - Margin) \in {Lower + Margin, Upper - Margin, x}
    BY DEF Clip
  <2>4. target' \in Int
    BY <1>1, TickTypes DEF PathInv
  <2> HIDE DEF x
  <2>5. target' = Clip(x, Lower + Margin, Upper - Margin)
    BY <2>2 DEF ClipToJointLimits, x
  <2> QED BY <1>0, <2>3, <2>4, <2>5 DEF Clip
<1>2. CASE ~Tick
  BY <1>2 DEF PathNext, pathVars, Connect, Start, StopTicks, Freeze, StopControl, FilterStep,
              Measured
<1> QED BY <1>1, <1>2

\* "Critical damping -> no overshoot by construction" (reference_filter.py), also where
\* velocity, acceleration and jerk are cut: between any walls that the targets keep to
\* the command stays too, but for the KpInv within which its demand is rounded away.
THEOREM OvershootBounded ==
  GainsFit =>
    \A lo, hi \in Int :
      PathSpec /\ [](target \in lo..hi) => [](q \in (lo - KpInv)..(hi + KpInv))
<1> SUFFICES ASSUME GainsFit, NEW CONSTANT lo \in Int, NEW CONSTANT hi \in Int
             PROVE  PathSpec /\ [](target \in lo..hi) => [](q \in (lo - KpInv)..(hi + KpInv))
  OBVIOUS
<1> DEFINE Between == target \in lo..hi
           Kept == q \in (lo - KpInv)..(hi + KpInv)
           Inv == PathInv /\ Walled(lo, hi)
<1>1. PathInit /\ Between => Inv
  <2> SUFFICES ASSUME PathInit, Between PROVE Inv
    OBVIOUS
  <2>1. q = target /\ v = 0 /\ acc = 0
    BY DEF PathInit
  <2> QED BY <2>1, PathInitial, LatchWalled
<1>2. Inv /\ Between' /\ [PathNext]_pathVars => Inv'
  BY PathInductive, NextKeepsWalls
<1>3. Inv => Kept
  BY WalledCommand
<1> HIDE DEF Between, Kept, Inv
<1>4. PathSpec /\ []Between => []Kept
  BY <1>1, <1>2, <1>3, PTL DEF PathSpec
<1> QED BY <1>4 DEF Between, Kept

\* However targets change, the command never leaves the hard limits by more than that.
THEOREM CommandNearLimits ==
  GainsFit => (PathSpec => [](q \in (Lower - KpInv)..(Upper + KpInv)))
<1> SUFFICES ASSUME GainsFit PROVE PathSpec => [](q \in (Lower - KpInv)..(Upper + KpInv))
  OBVIOUS
<1>0. Lower \in Int /\ Upper \in Int
  BY LimitAssumption DEF LimitAssumption
<1> DEFINE Kept == q \in (Lower - KpInv)..(Upper + KpInv)
           Inv == PathInv /\ Walled(Lower, Upper)
<1>1. PathInit => Inv
  <2> SUFFICES ASSUME PathInit PROVE Inv
    OBVIOUS
  <2>1. q \in Lower..Upper /\ target = q /\ v = 0 /\ acc = 0
    BY DEF PathInit
  <2> QED BY <1>0, <2>1, PathInitial, LatchWalled
<1>2. Inv /\ [PathNext]_pathVars => Inv'
  <2> SUFFICES ASSUME Inv, [PathNext]_pathVars PROVE Inv'
    OBVIOUS
  <2>1. target' \in Lower..Upper
    BY TargetsWithinLimits DEF Walled
  <2> QED BY <1>0, <2>1, PathInductive, NextKeepsWalls
<1>3. Inv => Kept
  BY <1>0, WalledCommand
<1> QED BY <1>1, <1>2, <1>3, PTL DEF PathSpec

\* ... and it stays within them if every target keeps KpInv away from them.
THEOREM CommandWithinLimits ==
  GainsFit =>
    (PathSpec /\ [](target \in (Lower + KpInv)..(Upper - KpInv)) => []WithinLimits)
<1> SUFFICES ASSUME GainsFit
             PROVE  PathSpec /\ [](target \in (Lower + KpInv)..(Upper - KpInv)) => []WithinLimits
  OBVIOUS
<1> DEFINE lo == Lower + KpInv
           hi == Upper - KpInv
           Between == target \in lo..hi
           Inv == PathInv /\ Walled(lo, hi)
<1>0. /\ lo \in Int /\ hi \in Int /\ lo - KpInv = Lower /\ hi + KpInv = Upper
  BY LimitAssumption, GainTypes DEF LimitAssumption
<1>1. PathInit /\ Between => Inv
  <2> SUFFICES ASSUME PathInit, Between PROVE Inv
    OBVIOUS
  <2>1. q = target /\ v = 0 /\ acc = 0
    BY DEF PathInit
  <2> HIDE DEF lo, hi
  <2> QED BY <1>0, <2>1, PathInitial, LatchWalled
<1>2. Inv /\ Between' /\ [PathNext]_pathVars => Inv'
  <2>1. lo' = lo /\ hi' = hi
    OBVIOUS
  <2> HIDE DEF lo, hi
  <2> QED BY <1>0, <2>1, PathInductive, NextKeepsWalls
<1>3. Inv => WithinLimits
  <2> SUFFICES ASSUME Inv PROVE WithinLimits
    OBVIOUS
  <2> HIDE DEF lo, hi
  <2>1. q \in (lo - KpInv)..(hi + KpInv)
    BY <1>0, WalledCommand
  <2> QED BY <1>0, <2>1 DEF WithinLimits
<1> HIDE DEF Between, Inv
<1>4. PathSpec /\ []Between => []WithinLimits
  BY <1>1, <1>2, <1>3, PTL DEF PathSpec
<1> QED BY <1>4 DEF Between

=============================================================================
