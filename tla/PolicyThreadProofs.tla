------------------------- MODULE PolicyThreadProofs -------------------------
(***************************************************************************)
(* What the policy thread decides by itself: which row of which chunk to   *)
(* execute when (for every tick length, horizon, lead and set of chunk     *)
(* lengths), whether the joints oscillate (for every number of joints,     *)
(* window and trip count), and what an answer means (for every answer and  *)
(* posture).                                                               *)
(***************************************************************************)
EXTENDS ChunkScheduler, Watchdog, ActionFormat, Extrema, FiniteSetTheorems, TLAPS

-----------------------------------------------------------------------------
(* The row index of ChunkScheduler. *)

\* What the loop knows of the index, by where it is.
IndexInv ==
  /\ pc \in {"first", "top", "lead", "exec"}
  /\ idx \in Nat
  /\ pc # "first" => len \in Lens
  /\ pc = "top" => idx <= Horizon(len)
  /\ pc \in {"lead", "exec"} => idx < Horizon(len)

\* A chunk has an executable row.
LEMMA HorizonPositive ==
  ASSUME NEW n \in Lens
  PROVE  Horizon(n) \in Nat \ {0}
BY HorizonAssumption, LensAssumption DEF Horizon, Least

\* Rounding an age to ticks gives a whole number of ticks.
LEMMA RoundIsNat ==
  ASSUME NEW e \in Nat
  PROVE  Round(e) \in Nat
<1> DEFINE q == e \div D
           r == e % D
<1>1. q \in Nat /\ r \in Nat /\ q % 2 \in Nat
  BY TickAssumption
<1>2. Round(e) = IF 2 * r < D THEN q ELSE IF 2 * r > D THEN q + 1 ELSE q + (q % 2)
  BY DEF Round
<1> HIDE DEF q, r
<1>3. QED
  BY <1>1, <1>2

\* A swap lands on a row of the new chunk, however long the prediction took.
LEMMA FreshRowInChunk ==
  ASSUME NEW e \in Nat, NEW n \in Lens
  PROVE  FreshRow(e, n) \in Nat /\ FreshRow(e, n) < Horizon(n)
BY RoundIsNat, HorizonPositive DEF FreshRow, Least, Most

\* A saturating age stays within its bound.
LEMMA GrowInRange ==
  ASSUME NEW a \in 0..MaxAge, NEW d \in Nat
  PROVE  Grow(a, d) \in 0..MaxAge
BY BoundAssumption DEF Grow, Least

Inv == TypeOK /\ IndexInv

\* Time passing keeps the clocks typed.
LEMMA ElapseTyped ==
  ASSUME TypeOK, NEW d \in Nat, Elapse(d)
  PROVE  age' \in 0..MaxAge /\ chunkAge' \in 0..MaxAge /\ pending' \in {"none", "busy", "done"}
BY GrowInRange DEF TypeOK, Elapse, PendingAt

LEMMA InvInit == Init => Inv
BY BoundAssumption DEF Init, Inv, TypeOK, IndexInv

LEMMA InvStep == Inv /\ [Next]_vars => Inv'
<1> SUFFICES ASSUME Inv, [Next]_vars
             PROVE  Inv'
  OBVIOUS
<1> USE DEF Inv, IndexInv
<1>1. CASE First
  <2>1. PICK n \in Lens, d \in 0..MaxLatency : len' = n /\ chunkAge' = Grow(0, d)
    BY <1>1 DEF First
  <2>2. d \in Nat /\ 0 \in 0..MaxAge /\ MaxAge \in 0..MaxAge
    BY BoundAssumption
  <2>3. chunkAge' \in 0..MaxAge
    BY <2>1, <2>2, GrowInRange
  <2>4. QED
    BY <1>1, <2>1, <2>2, <2>3, HorizonPositive DEF First, TypeOK
<1>2. CASE SwapSync
  <2>1. PICK n \in Lens, d \in 0..MaxLatency :
          /\ len' = n
          /\ age' = Grow(0, d) /\ chunkAge' = Grow(0, d)
          /\ idx' = FreshRow(d, n)
          /\ due' = due - d
    BY <1>2 DEF SwapSync
  <2>2. d \in Nat /\ 0 \in 0..MaxAge
    BY BoundAssumption
  <2>3. idx' \in Nat /\ idx' < Horizon(len')
    BY <2>1, <2>2, FreshRowInChunk
  <2>4. age' \in 0..MaxAge /\ chunkAge' \in 0..MaxAge
    BY <2>1, <2>2, GrowInRange
  <2>5. QED
    BY <1>2, <2>1, <2>2, <2>3, <2>4 DEF SwapSync, TypeOK
<1>3. CASE SwapPrefetched
  <2>1. PICK n \in Lens, d \in 0..MaxLatency :
          /\ len' = n
          /\ age' = Grow(age, d) /\ chunkAge' = Grow(age, d)
          /\ idx' = FreshRow(Grow(age, d), n)
          /\ due' = due - d
    BY <1>3 DEF SwapPrefetched
  <2>2. d \in Nat
    BY BoundAssumption
  <2>3. age' \in 0..MaxAge /\ chunkAge' \in 0..MaxAge
    BY <2>1, <2>2, GrowInRange DEF TypeOK
  <2>4. idx' \in Nat /\ idx' < Horizon(len')
    BY <2>1, <2>3, FreshRowInChunk, BoundAssumption
  <2>5. QED
    BY <1>3, <2>1, <2>2, <2>3, <2>4 DEF SwapPrefetched, TypeOK
<1>4. CASE KeepChunk
  BY <1>4, HorizonPositive DEF KeepChunk, Exhausted, TypeOK
<1>5. CASE Fire
  <2>1. PICK d \in 0..MaxWork :
          /\ age' = Grow(0, d) /\ chunkAge' = Grow(chunkAge, d)
          /\ pending' \in PendingAt(d)
          /\ due' = due - d
    BY <1>5 DEF Fire
  <2>2. d \in Nat /\ 0 \in 0..MaxAge
    BY BoundAssumption
  <2>3. age' \in 0..MaxAge /\ chunkAge' \in 0..MaxAge
    BY <2>1, <2>2, GrowInRange DEF TypeOK
  <2>4. QED
    BY <1>5, <2>1, <2>2, <2>3 DEF Fire, PendingAt, TypeOK
<1>6. CASE NoFire
  BY <1>6 DEF NoFire, TypeOK
<1>7. CASE Execute
  <2>1. PICK d \in 0..MaxWork :
          LET sleep == due + D - d IN
            /\ Elapse(d + Most(sleep, 0))
            /\ due' = IF sleep > 0 \/ sleep < -D THEN 0 ELSE sleep
    BY <1>7 DEF Execute
  <2>2. d + Most(due + D - d, 0) \in Nat /\ due' \in Int
    BY <2>1, TickAssumption, BoundAssumption DEF Most, TypeOK
  <2>3. age' \in 0..MaxAge /\ chunkAge' \in 0..MaxAge /\ pending' \in {"none", "busy", "done"}
    BY <2>1, <2>2, ElapseTyped
  <2>4. QED
    BY <1>7, <2>2, <2>3, HorizonPositive DEF Execute, TypeOK
<1>8. CASE UNCHANGED vars
  BY <1>8 DEF vars, TypeOK
<1>9. QED
  BY <1>1, <1>2, <1>3, <1>4, <1>5, <1>6, <1>7, <1>8 DEF Next

\* Type correctness of ChunkScheduler (control_loop.py, _run).
THEOREM SchedulerTypeCorrect == Spec => []TypeOK
<1>1. Inv => TypeOK
  BY DEF Inv
<1>2. QED
  BY <1>1, InvInit, InvStep, PTL DEF Spec

\* The row executed exists and lies within the horizon (control_loop.py,
\* chunk[idx]), for every latency and every length of the answers.
THEOREM IndexAlwaysInRange == Spec => []IndexInRange
<1>1. Inv => IndexInRange
  BY DEF Inv, IndexInv, IndexInRange
<1>2. QED
  BY <1>1, InvInit, InvStep, PTL DEF Spec

-----------------------------------------------------------------------------
(* Pacing. *)

\* Rounding errs by half a tick at most.
LEMMA RoundHalfTick ==
  ASSUME NEW e \in Nat
  PROVE  2 * (D * Round(e)) <= 2 * e + D
<1> DEFINE q == e \div D
           r == e % D
           p == D * q
<1>1. D \in Nat \ {0} /\ q \in Nat /\ r \in Nat /\ p \in Nat /\ e = p + r /\ r < D
  BY TickAssumption
<1>2. Round(e) = IF 2 * r < D THEN q ELSE IF 2 * r > D THEN q + 1 ELSE q + (q % 2)
  BY DEF Round
<1>3. q % 2 = 0 \/ q % 2 = 1
  BY <1>1
<1>4. D * (q + 1) = p + D /\ D * (q + 0) = p
  BY <1>1
<1> HIDE DEF q, r, p
<1>5. CASE 2 * r < D
  <2>1. D * Round(e) = p
    BY <1>2, <1>5 DEF p
  <2> QED BY <1>1, <2>1
<1>6. CASE 2 * r > D
  <2>1. D * Round(e) = p + D
    BY <1>1, <1>2, <1>4, <1>6
  <2> QED BY <1>1, <1>6, <2>1
<1>7. CASE 2 * r = D
  <2>1. Round(e) = q + 0 \/ Round(e) = q + 1
    BY <1>1, <1>2, <1>3, <1>7
  <2>2. D * Round(e) = p \/ D * Round(e) = p + D
    BY <1>4, <2>1
  <2> QED BY <1>1, <1>7, <2>2
<1> QED BY <1>1, <1>5, <1>6, <1>7

\* A swap starts at most half a tick ahead of the chunk's clock.
LEMMA FreshRowHalfTick ==
  ASSUME NEW e \in Nat, NEW n \in Lens
  PROVE  2 * (D * FreshRow(e, n)) <= 2 * e + D
<1>1. FreshRow(e, n) \in Nat /\ Round(e) \in Nat /\ FreshRow(e, n) <= Round(e)
  BY RoundIsNat, FreshRowInChunk, HorizonPositive DEF FreshRow, Least, Most
<1>2. D * FreshRow(e, n) <= D * Round(e) /\ D * FreshRow(e, n) \in Nat /\ D * Round(e) \in Nat
  BY <1>1, TickAssumption
<1> QED BY <1>2, RoundHalfTick, TickAssumption

\* y units ahead of a clock that the loop follows, with t_next due units away: the loop
\* is at most c / 2 ahead, or so far ahead only of what t_next allows. One tick of work
\* keeps this, whether it sleeps, catches up or resynchronises.
Paced(y, t, c) == 2 * y <= c \/ 2 * (y - t) <= c + 4 * D

LEMMA TickPaced ==
  ASSUME NEW y \in Int, NEW t \in Int, t <= 0, NEW d \in Nat, NEW c \in Nat, Paced(y, t, c),
         NEW s, s = t + D - d, NEW u, u = IF s > 0 \/ s < -D THEN 0 ELSE s
  PROVE  u <= 0 /\ Paced(y + D - (d + Most(s, 0)), u, c)
BY TickAssumption DEF Paced, Most

\* A chunk whose clock has not saturated is followed at a pace; so is the time since a
\* prefetch was fired, as long as it runs.
PaceInv ==
  /\ due <= 0
  /\ pc = "first" => pending = "none"
  /\ pc # "first" /\ chunkAge < MaxAge => Paced(D * idx - chunkAge, due, D)
  /\ pc # "first" /\ pending = "busy" =>
       age < MaxAge /\ Paced(D * idx - D * fired - age, due, 0)

LEMMA PaceInit == Init => PaceInv
BY DEF Init, PaceInv

\* An age that has not saturated is the sum.
LEMMA GrowExact ==
  ASSUME NEW a \in 0..MaxAge, NEW d \in Nat
  PROVE  Grow(a, d) \in 0..MaxAge /\ (Grow(a, d) < MaxAge \/ a + d < MaxAge => Grow(a, d) = a + d)
BY BoundAssumption DEF Grow, Least

LEMMA SwapPaced ==
  ASSUME Inv, PaceInv, SwapSync \/ SwapPrefetched
  PROVE  PaceInv'
<1>1. PICK n \in Lens, d \in 0..MaxLatency, e \in 0..MaxAge :
        /\ idx' = FreshRow(e, n) /\ due' = due - d
        /\ chunkAge' < MaxAge => e = chunkAge'
  <2>1. CASE SwapSync
    <3>1. PICK n \in Lens, d \in 0..MaxLatency :
            idx' = FreshRow(d, n) /\ due' = due - d /\ chunkAge' = Grow(0, d)
      BY <2>1 DEF SwapSync
    <3>2. d \in 0..MaxAge /\ d \in Nat /\ 0 \in 0..MaxAge
      BY BoundAssumption
    <3>3. chunkAge' < MaxAge => d = chunkAge'
      BY <3>1, <3>2, GrowExact
    <3> QED BY <3>1, <3>2, <3>3
  <2>2. CASE SwapPrefetched
    <3>1. PICK n \in Lens, d \in 0..MaxLatency :
            idx' = FreshRow(Grow(age, d), n) /\ due' = due - d /\ chunkAge' = Grow(age, d)
      BY <2>2 DEF SwapPrefetched
    <3>2. Grow(age, d) \in 0..MaxAge
      BY GrowExact, BoundAssumption DEF Inv, TypeOK
    <3> QED BY <3>1, <3>2
  <2> QED BY <2>1, <2>2
<1>2. e \in Nat /\ d \in Nat /\ due \in Int /\ chunkAge' \in 0..MaxAge /\ MaxAge \in Nat /\ D \in Nat
  <2>1. chunkAge' \in 0..MaxAge
    BY InvStep DEF Next, Inv, TypeOK
  <2> QED BY <2>1, BoundAssumption, TickAssumption DEF Inv, TypeOK
<1>3. FreshRow(e, n) \in Nat /\ 2 * (D * FreshRow(e, n)) <= 2 * e + D
  BY <1>2, FreshRowInChunk, FreshRowHalfTick
<1>4. D * FreshRow(e, n) \in Nat
  BY <1>2, <1>3
<1>5. chunkAge' < MaxAge => 2 * (D * idx' - chunkAge') <= D
  BY <1>1, <1>2, <1>3, <1>4
<1>6. pending' = "none"
  BY DEF SwapSync, SwapPrefetched
<1>7. due' <= 0
  BY <1>1, <1>2 DEF PaceInv
<1> QED BY <1>5, <1>6, <1>7 DEF PaceInv, Paced

LEMMA FirePaced ==
  ASSUME Inv, PaceInv, Fire
  PROVE  PaceInv'
<1>1. PICK d \in 0..MaxWork :
        /\ age' = Grow(0, d) /\ chunkAge' = Grow(chunkAge, d)
        /\ pending' \in PendingAt(d) /\ due' = due - d
  BY DEF Fire
<1>2. /\ pc # "first" /\ idx' = idx /\ fired' = idx /\ pc' = "exec"
  BY DEF Fire
<1>3. /\ d \in Nat /\ due \in Int /\ due <= 0 /\ D \in Nat /\ idx \in Nat /\ 0 \in 0..MaxAge
      /\ chunkAge \in 0..MaxAge /\ MaxAge \in Nat /\ MaxLatency \in Nat /\ MaxLatency <= MaxAge
      /\ D * idx \in Nat
  BY TickAssumption, BoundAssumption DEF Inv, TypeOK, PaceInv
<1>4. chunkAge' < MaxAge => Paced(D * idx' - chunkAge', due', D)
  <2> SUFFICES ASSUME chunkAge' < MaxAge PROVE Paced(D * idx' - chunkAge', due', D)
    OBVIOUS
  <2>1. chunkAge' = chunkAge + d
    BY <1>1, <1>3, GrowExact
  <2>2. Paced(D * idx - chunkAge, due, D)
    BY <1>2, <1>3, <2>1 DEF PaceInv
  <2> QED BY <1>1, <1>2, <1>3, <2>1, <2>2 DEF Paced
<1>5. pending' = "busy" => age' < MaxAge /\ Paced(D * idx' - D * fired' - age', due', 0)
  <2> SUFFICES ASSUME pending' = "busy"
               PROVE  age' < MaxAge /\ Paced(D * idx' - D * fired' - age', due', 0)
    OBVIOUS
  <2>1. d < MaxLatency
    BY <1>1, <1>3 DEF PendingAt
  <2>2. age' = d
    BY <1>1, <1>3, <2>1, GrowExact
  <2> QED BY <1>2, <1>3, <2>1, <2>2 DEF Paced
<1> QED BY <1>1, <1>2, <1>3, <1>4, <1>5 DEF PaceInv

LEMMA ExecutePaced ==
  ASSUME Inv, PaceInv, Execute
  PROVE  PaceInv'
<1>1. PICK d \in 0..MaxWork :
        /\ Elapse(d + Most(due + D - d, 0))
        /\ due' = IF due + D - d > 0 \/ due + D - d < -D THEN 0 ELSE due + D - d
  BY DEF Execute
<1> DEFINE s == due + D - d
           w == d + Most(s, 0)
<1>2. /\ pc # "first" /\ pc' = "top" /\ idx' = idx + 1 /\ fired' = fired
  BY DEF Execute
<1>3. /\ d \in Nat /\ due \in Int /\ due <= 0 /\ D \in Nat /\ idx \in Nat /\ fired \in Nat
      /\ chunkAge \in 0..MaxAge /\ age \in 0..MaxAge
      /\ MaxAge \in Nat /\ MaxLatency \in Nat /\ MaxLatency <= MaxAge
      /\ D * idx \in Nat /\ D * fired \in Nat /\ D * (idx + 1) = D * idx + D
  BY TickAssumption, BoundAssumption DEF Inv, TypeOK, PaceInv
<1>4. w \in Nat /\ s \in Int
  BY <1>3 DEF Most
<1>5. ASSUME NEW y \in Int, NEW c \in Nat, Paced(y, due, c)
      PROVE  due' <= 0 /\ Paced(y + D - w, due', c)
  BY <1>1, <1>3, <1>5, TickPaced
<1>6. due' <= 0
  BY <1>1, <1>3
<1>7. /\ age' = Grow(age, w) /\ chunkAge' = Grow(chunkAge, w)
      /\ pending' \in IF pending = "busy" THEN PendingAt(age + w) ELSE {pending}
  BY <1>1 DEF Elapse
<1> HIDE DEF s, w
<1>8. chunkAge' < MaxAge => Paced(D * idx' - chunkAge', due', D)
  <2> SUFFICES ASSUME chunkAge' < MaxAge PROVE Paced(D * idx' - chunkAge', due', D)
    OBVIOUS
  <2>1. chunkAge' = chunkAge + w
    BY <1>3, <1>4, <1>7, GrowExact
  <2>2. Paced(D * idx - chunkAge, due, D)
    BY <1>2, <1>3, <1>4, <2>1 DEF PaceInv
  <2>3. Paced((D * idx - chunkAge) + D - w, due', D)
    BY <1>3, <1>5, <2>2
  <2>4. D * idx' - chunkAge' = (D * idx - chunkAge) + D - w
    BY <1>2, <1>3, <1>4, <2>1
  <2> QED BY <2>3, <2>4
<1>9. pending' = "busy" => age' < MaxAge /\ Paced(D * idx' - D * fired' - age', due', 0)
  <2> SUFFICES ASSUME pending' = "busy"
               PROVE  age' < MaxAge /\ Paced(D * idx' - D * fired' - age', due', 0)
    OBVIOUS
  <2>1. pending = "busy" /\ age + w < MaxLatency
    BY <1>3, <1>4, <1>7 DEF PendingAt
  <2>2. age' = age + w
    BY <1>3, <1>4, <1>7, <2>1, GrowExact
  <2>3. Paced(D * idx - D * fired - age, due, 0)
    BY <1>2, <2>1 DEF PaceInv
  <2>4. Paced((D * idx - D * fired - age) + D - w, due', 0)
    BY <1>3, <1>5, <2>3
  <2>5. D * idx' - D * fired' - age' = (D * idx - D * fired - age) + D - w
    BY <1>2, <1>3, <1>4, <2>2
  <2> QED BY <1>3, <1>4, <2>1, <2>2, <2>4, <2>5
<1> QED BY <1>2, <1>6, <1>8, <1>9 DEF PaceInv

LEMMA PaceStep == Inv /\ PaceInv /\ [Next]_vars => PaceInv'
<1> SUFFICES ASSUME Inv, PaceInv, [Next]_vars PROVE PaceInv'
  OBVIOUS
<1>1. CASE First
  <2>1. PICK d \in 0..MaxLatency : chunkAge' = Grow(0, d)
    BY <1>1 DEF First
  <2>2. /\ idx' = 0 /\ due' = 0 /\ pending' = "none" /\ pc' = "top"
    BY <1>1 DEF First, PaceInv
  <2>3. d \in Nat /\ 0 \in 0..MaxAge /\ D \in Nat /\ D * 0 = 0
    BY TickAssumption, BoundAssumption
  <2>4. chunkAge' \in Nat
    BY <2>1, <2>3, GrowExact
  <2>5. D * idx' = 0
    BY <2>2, <2>3
  <2>6. 2 * (D * idx' - chunkAge') <= D
    BY <2>3, <2>4, <2>5
  <2> QED BY <2>2, <2>6 DEF PaceInv, Paced
<1>2. CASE KeepChunk \/ NoFire
  <2>1. UNCHANGED <<idx, chunkAge, age, pending, due, fired>> /\ pc # "first" /\ pc' # "first"
    BY <1>2 DEF KeepChunk, NoFire
  <2> QED BY <2>1 DEF PaceInv, Paced
<1>3. CASE UNCHANGED vars
  BY <1>3 DEF vars, PaceInv, Paced
<1> QED BY <1>1, <1>2, <1>3, SwapPaced, FirePaced, ExecutePaced DEF Next

\* The loop is never more than two and a half ticks ahead of the rows' time, for every
\* tick, horizon, lead and latency (control_loop.py, round(), t_next).
THEOREM RowsNeverEarly == Spec => []NeverAhead
<1>1. Inv /\ PaceInv => NeverAhead
  <2> SUFFICES ASSUME Inv, PaceInv, pc = "exec", chunkAge < MaxAge
               PROVE  2 * (D * idx - chunkAge) <= 5 * D
    BY DEF NeverAhead
  <2>1. Paced(D * idx - chunkAge, due, D) /\ due <= 0
    BY DEF PaceInv
  <2>2. due \in Int /\ D \in Nat /\ chunkAge \in Nat /\ D * idx \in Nat
    BY TickAssumption, BoundAssumption DEF Inv, TypeOK
  <2> QED BY <2>1, <2>2 DEF Paced
<1> QED BY <1>1, InvInit, InvStep, PaceInit, PaceStep, PTL DEF Spec

\* A prefetch that is waited for has had the time of the rows left when it was fired,
\* less two ticks, for every tick, horizon, lead and latency (GUIDE, lead_ticks).
THEOREM LeadIsGiven == Spec => []LeadTimeGiven
<1>1. Inv /\ PaceInv => LeadTimeGiven
  <2> SUFFICES ASSUME Inv, PaceInv, pc = "top", Exhausted, pending = "busy"
               PROVE  age >= D * (Horizon(len) - fired - 2)
    BY DEF LeadTimeGiven
  <2>1. Paced(D * idx - D * fired - age, due, 0) /\ due <= 0
    BY DEF PaceInv
  <2>2. /\ due \in Int /\ D \in Nat /\ age \in Nat /\ idx \in Nat /\ fired \in Nat
        /\ D * idx \in Nat /\ D * fired \in Nat
    BY TickAssumption, BoundAssumption DEF Inv, TypeOK
  <2>3. Horizon(len) \in Nat /\ Horizon(len) <= idx
    BY HorizonPositive DEF Inv, IndexInv, Exhausted
  <2>4. D * Horizon(len) <= D * idx /\ D * Horizon(len) \in Nat
    BY <2>2, <2>3
  <2>5. D * (Horizon(len) - fired - 2) = D * Horizon(len) - D * fired - 2 * D
    BY <2>2, <2>3
  <2>6. D * idx - D * fired - age <= 2 * D
    BY <2>1, <2>2 DEF Paced
  <2> QED BY <2>2, <2>4, <2>5, <2>6
<1> QED BY <1>1, InvInit, InvStep, PaceInit, PaceStep, PTL DEF Spec

-----------------------------------------------------------------------------
(* The oscillation watchdog: sustained vibration is caught, noise around       *)
(* standstill is not. *)

\* The window h, whole samples, oldest first.
IsWindow(h) == h \in Seq([Joints -> Samples]) /\ Len(h) <= Window

LEMMA AppendedFacts ==
  ASSUME NEW h, IsWindow(h), NEW dq \in [Joints -> Samples]
  PROVE  /\ IsWindow(Appended(h, dq))
         /\ Len(Appended(h, dq)) = IF Len(h) < Window THEN Len(h) + 1 ELSE Window
         /\ Appended(h, dq)[Len(Appended(h, dq))] = dq
         /\ \A i \in 1..(Len(Appended(h, dq)) - 1) :
              Appended(h, dq)[i] = IF Len(h) < Window THEN h[i] ELSE h[i + 1]
<1>0. Window \in Nat \ {0, 1} /\ h \in Seq([Joints -> Samples]) /\ Len(h) \in Nat /\ Len(h) <= Window
  BY WindowAssumption DEF IsWindow
<1>1. CASE Len(h) < Window
  <2>1. Appended(h, dq) = Append(h, dq)
    BY <1>1 DEF Appended
  <2>2. /\ Append(h, dq) \in Seq([Joints -> Samples]) /\ Len(Append(h, dq)) = Len(h) + 1
        /\ Append(h, dq)[Len(h) + 1] = dq
        /\ \A i \in 1..Len(h) : Append(h, dq)[i] = h[i]
    BY <1>0
  <2> QED BY <1>0, <1>1, <2>1, <2>2 DEF IsWindow
<1>2. CASE Len(h) = Window
  <2> DEFINE t == Tail(h)
  <2>1. h # << >>
    BY <1>0, <1>2
  <2>2. /\ t \in Seq([Joints -> Samples]) /\ Len(t) = Window - 1
        /\ \A i \in 1..(Window - 1) : t[i] = h[i + 1]
    BY <1>0, <1>2, <2>1
  <2>3. Appended(h, dq) = Append(t, dq)
    BY <1>0, <1>2 DEF Appended
  <2> HIDE DEF t
  <2>4. /\ Append(t, dq) \in Seq([Joints -> Samples]) /\ Len(Append(t, dq)) = Window
        /\ Append(t, dq)[Window] = dq
        /\ \A i \in 1..(Window - 1) : Append(t, dq)[i] = t[i]
    BY <1>0, <2>2
  <2> QED BY <1>0, <1>2, <2>2, <2>3, <2>4 DEF IsWindow
<1> QED BY <1>0, <1>1, <1>2

\* A window in which some joint oscillates holds one of its reversals.
LEMMA ReversalSeen ==
  ASSUME NEW h, IsWindow(h), NEW j \in Joints, Oscillating(h, j)
  PROVE  \E i \in 1..(Len(h) - 1) :
           h[i][j].moving /\ h[i + 1][j].moving /\ h[i][j].sign # h[i + 1][j].sign
<1>1. Len(h) \in Nat
  BY DEF IsWindow
<1>2. IsFiniteSet(1..(Len(h) - 1))
  BY <1>1, FS_Interval
<1>3. IsFiniteSet(ValidPairs(h, j)) /\ IsFiniteSet(SignChanges(h, j))
  BY <1>2, FS_Subset DEF ValidPairs, SignChanges, Pairs
<1>4. Cardinality(ValidPairs(h, j)) \in Nat /\ Cardinality(SignChanges(h, j)) \in Nat
  BY <1>3, FS_CardinalityType
<1>5. Cardinality(SignChanges(h, j)) # 0
  BY <1>4 DEF Oscillating
<1>6. SignChanges(h, j) # {}
  BY <1>5, FS_EmptySet
<1> QED BY <1>6 DEF SignChanges, ValidPairs, Pairs, BothMoving

\* A full window in which a joint turns back at every sample oscillates.
LEMMA VibrationSeen ==
  ASSUME NEW h, IsWindow(h), Len(h) = Window, NEW j \in Joints,
         \A i \in 1..Window : h[i][j].moving,
         \A i \in 1..(Window - 1) : h[i][j].sign # h[i + 1][j].sign
  PROVE  Oscillating(h, j)
<1>0. Window \in Nat /\ Window >= 2
  BY WindowAssumption
<1>1. ValidPairs(h, j) = 1..(Window - 1)
  BY <1>0 DEF ValidPairs, Pairs, BothMoving
<1>2. SignChanges(h, j) = 1..(Window - 1)
  BY <1>1 DEF SignChanges
<1>3. Cardinality(1..(Window - 1)) = Window - 1
  BY <1>0, FS_Interval
<1> QED BY <1>0, <1>1, <1>2, <1>3 DEF Oscillating

WatchTypes ==
  /\ IsWindow(history)
  /\ trips \in Nat
  /\ alternation \in [Joints -> 0..Sustained]

\* A count of windows stands for a full window that oscillates; the loop is stopped
\* when it has reached its threshold.
TripInv ==
  /\ tripped <=> trips >= TripCount
  /\ trips > 0 => Len(history) = Window /\ \E j \in Joints : Oscillating(history, j)

\* The last alternation[j] samples of joint j turn back at every step, and all but the
\* first Window - 1 of them have been counted.
AlternationInv ==
  \A j \in Joints :
    /\ alternation[j] <= Len(history) \/ Len(history) = Window
    /\ \A i \in 1..Len(history) : i > Len(history) - alternation[j] => history[i][j].moving
    /\ \A i \in 1..(Len(history) - 1) :
         i > Len(history) - alternation[j] => history[i][j].sign # history[i + 1][j].sign
    /\ alternation[j] - (Window - 1) <= trips

WatchInv == WatchTypes /\ TripInv /\ AlternationInv

LEMMA ConstantTypes ==
  /\ Window \in Nat /\ Window >= 2 /\ TripCount \in Nat /\ TripCount >= 1
  /\ Sustained \in Nat /\ Sustained >= 2
BY WindowAssumption DEF Sustained

LEMMA FreshWatch ==
  ASSUME NEW h, h = << >>, NEW t, t = 0, NEW a, a = [j \in Joints |-> 0]
  PROVE  /\ IsWindow(h) /\ t \in Nat /\ a \in [Joints -> 0..Sustained] /\ Len(h) = 0
         /\ \A j \in Joints : a[j] = 0
<1>1. Sustained \in Nat /\ Window \in Nat
  BY ConstantTypes
<1>2. h \in Seq([Joints -> Samples]) /\ Len(h) = 0
  OBVIOUS
<1> QED BY <1>1, <1>2 DEF IsWindow

LEMMA WatchInitial == WatchInit => WatchInv
<1> SUFFICES ASSUME WatchInit PROVE WatchInv
  OBVIOUS
<1>1. history = << >> /\ trips = 0 /\ alternation = [j \in Joints |-> 0] /\ tripped = FALSE
  BY DEF WatchInit
<1>2. IsWindow(history) /\ trips \in Nat /\ alternation \in [Joints -> 0..Sustained]
      /\ Len(history) = 0 /\ \A j \in Joints : alternation[j] = 0
  BY <1>1, FreshWatch
<1>3. WatchTypes
  BY <1>2 DEF WatchTypes
<1>4. ~(trips >= TripCount) /\ ~(trips > 0)
  BY <1>1, ConstantTypes
<1>5. TripInv
  BY <1>1, <1>4, Zenon DEF TripInv
<1>6. AlternationInv
  BY <1>1, <1>2, ConstantTypes DEF AlternationInv
<1> QED BY <1>3, <1>5, <1>6 DEF WatchInv

LEMMA ResetKeepsInv == WatchReset => WatchInv'
<1> SUFFICES ASSUME WatchReset PROVE WatchInv'
  OBVIOUS
<1>1. history' = << >> /\ trips' = 0 /\ alternation' = [j \in Joints |-> 0] /\ tripped' = FALSE
  BY DEF WatchReset
<1>2. IsWindow(history') /\ trips' \in Nat /\ alternation' \in [Joints -> 0..Sustained]
      /\ Len(history') = 0 /\ \A j \in Joints : alternation'[j] = 0
  BY <1>1, FreshWatch
<1>3. WatchTypes'
  BY <1>2 DEF WatchTypes, IsWindow
<1>4. ~(trips' >= TripCount) /\ ~(trips' > 0)
  BY <1>1, ConstantTypes
<1>5. TripInv'
  BY <1>1, <1>4, Zenon DEF TripInv
<1>6. AlternationInv'
  BY <1>1, <1>2, ConstantTypes DEF AlternationInv
<1> QED BY <1>3, <1>5, <1>6 DEF WatchInv

\* One more sample: what alternated before still does, and with a reversal the new
\* sample goes on with it.
LEMMA AlternationGrows ==
  ASSUME WatchInv, NEW dq \in [Joints -> Samples], NEW j \in Joints, ~tripped
  PROVE  LET h == Appended(history, dq)
             a == Alternated(dq, j)
         IN  /\ a \in 0..Sustained
             /\ a <= Len(h) \/ Len(h) = Window
             /\ \A i \in 1..Len(h) : i > Len(h) - a => h[i][j].moving
             /\ \A i \in 1..(Len(h) - 1) : i > Len(h) - a => h[i][j].sign # h[i + 1][j].sign
             /\ a - (Window - 1) <= Counted(h)
<1> DEFINE h == Appended(history, dq)
           n == Len(history)
           b == alternation[j]
           a == Alternated(dq, j)
           turned == /\ history # << >> /\ history[n][j].moving /\ history[n][j].sign # dq[j].sign
<1>0. /\ n \in Nat /\ n <= Window /\ trips \in Nat /\ b \in 0..Sustained
      /\ Window \in Nat /\ Window >= 2 /\ TripCount \in Nat /\ TripCount >= 1
      /\ Sustained = Window + TripCount - 1
  BY ConstantTypes DEF WatchInv, WatchTypes, IsWindow, Sustained
<1>1. /\ IsWindow(h)
      /\ Len(h) = IF n < Window THEN n + 1 ELSE Window
      /\ h[Len(h)] = dq
      /\ \A i \in 1..(Len(h) - 1) : h[i] = IF n < Window THEN history[i] ELSE history[i + 1]
  BY AppendedFacts DEF WatchInv, WatchTypes
<1>2. /\ b <= n \/ n = Window
      /\ \A i \in 1..n : i > n - b => history[i][j].moving
      /\ \A i \in 1..(n - 1) : i > n - b => history[i][j].sign # history[i + 1][j].sign
      /\ b - (Window - 1) <= trips
  BY DEF WatchInv, AlternationInv
<1>3. b < Sustained
  <2>1. ~(trips >= TripCount)
    BY Zenon DEF WatchInv, TripInv
  <2> QED BY <1>0, <1>2, <2>1
<1>4. Counted(h) \in Nat
  <2>1. trips \in Nat /\ trips + 1 \in Nat /\ 0 \in Nat
    BY <1>0
  <2> QED BY <2>1, Zenon DEF Counted
<1>5. Len(h) \in Nat /\ Len(h) >= 1
  BY <1>0, <1>1
<1>6. a = IF ~dq[j].moving THEN 0 ELSE IF turned THEN b + 1 ELSE 1
  BY <1>3 DEF Alternated
<1> HIDE DEF h, a
<1>7. CASE ~dq[j].moving
  <2>1. a = 0
    BY <1>6, <1>7
  <2> QED BY <1>0, <1>4, <1>5, <2>1 DEF h, a
<1>8. CASE dq[j].moving /\ ~turned
  <2>1. a = 1
    BY <1>6, <1>8
  <2>2. \A i \in 1..Len(h) : i > Len(h) - a => i = Len(h)
    BY <1>5, <2>1
  <2> QED BY <1>0, <1>1, <1>4, <1>5, <1>8, <2>1, <2>2 DEF h, a
<1>9. CASE dq[j].moving /\ turned
  <2>1. a = b + 1
    BY <1>6, <1>9
  <2>2. n >= 1
    BY <1>9 DEF WatchInv, WatchTypes, IsWindow
  <2>3. a <= Len(h) \/ Len(h) = Window
    BY <1>0, <1>1, <1>2, <2>1
  <2>4. ASSUME NEW i \in 1..Len(h), i > Len(h) - a
        PROVE  h[i][j].moving
    <3>1. CASE i = Len(h)
      BY <1>1, <1>9, <3>1
    <3>2. CASE i < Len(h) /\ n < Window
      <4>1. h[i] = history[i] /\ i \in 1..n /\ i > n - b
        BY <1>0, <1>1, <2>1, <2>4, <3>2
      <4> QED BY <1>2, <4>1
    <3>3. CASE i < Len(h) /\ n = Window
      <4>1. h[i] = history[i + 1] /\ i + 1 \in 1..n /\ i + 1 > n - b
        BY <1>0, <1>1, <2>1, <2>4, <3>3
      <4> QED BY <1>2, <4>1
    <3> QED BY <1>0, <1>5, <3>1, <3>2, <3>3
  <2>5. ASSUME NEW i \in 1..(Len(h) - 1), i > Len(h) - a
        PROVE  h[i][j].sign # h[i + 1][j].sign
    <3>1. CASE i = Len(h) - 1
      <4>1. h[i + 1] = dq
        BY <1>1, <1>5, <3>1
      <4>2. h[i] = history[n]
        BY <1>0, <1>1, <2>2, <3>1
      <4> QED BY <1>9, <4>1, <4>2
    <3>2. CASE i < Len(h) - 1 /\ n < Window
      <4>1. h[i] = history[i] /\ h[i + 1] = history[i + 1] /\ i \in 1..(n - 1) /\ i > n - b
        BY <1>0, <1>1, <2>1, <2>5, <3>2
      <4> QED BY <1>2, <4>1
    <3>3. CASE i < Len(h) - 1 /\ n = Window
      <4>1. /\ h[i] = history[i + 1] /\ h[i + 1] = history[(i + 1) + 1]
            /\ i + 1 \in 1..(n - 1) /\ i + 1 > n - b
        BY <1>0, <1>1, <2>1, <2>5, <3>3
      <4> QED BY <1>2, <4>1
    <3> QED BY <1>0, <1>5, <3>1, <3>2, <3>3
  <2>6. a - (Window - 1) <= Counted(h)
    <3>1. CASE a <= Window - 1
      BY <1>0, <1>4, <2>1, <3>1
    <3>2. CASE a >= Window
      <4>1. Len(h) = Window
        BY <1>0, <1>1, <1>2, <2>1, <3>2
      <4>2. \A i \in 1..Window : i > Len(h) - a
        BY <1>0, <2>1, <3>2, <4>1
      <4>3. \A i \in 1..Window : h[i][j].moving
        BY <2>4, <4>1, <4>2
      <4>4. \A i \in 1..(Window - 1) : h[i][j].sign # h[i + 1][j].sign
        <5>1. \A i \in 1..(Window - 1) : i > Len(h) - a
          BY <1>0, <4>2
        <5> QED BY <2>5, <4>1, <5>1
      <4>5. Oscillating(h, j)
        BY <1>1, <4>1, <4>3, <4>4, VibrationSeen
      <4>6. ~(Len(h) < Window)
        BY <1>0, <4>1
      <4>7. Counted(h) = trips + 1
        BY <4>5, <4>6, Zenon DEF Counted
      <4> QED BY <1>0, <1>2, <2>1, <4>7
    <3> QED BY <1>0, <2>1, <3>1, <3>2
  <2>7. a \in 0..Sustained
    BY <1>0, <1>3, <2>1
  <2> QED BY <2>3, <2>4, <2>5, <2>6, <2>7 DEF h, a
<1> QED BY <1>7, <1>8, <1>9

LEMMA UpdateKeepsInv == WatchInv /\ Update => WatchInv'
<1> SUFFICES ASSUME WatchInv, Update PROVE WatchInv'
  OBVIOUS
<1>1. PICK dq \in [Joints -> Samples] :
        /\ history' = Appended(history, dq)
        /\ trips' = Counted(Appended(history, dq))
        /\ tripped' = (Len(Appended(history, dq)) = Window
                         /\ Counted(Appended(history, dq)) >= TripCount)
        /\ alternation' = [j \in Joints |-> Alternated(dq, j)]
  BY DEF Update
<1> DEFINE h == Appended(history, dq)
<1>2. IsWindow(h)
  BY AppendedFacts DEF WatchInv, WatchTypes
<1>3. Counted(h) \in Nat
  <2>1. trips \in Nat /\ trips + 1 \in Nat /\ 0 \in Nat
    BY DEF WatchInv, WatchTypes
  <2> QED BY <2>1, Zenon DEF Counted
<1>4. ~tripped
  BY DEF Update
<1>5. \A j \in Joints :
        /\ Alternated(dq, j) \in 0..Sustained
        /\ Alternated(dq, j) <= Len(h) \/ Len(h) = Window
        /\ \A i \in 1..Len(h) : i > Len(h) - Alternated(dq, j) => h[i][j].moving
        /\ \A i \in 1..(Len(h) - 1) :
             i > Len(h) - Alternated(dq, j) => h[i][j].sign # h[i + 1][j].sign
        /\ Alternated(dq, j) - (Window - 1) <= Counted(h)
  BY <1>4, AlternationGrows
<1>6. WatchTypes'
  BY <1>1, <1>2, <1>3, <1>5 DEF WatchTypes, IsWindow
<1>7. TripInv'
  <2>1. Len(h) \in Nat /\ Len(h) <= Window /\ Window \in Nat /\ TripCount \in Nat /\ TripCount >= 1
    BY <1>2, ConstantTypes DEF IsWindow
  <2>2. Counted(h) > 0 => Len(h) = Window /\ \E j \in Joints : Oscillating(h, j)
    <3>1. CASE Len(h) < Window
      <4>1. Len(history) < Window
        BY <1>2, <2>1, <3>1, AppendedFacts DEF WatchInv, WatchTypes, IsWindow
      <4>2. Len(history) # Window
        BY <4>1, <2>1
      <4>3. ~(trips > 0)
        BY <4>2, Zenon DEF WatchInv, TripInv
      <4>4. Counted(h) = trips
        BY <3>1 DEF Counted
      <4> QED BY <4>3, <4>4
    <3>2. CASE Len(h) = Window
      <4>1. ~(Len(h) < Window)
        BY <2>1, <3>2
      <4>2. CASE \E j \in Joints : Oscillating(h, j)
        BY <3>2, <4>2
      <4>3. CASE ~\E j \in Joints : Oscillating(h, j)
        <5>1. Counted(h) = 0
          BY <4>1, <4>3, Zenon DEF Counted
        <5> QED BY <5>1
      <4> QED BY <4>2, <4>3
    <3> QED BY <2>1, <3>1, <3>2
  <2>3. Counted(h) >= TripCount => Counted(h) > 0
    BY <1>3, <2>1
  <2>4. tripped' <=> Counted(h) >= TripCount
    BY <1>1, <2>2, <2>3, Zenon
  <2>5. trips' = Counted(h) /\ history' = h
    BY <1>1
  <2>6. trips' > 0 => Len(history') = Window /\ \E j \in Joints : Oscillating(history', j)
    BY <2>2, <2>5, Zenon
  <2> HIDE DEF h
  <2>7. tripped' <=> trips' >= TripCount
    BY <2>4, <2>5, Zenon
  <2> QED BY <2>6, <2>7, Zenon DEF TripInv, Oscillating, SignChanges, ValidPairs, BothMoving, Pairs
<1>8. AlternationInv'
  <2>1. \A j \in Joints : alternation'[j] = Alternated(dq, j)
    BY <1>1
  <2>2. trips' = Counted(h) /\ history' = h
    BY <1>1
  <2> HIDE DEF h
  <2> QED BY <1>5, <2>1, <2>2 DEF AlternationInv
<1> QED BY <1>6, <1>7, <1>8 DEF WatchInv

LEMMA WatchInductive == WatchInv /\ [WatchNext]_watchVars => WatchInv'
<1>1. ASSUME WatchInv, UNCHANGED watchVars PROVE WatchInv'
  <2>1. history' = history /\ trips' = trips /\ tripped' = tripped /\ alternation' = alternation
    BY <1>1 DEF watchVars
  <2>2. WatchTypes'
    BY <1>1, <2>1 DEF WatchInv, WatchTypes, IsWindow
  <2>3. tripped' <=> trips' >= TripCount
    BY <1>1, <2>1, Zenon DEF WatchInv, TripInv
  <2>4. trips' > 0 => Len(history') = Window /\ \E j \in Joints : Oscillating(history', j)
    BY <1>1, <2>1, Zenon DEF WatchInv, TripInv
  <2>5. TripInv'
    BY <2>3, <2>4, Zenon DEF TripInv, Oscillating, SignChanges, ValidPairs, BothMoving, Pairs
  <2>6. AlternationInv'
    BY <1>1, <2>1 DEF WatchInv, AlternationInv
  <2> QED BY <2>2, <2>5, <2>6 DEF WatchInv
<1> QED BY <1>1, UpdateKeepsInv, ResetKeepsInv DEF WatchNext

\* A joint that turns back at every tick stops the loop after Window + TripCount - 1
\* samples, for any number of joints, window and trip count.
THEOREM VibrationStops == WatchSpec => []OscillationCaught
<1>1. WatchInv => OscillationCaught
  <2> SUFFICES ASSUME WatchInv, NEW j \in Joints, alternation[j] >= Sustained
               PROVE  tripped
    BY DEF OscillationCaught
  <2>1. alternation[j] \in 0..Sustained /\ trips \in Nat /\ alternation[j] - (Window - 1) <= trips
    BY DEF WatchInv, WatchTypes, AlternationInv
  <2>2. trips >= TripCount
    BY <2>1, ConstantTypes DEF Sustained
  <2> QED BY <2>2, Zenon DEF WatchInv, TripInv
<1> QED BY <1>1, WatchInitial, WatchInductive, PTL DEF WatchSpec

\* The loop is only stopped with a reversal of a moving joint in the window, for any
\* number of joints, window and trip count.
THEOREM NoFalseTrip == WatchSpec => []TripNeedsReversal
<1>1. WatchInv => TripNeedsReversal
  <2> SUFFICES ASSUME WatchInv, tripped PROVE TripNeedsReversal
    BY DEF TripNeedsReversal
  <2>1. trips >= TripCount
    BY Zenon DEF WatchInv, TripInv
  <2>2. trips > 0
    BY <2>1, ConstantTypes DEF WatchInv, WatchTypes
  <2>3. Len(history) = Window /\ \E j \in Joints : Oscillating(history, j)
    BY <2>2, Zenon DEF WatchInv, TripInv
  <2>4. PICK j \in Joints : Oscillating(history, j)
    BY <2>3
  <2>5. \E i \in 1..(Window - 1) :
          /\ history[i][j].moving /\ history[i + 1][j].moving
          /\ history[i][j].sign # history[i + 1][j].sign
    BY <2>3, <2>4, ReversalSeen DEF WatchInv, WatchTypes
  <2> QED BY <2>5 DEF TripNeedsReversal
<1> QED BY <1>1, WatchInitial, WatchInductive, PTL DEF WatchSpec

-----------------------------------------------------------------------------
(* The format proposed for an answer. *)

JointKinds == {"joint_absolute", "joint_delta"}
HandKinds == {"ee_absolute", "ee_delta"}
Formats ==
  [kind : JointKinds \cup HandKinds, dim : Nat, has_gripper : BOOLEAN,
   rotation_repr : {"axis_angle", "quat", "rot6d", "none"},
   gripper_convention : {"0_1", "-1_1", "none"}, confidence : Int]

\* The formats that fit a row and do not start with a leap.
Fitting(row, posture) ==
  {f \in Formats :
     /\ MotionColumns(f) \cup GripperColumns(f) = 1..Len(row)
     /\ MotionColumns(f) \cap GripperColumns(f) = {}
     /\ f.confidence > 30 =>
          FirstMove(f, row, posture) < (IF f.kind \in JointKinds THEN CloseToCurrent ELSE 70)}

LEMMA NormType ==
  ASSUME NEW vector, vector[1] \in Int, vector[2] \in Int, vector[3] \in Int
  PROVE  Norm(vector) \in Int
<1> DEFINE square == vector[1] * vector[1] + vector[2] * vector[2] + vector[3] * vector[3]
<1>1. \A x \in Int : x * x \in Nat
  OBVIOUS
<1>2. square \in Nat
  BY <1>1
<1>3. Norm(vector) = CHOOSE r \in 0..square : r * r <= square /\ square < (r + 1) * (r + 1)
  BY DEF Norm
<1> HIDE DEF square
<1>4. PICK r \in Nat : r * r <= square /\ square < (r + 1) * (r + 1)
  BY <1>2, RootExists
<1>5. r \in 0..square
  <2>1. r <= r * r
    BY <1>4
  <2> QED BY <1>2, <1>4, <2>1
<1>6. Norm(vector) \in 0..square
  BY <1>3, <1>4, <1>5
<1> QED BY <1>2, <1>6

LEMMA DevType ==
  ASSUME NEW s, \A i \in 1..7 : s[i] \in Int, NEW t \in [1..7 -> Int]
  PROVE  MaxDev(s, t) \in Int
<1> DEFINE f == [i \in 1..7 |-> Magnitude(s[i] - t[i])]
<1>1. \A i \in 1..7 : f[i] \in Int
  <2> SUFFICES ASSUME NEW i \in 1..7 PROVE f[i] \in Int
    OBVIOUS
  <2>1. s[i] - t[i] \in Int
    OBVIOUS
  <2> QED BY <2>1 DEF Magnitude
<1>2. {Magnitude(s[i] - t[i]) : i \in DOMAIN t} = {f[i] : i \in 1..7}
  OBVIOUS
<1> HIDE DEF f
<1>3. Max({f[i] : i \in 1..7}) \in {f[i] : i \in 1..7}
  <2>1. 7 \in Nat \ {0}
    OBVIOUS
  <2> QED BY <1>1, <2>1, ExtremaOfValues
<1> QED BY <1>1, <1>2, <1>3 DEF MaxDev

LEMMA ConfidentFacts ==
  ASSUME NEW x \in Int
  PROVE  Confident(x) \in Int /\ Confident(x) = IF 30 <= x THEN x ELSE 30
<1>1. 30 \in Int
  OBVIOUS
<1>2. Max({30, x}) = IF 30 <= x THEN x ELSE 30
  BY <1>1, ExtremaOfPair
<1> QED BY <1>2 DEF Confident

\* A joint format with more than the floor confidence was judged by a small motion.
LEMMA JointScore ==
  ASSUME NEW row, \A i \in 1..7 : row[i] \in Int, NEW posture, posture.q \in [1..7 -> Int]
  PROVE  LET score == ScoreJoint(row, posture.q) IN
         /\ score[1] \in JointKinds /\ score[2] \in Int
         /\ score[2] > 30 =>
              \/ score[1] = "joint_absolute" /\ MaxDev(row, posture.q) < CloseToCurrent
              \/ score[1] = "joint_delta" /\ MaxDev(row, Zeros(7)) < CloseToCurrent
<1> DEFINE dev == MaxDev(row, posture.q)
           mag == MaxDev(row, Zeros(7))
           inRange == \A i \in 1..7 :
             row[i] \in (QLower[i] - RangeMargin)..(QUpper[i] + RangeMargin)
           near == 100 - (100 * dev) \div CloseToCurrent
           small == 100 - (100 * mag) \div SmallJoint
           score == ScoreJoint(row, posture.q)
<1>1. dev \in Int /\ mag \in Int
  <2>1. Zeros(7) \in [1..7 -> Int]
    BY DEF Zeros
  <2> QED BY <2>1, DevType
<1>2. near \in Int /\ small \in Int
  <2> HIDE DEF dev, mag
  <2>1. 100 * dev \in Int /\ 100 * mag \in Int
    BY <1>1
  <2> QED BY <2>1 DEF CloseToCurrent, SmallJoint
<1>3. Confident(near) \in Int /\ Confident(small) \in Int
  <2> HIDE DEF near, small
  <2> QED BY <1>2, ConfidentFacts
<1>4. score = CASE inRange /\ dev < CloseToCurrent -> <<"joint_absolute", Confident(near)>>
                [] ~(inRange /\ dev < CloseToCurrent) /\ mag < SmallJoint ->
                     <<"joint_delta", Confident(small)>>
                [] OTHER -> IF inRange THEN <<"joint_absolute", 10>> ELSE <<"joint_delta", 0>>
  BY DEF ScoreJoint
<1> HIDE DEF dev, mag, inRange, near, small, score
<1>5. \/ inRange /\ dev < CloseToCurrent /\ score = <<"joint_absolute", Confident(near)>>
      \/ mag < SmallJoint /\ score = <<"joint_delta", Confident(small)>>
      \/ score = <<"joint_absolute", 10>>
      \/ score = <<"joint_delta", 0>>
  BY <1>4
<1>6. mag < SmallJoint => mag < CloseToCurrent
  BY <1>1 DEF SmallJoint, CloseToCurrent
<1> QED BY <1>3, <1>5, <1>6 DEF JointKinds, dev, mag, score

\* A format of the hand with more than the floor confidence moves it less than 70 cm.
LEMMA HandScore ==
  ASSUME NEW row, \A i \in 1..3 : row[i] \in Int, NEW posture, posture.ee \in [1..3 -> Int]
  PROVE  LET score == ScoreEE(row, posture.ee) IN
         /\ score[1] \in HandKinds /\ score[2] \in Int
         /\ score[2] > 30 =>
              \/ score[1] = "ee_absolute" /\ Norm([i \in 1..3 |-> row[i] - posture.ee[i]]) < 70
              \/ score[1] = "ee_delta" /\ Norm(row) < 70
<1> DEFINE way == [i \in 1..3 |-> row[i] - posture.ee[i]]
           dev == Norm(way)
           radius == Norm(row)
           close == 100 - Min({dev, 100})
           small == 100 - (100 * radius) \div SmallPos
           score == ScoreEE(row, posture.ee)
<1>1. dev \in Int /\ radius \in Int
  <2>1. way[1] \in Int /\ way[2] \in Int /\ way[3] \in Int
    OBVIOUS
  <2> HIDE DEF way
  <2>2. dev \in Int
    BY <2>1, NormType
  <2> QED BY <2>2, NormType
<1>2. /\ close \in Int /\ small \in Int
      /\ close > 30 => dev < 70
  <2> HIDE DEF dev, radius
  <2>1. Min({dev, 100}) = IF dev <= 100 THEN dev ELSE 100
    BY <1>1, ExtremaOfPair
  <2>2. small \in Int
    <3>1. 100 * radius \in Int
      BY <1>1
    <3> QED BY <3>1 DEF SmallPos
  <2> HIDE DEF small
  <2> QED BY <1>1, <2>1, <2>2
<1>3. /\ Confident(close) \in Int /\ Confident(small) \in Int
      /\ Confident(close) > 30 => dev < 70
  <2> HIDE DEF close, small, dev
  <2> QED BY <1>2, ConfidentFacts
<1>4. score = CASE radius \in 10..95 -> <<"ee_absolute", Confident(close)>>
                [] radius < SmallPos /\ radius \notin 10..95 -> <<"ee_delta", Confident(small)>>
                [] OTHER -> <<"ee_absolute", 5>>
  BY DEF ScoreEE, Reach
<1> HIDE DEF dev, radius, close, small, score
<1>5. \/ score = <<"ee_absolute", Confident(close)>>
      \/ radius < SmallPos /\ score = <<"ee_delta", Confident(small)>>
      \/ score = <<"ee_absolute", 5>>
  BY <1>4
<1>6. radius < SmallPos => radius < 70
  BY <1>1 DEF SmallPos
<1> QED BY <1>3, <1>5, <1>6 DEF HandKinds, dev, radius, score

\* The gripper's column comes after the motion's.
LEMMA ColumnsSplit ==
  ASSUME NEW n \in Nat, NEW g \in BOOLEAN
  PROVE  LET gripper == IF g THEN {n + 1} ELSE {} IN
         /\ (1..n) \cup gripper = 1..(n + (IF g THEN 1 ELSE 0))
         /\ (1..n) \cap gripper = {}
<1>1. CASE g
  BY <1>1
<1>2. CASE ~g
  BY <1>2
<1> QED BY <1>1, <1>2

LEMMA JointFormatFits ==
  ASSUME NEW row \in Seq(Int), NEW posture, posture.q \in [1..7 -> Int],
         NEW g \in BOOLEAN, Len(row) = 7 + (IF g THEN 1 ELSE 0), NEW column
  PROVE  Format(Len(row), g, "none", ScoreJoint(row, posture.q), column) \in Fitting(row, posture)
<1> DEFINE score == ScoreJoint(row, posture.q)
           convention == IF g THEN GripperConvention(column) ELSE "none"
           f == Format(Len(row), g, "none", score, column)
<1>1. Len(row) \in Nat /\ Len(row) >= 7
  OBVIOUS
<1>2. \A i \in 1..7 : row[i] \in Int
  BY <1>1
<1>3. /\ score[1] \in JointKinds /\ score[2] \in Int
      /\ score[2] > 30 =>
           \/ score[1] = "joint_absolute" /\ MaxDev(row, posture.q) < CloseToCurrent
           \/ score[1] = "joint_delta" /\ MaxDev(row, Zeros(7)) < CloseToCurrent
  BY <1>2, JointScore
<1>4. f = [kind |-> score[1], dim |-> Len(row), has_gripper |-> g, rotation_repr |-> "none",
           gripper_convention |-> convention, confidence |-> score[2]]
  BY DEF Format
<1>5. convention \in {"0_1", "-1_1", "none"}
  BY DEF GripperConvention
<1> HIDE DEF score, convention, f
<1>6. /\ f \in Formats /\ f.kind = score[1] /\ f.dim = Len(row) /\ f.has_gripper = g
      /\ f.confidence = score[2]
  BY <1>1, <1>3, <1>4, <1>5 DEF Formats
<1>7. MotionColumns(f) = 1..7 /\ GripperColumns(f) = IF g THEN {7 + 1} ELSE {}
  BY <1>3, <1>6 DEF MotionColumns, GripperColumns, JointKinds
<1>8. /\ MotionColumns(f) \cup GripperColumns(f) = 1..Len(row)
      /\ MotionColumns(f) \cap GripperColumns(f) = {}
  <2> DEFINE n == 7
  <2>1. n \in Nat /\ Len(row) = n + (IF g THEN 1 ELSE 0)
    OBVIOUS
  <2>2. MotionColumns(f) = 1..n /\ GripperColumns(f) = IF g THEN {n + 1} ELSE {}
    BY <1>7
  <2> HIDE DEF n
  <2> QED BY <2>1, <2>2, ColumnsSplit
<1>9. f.confidence > 30 => FirstMove(f, row, posture) < CloseToCurrent
  <2>1. CASE f.kind = "joint_absolute" /\ MaxDev(row, posture.q) < CloseToCurrent
    BY <2>1 DEF FirstMove
  <2>2. CASE f.kind = "joint_delta" /\ MaxDev(row, Zeros(7)) < CloseToCurrent
    BY <2>2 DEF FirstMove
  <2> QED BY <1>3, <1>6, <2>1, <2>2
<1>10. f \in Fitting(row, posture)
  BY <1>3, <1>6, <1>8, <1>9 DEF Fitting
<1> QED BY <1>10 DEF f, score

LEMMA HandFormatFits ==
  ASSUME NEW row \in Seq(Int), NEW posture, posture.ee \in [1..3 -> Int],
         NEW g \in BOOLEAN, NEW turn \in {3, 4, 6},
         Len(row) = 3 + turn + (IF g THEN 1 ELSE 0), NEW column
  PROVE  Format(Len(row), g, RotationRepr(turn), ScoreEE(row, posture.ee), column)
           \in Fitting(row, posture)
<1> DEFINE score == ScoreEE(row, posture.ee)
           convention == IF g THEN GripperConvention(column) ELSE "none"
           repr == RotationRepr(turn)
           f == Format(Len(row), g, repr, score, column)
<1>1. Len(row) \in Nat /\ Len(row) >= 3
  OBVIOUS
<1>2. \A i \in 1..3 : row[i] \in Int
  BY <1>1
<1>3. /\ score[1] \in HandKinds /\ score[2] \in Int
      /\ score[2] > 30 =>
           \/ score[1] = "ee_absolute" /\ Norm([i \in 1..3 |-> row[i] - posture.ee[i]]) < 70
           \/ score[1] = "ee_delta" /\ Norm(row) < 70
  BY <1>2, HandScore
<1>4. f = [kind |-> score[1], dim |-> Len(row), has_gripper |-> g, rotation_repr |-> repr,
           gripper_convention |-> convention, confidence |-> score[2]]
  BY DEF Format
<1>5. convention \in {"0_1", "-1_1", "none"}
  BY DEF GripperConvention
<1>6. repr \in {"axis_angle", "quat", "rot6d"} /\ RotDim(repr) = turn
  <2>1. RotationRepr(3) = "axis_angle" /\ RotationRepr(4) = "quat" /\ RotationRepr(6) = "rot6d"
    BY DEF RotationRepr
  <2>2. RotDim("axis_angle") = 3 /\ RotDim("quat") = 4 /\ RotDim("rot6d") = 6
    BY DEF RotDim
  <2> QED BY <2>1, <2>2
<1> HIDE DEF score, convention, repr, f
<1>7. /\ f \in Formats /\ f.kind = score[1] /\ f.dim = Len(row) /\ f.has_gripper = g
      /\ f.confidence = score[2] /\ f.rotation_repr = repr
  BY <1>1, <1>3, <1>4, <1>5, <1>6 DEF Formats
<1>8. /\ MotionColumns(f) = 1..(3 + turn)
      /\ GripperColumns(f) = IF g THEN {3 + turn + 1} ELSE {}
  BY <1>3, <1>6, <1>7 DEF MotionColumns, GripperColumns, HandKinds
<1>9. /\ MotionColumns(f) \cup GripperColumns(f) = 1..Len(row)
      /\ MotionColumns(f) \cap GripperColumns(f) = {}
  <2> DEFINE n == 3 + turn
  <2>1. n \in Nat /\ Len(row) = n + (IF g THEN 1 ELSE 0)
    OBVIOUS
  <2>2. MotionColumns(f) = 1..n /\ GripperColumns(f) = IF g THEN {n + 1} ELSE {}
    BY <1>8
  <2> HIDE DEF n
  <2> QED BY <2>1, <2>2, ColumnsSplit
<1>10. f.confidence > 30 => FirstMove(f, row, posture) < 70
  <2>1. CASE f.kind = "ee_absolute" /\ Norm([i \in 1..3 |-> row[i] - posture.ee[i]]) < 70
    BY <2>1 DEF FirstMove
  <2>2. CASE f.kind = "ee_delta" /\ Norm(row) < 70
    BY <2>2 DEF FirstMove
  <2> QED BY <1>3, <1>7, <2>1, <2>2
<1>11. f \in Fitting(row, posture)
  BY <1>3, <1>7, <1>9, <1>10 DEF Fitting, HandKinds, JointKinds
<1> QED BY <1>11 DEF f, score, repr

\* Whatever format is a candidate fits the first row.
LEMMA CandidatesFit ==
  ASSUME NEW chunk \in Seq(Seq(Int)), chunk # << >>,
         NEW posture, posture.q \in [1..7 -> Int], posture.ee \in [1..3 -> Int]
  PROVE  Candidates(chunk, posture) \in Seq(Fitting(chunk[1], posture))
<1> DEFINE row == chunk[1]
           column == {chunk[t][Len(row)] : t \in DOMAIN chunk}
           S == Fitting(row, posture)
           Joint(g) ==
             IF Len(row) = 7 + (IF g THEN 1 ELSE 0)
               THEN <<Format(Len(row), g, "none", ScoreJoint(row, posture.q), column)>>
               ELSE << >>
           Pose(g, r) ==
             IF Len(row) = 3 + r + (IF g THEN 1 ELSE 0)
               THEN <<Format(Len(row), g, RotationRepr(r), ScoreEE(row, posture.ee), column)>>
               ELSE << >>
<1>0. row \in Seq(Int)
  OBVIOUS
<1>1. Candidates(chunk, posture)
        = Joint(TRUE) \o Joint(FALSE) \o Pose(TRUE, 3) \o Pose(TRUE, 4) \o Pose(TRUE, 6)
            \o Pose(FALSE, 3) \o Pose(FALSE, 4) \o Pose(FALSE, 6)
  BY DEF Candidates
<1>2. ASSUME NEW g \in BOOLEAN PROVE Joint(g) \in Seq(S)
  <2>1. CASE Len(row) = 7 + (IF g THEN 1 ELSE 0)
    <3> DEFINE f == Format(Len(row), g, "none", ScoreJoint(row, posture.q), column)
    <3>1. f \in S
      <4> HIDE DEF row, column
      <4> QED BY <1>0, <2>1, JointFormatFits
    <3>2. Joint(g) = <<f>>
      BY <2>1
    <3> HIDE DEF f, S, Joint
    <3> QED BY <3>1, <3>2
  <2>2. CASE Len(row) # 7 + (IF g THEN 1 ELSE 0)
    <3>1. Joint(g) = << >>
      BY <2>2
    <3> HIDE DEF S, Joint
    <3> QED BY <3>1
  <2> QED BY <2>1, <2>2
<1>3. ASSUME NEW g \in BOOLEAN, NEW r \in {3, 4, 6} PROVE Pose(g, r) \in Seq(S)
  <2>1. CASE Len(row) = 3 + r + (IF g THEN 1 ELSE 0)
    <3> DEFINE f == Format(Len(row), g, RotationRepr(r), ScoreEE(row, posture.ee), column)
    <3>1. f \in S
      <4> HIDE DEF row, column
      <4> QED BY <1>0, <2>1, HandFormatFits
    <3>2. Pose(g, r) = <<f>>
      BY <2>1
    <3> HIDE DEF f, S, Pose
    <3> QED BY <3>1, <3>2
  <2>2. CASE Len(row) # 3 + r + (IF g THEN 1 ELSE 0)
    <3>1. Pose(g, r) = << >>
      BY <2>2
    <3> HIDE DEF S, Pose
    <3> QED BY <3>1
  <2> QED BY <2>1, <2>2
<1> HIDE DEF S, Joint, Pose
<1>4. \A a, b \in Seq(S) : a \o b \in Seq(S)
  OBVIOUS
<1> DEFINE a1 == Joint(TRUE) \o Joint(FALSE)
           a2 == a1 \o Pose(TRUE, 3)
           a3 == a2 \o Pose(TRUE, 4)
           a4 == a3 \o Pose(TRUE, 6)
           a5 == a4 \o Pose(FALSE, 3)
           a6 == a5 \o Pose(FALSE, 4)
           a7 == a6 \o Pose(FALSE, 6)
<1>5. a1 \in Seq(S)
  BY <1>2, <1>4
<1> HIDE DEF a1
<1>6. a2 \in Seq(S)
  BY <1>3, <1>4, <1>5
<1> HIDE DEF a2
<1>7. a3 \in Seq(S)
  BY <1>3, <1>4, <1>6
<1> HIDE DEF a3
<1>8. a4 \in Seq(S)
  BY <1>3, <1>4, <1>7
<1> HIDE DEF a4
<1>9. a5 \in Seq(S)
  BY <1>3, <1>4, <1>8
<1> HIDE DEF a5
<1>10. a6 \in Seq(S)
  BY <1>3, <1>4, <1>9
<1> HIDE DEF a6
<1>11. a7 \in Seq(S)
  BY <1>3, <1>4, <1>10
<1>12. a7 = Candidates(chunk, posture)
  BY <1>1, Zenon DEF a1, a2, a3, a4, a5, a6
<1> QED BY <1>11, <1>12 DEF S

\* The most confident candidate is one of them.
LEMMA DetectionSound ==
  ASSUME NEW chunk \in Seq(Seq(Int)), chunk # << >>,
         NEW posture, posture.q \in [1..7 -> Int], posture.ee \in [1..3 -> Int]
  PROVE  LET trial == [chunk |-> chunk, posture |-> posture,
                       spec |-> DetectActionSpace(chunk, posture)]
         IN  SpecFitsRow(trial) /\ FirstMoveSmall(trial)
<1> DEFINE found == Candidates(chunk, posture)
           f == DetectActionSpace(chunk, posture)
           trial == [chunk |-> chunk, posture |-> posture, spec |-> f]
<1>1. found \in Seq(Fitting(chunk[1], posture))
  BY CandidatesFit
<1>2. CASE found = << >>
  <2>1. f = Fallback(chunk)
    BY <1>2 DEF DetectActionSpace
  <2>2. f.confidence = 0
    BY <2>1 DEF Fallback, Format
  <2>3. ~(f.confidence > 0) /\ ~(f.confidence > 30)
    BY <2>2
  <2>4. trial.spec = f
    OBVIOUS
  <2> HIDE DEF f, trial
  <2>5. SpecFitsRow(trial) /\ FirstMoveSmall(trial)
    BY <2>3, <2>4 DEF SpecFitsRow, FirstMoveSmall
  <2> QED BY <2>5 DEF f, trial
<1>3. CASE found # << >>
  <2> DEFINE n == Len(found)
             confidence == [i \in 1..n |-> found[i].confidence]
             top == Max({found[i].confidence : i \in DOMAIN found})
             best == {i \in DOMAIN found : found[i].confidence = top}
  <2>1. /\ n \in Nat \ {0} /\ DOMAIN found = 1..n
        /\ \A i \in 1..n : found[i] \in Fitting(chunk[1], posture)
    <3> DEFINE S == Fitting(chunk[1], posture)
    <3>1. found \in Seq(S) /\ found # << >>
      BY <1>1, <1>3
    <3> HIDE DEF found, S
    <3>2. n \in Nat \ {0} /\ DOMAIN found = 1..n
      BY <3>1
    <3>3. \A i \in 1..n : found[i] \in S
      BY <3>1
    <3> HIDE DEF n
    <3>4. \A i \in 1..n : found[i] \in Fitting(chunk[1], posture)
      BY <3>3 DEF S
    <3> QED BY <3>2, <3>4
  <2>2. \A i \in 1..n : confidence[i] \in Int
    <3> SUFFICES ASSUME NEW i \in 1..n PROVE found[i].confidence \in Int
      OBVIOUS
    <3>1. found[i] \in Formats
      BY <2>1 DEF Fitting
    <3> HIDE DEF found, n
    <3> QED BY <3>1 DEF Formats
  <2>3. {found[i].confidence : i \in DOMAIN found} = {confidence[i] : i \in 1..n}
    <3> HIDE DEF found
    <3> QED BY <2>1
  <2>4. top \in {confidence[i] : i \in 1..n}
    <3> HIDE DEF confidence, n, found
    <3> QED BY <2>1, <2>2, <2>3, ExtremaOfValues
  <2>5. best \subseteq Int /\ best # {} /\ \A i \in best : 1 <= i
    <3>1. PICK i \in 1..n : top = confidence[i]
      <4> HIDE DEF found, top, n, confidence
      <4> QED BY <2>4
    <3>2. i \in best
      <4> HIDE DEF found, top, n
      <4> QED BY <2>1, <3>1
    <3>3. best \subseteq 1..n
      <4> HIDE DEF found, top, n
      <4> QED BY <2>1
    <3>4. n \in Int
      <4> HIDE DEF n
      <4> QED BY <2>1
    <3> HIDE DEF best, n
    <3>5. \A j \in 1..n : j \in Int /\ 1 <= j
      BY <3>4
    <3> QED BY <3>2, <3>3, <3>5
  <2>6. Min(best) \in best
    <3> HIDE DEF best
    <3>1. 1 \in Int
      OBVIOUS
    <3> QED BY <2>5, <3>1, MinExists
  <2>7. f = found[Min(best)]
    BY <1>3 DEF DetectActionSpace
  <2>8. Min(best) \in 1..n
    <3> HIDE DEF top, found, n
    <3> QED BY <2>1, <2>6
  <2>9. f \in Fitting(chunk[1], posture)
    <3> HIDE DEF best, found, f, n
    <3> QED BY <2>1, <2>7, <2>8
  <2>10. trial.chunk = chunk /\ trial.posture = posture /\ trial.spec = f
    OBVIOUS
  <2> HIDE DEF f, trial
  <2>11. SpecFitsRow(trial)
    BY <2>9, <2>10 DEF Fitting, SpecFitsRow
  <2>12. FirstMoveSmall(trial)
    BY <2>9, <2>10 DEF Fitting, FirstMoveSmall, JointKinds
  <2> QED BY <2>11, <2>12 DEF f, trial
<1> QED BY <1>2, <1>3

\* Detection and adapter agree, for every answer and every posture: a format proposed
\* with any confidence reads columns that exist, each for one purpose, and one proposed
\* with more than the floor confidence does not start with a leap.
THEOREM ProposalsSound == FormatSpec => []ProposalSound
<1>1. FormatInit => ProposalSound
  BY DEF FormatInit, ProposalSound
<1>2. ProposalSound /\ [Detect]_trials => ProposalSound'
  <2> SUFFICES ASSUME ProposalSound, [Detect]_trials PROVE ProposalSound'
    OBVIOUS
  <2>1. CASE Detect
    <3>1. PICK chunk \in Chunks, posture \in Postures :
            trials' = {[chunk |-> chunk, posture |-> posture,
                        spec |-> DetectActionSpace(chunk, posture)]}
      BY <2>1 DEF Detect
    <3>2. /\ chunk \in Seq(Seq(Int)) /\ chunk # << >>
          /\ posture.q \in [1..7 -> Int] /\ posture.ee \in [1..3 -> Int]
      BY AnswerAssumption DEF AnswerAssumption
    <3> DEFINE trial == [chunk |-> chunk, posture |-> posture,
                         spec |-> DetectActionSpace(chunk, posture)]
    <3>3. SpecFitsRow(trial) /\ FirstMoveSmall(trial)
      BY <3>2, DetectionSound
    <3>4. trials' = {trial}
      BY <3>1
    <3> HIDE DEF trial
    <3> QED BY <3>3, <3>4 DEF ProposalSound
  <2>2. CASE UNCHANGED trials
    BY <2>2 DEF ProposalSound
  <2> QED BY <2>1, <2>2
<1> QED BY <1>1, <1>2, PTL DEF FormatSpec

=============================================================================
