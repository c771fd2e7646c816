--------------------------- MODULE ChunkScheduler ---------------------------
(***************************************************************************)
(* The timing of control_loop.py's _run(): which row of which action chunk *)
(* is executed at which time. One chunk is executed while the next one is  *)
(* predicted in the background; the swap drops the rows that went stale.   *)
(*                                                                         *)
(* Time is counted in D units per tick of 1/fps. Only differences of clock *)
(* readings matter, so the state holds ages: how long ago the observation  *)
(* of a request was taken.                                                 *)
(***************************************************************************)
EXTENDS Integers

CONSTANTS
  D,            \* clock units per tick
  ExecHorizon,  \* LoopConfig.exec_horizon
  Leads,        \* the values of LoopConfig.lead_ticks considered
  Lens,         \* lengths of the chunks the policy server may answer
  MaxLatency,   \* bound on the time from an observation to its chunk, in units
  MaxWork,      \* bound on the time of one read of the robot, or of one tick's work
  MaxAge        \* ages are counted up to this and stay there

ASSUME TickAssumption == D \in Nat \ {0}
ASSUME HorizonAssumption == ExecHorizon \in Nat \ {0} /\ Leads \subseteq Nat
ASSUME LensAssumption == Lens \subseteq Nat \ {0} /\ Lens # {}
ASSUME BoundAssumption ==
  MaxLatency \in Nat /\ MaxWork \in Nat /\ MaxAge \in Nat /\ MaxLatency <= MaxAge

VARIABLES
  lead,     \* LoopConfig.lead_ticks of this session
  pc,       \* "first", "top", "lead" or "exec": what the policy thread does next
  len,      \* rows of the current chunk
  idx,      \* next row to execute
  chunkAge, \* now - the observation the current chunk was predicted from
  age,      \* now - t_obs
  pending,  \* the prefetch: "none", "busy" in the pool, or "done"
  due,      \* t_next - now
  fired     \* history: the row at which the pending prefetch was fired

vars == <<lead, pc, len, idx, chunkAge, age, pending, due, fired>>

-----------------------------------------------------------------------------
Least(a, b) == IF a <= b THEN a ELSE b
Most(a, b) == IF a >= b THEN a ELSE b

Horizon(n) == Least(n, ExecHorizon)

\* Python's round() of e / D: to the nearest tick, halves to the even one.
Round(e) ==
  LET q == e \div D
      r == e % D
  IN  IF 2 * r < D THEN q ELSE IF 2 * r > D THEN q + 1 ELSE q + (q % 2)

\* Slips: one row too early without the lower clamp, the row after the last, one
\* row too far.
FreshRowUnclamped(e, n) == Least(Round(e) - 1, Horizon(n) - 1)
FreshRowPastEnd(e, n) == Least(Most(Round(e), 0), Horizon(n))
FreshRowTooFar(e, n) == Least(Round(e) + 1, Horizon(n) - 1)

\* The first row of a chunk of n rows that is not stale e units after its
\* observation, or its last executable row.
FreshRow(e, n) == Least(Most(Round(e), 0), Horizon(n) - 1)

Grow(a, d) == Least(a + d, MaxAge)

\* A prefetch that runs may end as time passes, and has by MaxLatency.
PendingAt(a) == IF a >= MaxLatency THEN {"done"} ELSE {"busy", "done"}

\* d units pass for the running prefetch and the two observations.
Elapse(d) ==
  /\ age' = Grow(age, d)
  /\ chunkAge' = Grow(chunkAge, d)
  /\ pending' \in IF pending = "busy" THEN PendingAt(age + d) ELSE {pending}

Init ==
  /\ lead \in Leads
  /\ pc = "first"
  /\ len = 0 /\ idx = 0
  /\ chunkAge = 0 /\ age = 0 /\ due = 0
  /\ pending = "none" /\ fired = 0

\* The first prediction; its row 0 is executed whatever the prediction took.
First ==
  /\ pc = "first"
  /\ \E n \in Lens, d \in 0..MaxLatency :
       /\ len' = n
       /\ chunkAge' = Grow(0, d)
       /\ age' = MaxAge     \* t_obs is still 0, the clock's origin
  /\ idx' = 0 /\ due' = 0
  /\ pc' = "top"
  /\ UNCHANGED <<lead, pending, fired>>

Exhausted == idx >= Horizon(len)

\* (1) without a prefetch: predict now and wait for it.
SwapSync ==
  /\ pc = "top" /\ Exhausted /\ pending = "none"
  /\ \E n \in Lens, d \in 0..MaxLatency :
       /\ len' = n
       /\ age' = Grow(0, d) /\ chunkAge' = Grow(0, d)
       /\ idx' = FreshRow(d, n)
       /\ due' = due - d
  /\ pc' = "lead"
  /\ UNCHANGED <<lead, pending, fired>>

\* (1) with a prefetch: take its chunk, waiting for it if it still runs (n_late).
SwapPrefetched ==
  /\ pc = "top" /\ Exhausted /\ pending # "none"
  /\ \E n \in Lens, d \in 0..MaxLatency :
       /\ pending = "done" => d = 0
       /\ pending = "busy" => d > 0 /\ age + d <= MaxLatency
       /\ len' = n
       /\ age' = Grow(age, d) /\ chunkAge' = Grow(age, d)
       /\ idx' = FreshRow(Grow(age, d), n)
       /\ due' = due - d
  /\ pending' = "none"
  /\ pc' = "lead"
  /\ UNCHANGED <<lead, fired>>

KeepChunk ==
  /\ pc = "top" /\ ~Exhausted
  /\ pc' = "lead"
  /\ UNCHANGED <<lead, len, idx, chunkAge, age, pending, due, fired>>

\* (2) observe and fire the next prediction in the background.
MustFire == pending = "none" /\ lead > 0 /\ idx >= Horizon(len) - lead

Fire ==
  /\ pc = "lead" /\ MustFire
  /\ \E d \in 0..MaxWork :
       /\ age' = Grow(0, d)
       /\ chunkAge' = Grow(chunkAge, d)
       /\ pending' \in PendingAt(d)
       /\ due' = due - d
  /\ fired' = idx
  /\ pc' = "exec"
  /\ UNCHANGED <<lead, len, idx>>

NoFire ==
  /\ pc = "lead" /\ ~MustFire
  /\ pc' = "exec"
  /\ UNCHANGED <<lead, len, idx, chunkAge, age, pending, due, fired>>

\* Slips: the loop catches up every tick it is behind; it plays a row for ever.
ExecuteCatchingUp ==
  /\ pc = "exec"
  /\ \E d \in 0..MaxWork :
       LET sleep == due + D - d IN
         /\ Elapse(d + Most(sleep, 0))
         /\ due' = Least(sleep, 0)
  /\ idx' = idx + 1
  /\ pc' = "top"
  /\ UNCHANGED <<lead, len, fired>>

ExecuteSameRow ==
  /\ pc = "exec"
  /\ \E d \in 0..MaxWork :
       LET sleep == due + D - d IN
         /\ Elapse(d + Most(sleep, 0))
         /\ due' = IF sleep > 0 \/ sleep < -D THEN 0 ELSE sleep
  /\ pc' = "top"
  /\ UNCHANGED <<lead, len, idx, fired>>

\* (3) execute one row, then sleep until t_next, or give up catching up when the
\* loop is more than a tick behind.
Execute ==
  /\ pc = "exec"
  /\ \E d \in 0..MaxWork :
       LET sleep == due + D - d IN
         /\ Elapse(d + Most(sleep, 0))
         /\ due' = IF sleep > 0 \/ sleep < -D THEN 0 ELSE sleep
  /\ idx' = idx + 1
  /\ pc' = "top"
  /\ UNCHANGED <<lead, len, fired>>

Next == First \/ SwapSync \/ SwapPrefetched \/ KeepChunk \/ Fire \/ NoFire \/ Execute

Spec == Init /\ [][Next]_vars

\* Every call of the loop returns within its timeout and nothing else runs in
\* this thread, so a step that can be taken is taken.
FairSpec == Spec /\ WF_vars(Next)

-----------------------------------------------------------------------------
TypeOK ==
  /\ lead \in Leads
  /\ pc \in {"first", "top", "lead", "exec"}
  /\ len \in Lens \cup {0}
  /\ idx \in Nat
  /\ chunkAge \in 0..MaxAge
  /\ age \in 0..MaxAge
  /\ pending \in {"none", "busy", "done"}
  /\ due \in Int
  /\ fired \in Nat

\* The row that is executed exists and lies within the horizon, whatever the
\* latencies and however the length of the answers changes (chunk[idx]).
IndexInRange == pc \in {"lead", "exec"} => idx < Horizon(len)

\* How far ahead of its time a row can be executed: half a tick by rounding, and
\* two ticks because a swap measures the clock but keeps t_next, so the loop races
\* through up to two late ticks without sleeping before it resynchronises.
NeverAhead == pc = "exec" /\ chunkAge < MaxAge => 2 * (D * idx - chunkAge) <= 5 * D

\* The loop waits for a prefetch only if the server used up the lead it was given:
\* the rows left when it was fired, less the two ticks that may be raced through
\* (GUIDE, lead_ticks).
LeadTimeGiven ==
  pc = "top" /\ Exhausted /\ pending = "busy" =>
    age >= D * (Horizon(len) - fired - 2)

\* The loop keeps coming back to a chunk boundary: it never plays one chunk on and on.
KeepsReplanning == []<>(pc = "top" /\ Exhausted)

=============================================================================
