------------------------------ MODULE Watchdog ------------------------------
(***************************************************************************)
(* safety/watchdog.py: stops the policy loop when a measured joint         *)
(* velocity keeps changing sign. A velocity is only told apart as -1 or 1, *)
(* clearly moving backward or forward, and the noise around standstill     *)
(* that its sign is read from as well: "-0" and "+0" in the dead zone.     *)
(***************************************************************************)
EXTENDS Integers, Sequences, FiniteSets

CONSTANTS
  Joints,     \* the joints of dq
  Window,     \* window_size
  TripCount   \* trip_count_threshold

ASSUME WindowAssumption == Window \in Nat \ {0, 1} /\ TripCount \in Nat \ {0}

VARIABLES
  history,      \* _history: the last samples, oldest first
  trips,        \* _consecutive_trips
  tripped,      \* update() returned True: _run() stopped the loop
  alternation   \* history: consecutive opposite samples of each joint, up to Sustained

watchVars == <<history, trips, tripped, alternation>>

Samples == [moving : BOOLEAN, sign : {-1, 1}]

Sustained == Window + TripCount - 1

-----------------------------------------------------------------------------
\* Slip: the dead zone is ignored, as it was before 2026-07-31.
AnyPair(h, j, i) == TRUE

\* Both samples of pair i of the window are outside the dead zone.
BothMoving(h, j, i) == h[i][j].moving /\ h[i + 1][j].moving

Pairs(h) == 1..(Len(h) - 1)
ValidPairs(h, j) == {i \in Pairs(h) : BothMoving(h, j, i)}
SignChanges(h, j) == {i \in ValidPairs(h, j) : h[i][j].sign # h[i + 1][j].sign}

\* The ratio is above the threshold of one half.
Oscillating(h, j) == 2 * Cardinality(SignChanges(h, j)) > Cardinality(ValidPairs(h, j))

Appended(h, dq) ==
  IF Len(h) < Window THEN Append(h, dq) ELSE Append(Tail(h), dq)

WatchInit ==
  /\ history = << >> /\ trips = 0 /\ tripped = FALSE
  /\ alternation = [j \in Joints |-> 0]

\* start() resets the watchdog of the loop.
WatchReset ==
  /\ history' = << >> /\ trips' = 0 /\ tripped' = FALSE
  /\ alternation' = [j \in Joints |-> 0]

\* How often joint j has turned back without a break, with the sample dq.
Alternated(dq, j) ==
  LET turned == /\ history # << >>
                /\ history[Len(history)][j].moving
                /\ history[Len(history)][j].sign # dq[j].sign
      more == IF alternation[j] < Sustained THEN alternation[j] + 1 ELSE Sustained
  IN  IF ~dq[j].moving THEN 0 ELSE IF turned THEN more ELSE 1

\* The windows in a row that oscillate; one that is not full does not count.
Counted(h) ==
  IF Len(h) < Window THEN trips
    ELSE IF \E j \in Joints : Oscillating(h, j) THEN trips + 1 ELSE 0

\* Slip: one window more than the trip count.
UpdateTooLate ==
  /\ ~tripped
  /\ \E dq \in [Joints -> Samples] :
       LET h == Appended(history, dq)
       IN /\ history' = h
          /\ trips' = Counted(h)
          /\ tripped' = (Len(h) = Window /\ Counted(h) > TripCount)
          /\ alternation' = [j \in Joints |-> Alternated(dq, j)]

\* update(dq) with the velocity measured in one tick.
Update ==
  /\ ~tripped
  /\ \E dq \in [Joints -> Samples] :
       LET h == Appended(history, dq)
       IN /\ history' = h
          /\ trips' = Counted(h)
          /\ tripped' = (Len(h) = Window /\ Counted(h) >= TripCount)
          /\ alternation' = [j \in Joints |-> Alternated(dq, j)]

WatchNext == Update \/ WatchReset

WatchSpec == WatchInit /\ [][WatchNext]_watchVars

-----------------------------------------------------------------------------
\* Sustained vibration is caught: a joint that turns back at every tick has stopped
\* the loop by the time it has done so Window + TripCount - 1 times, whatever the
\* other joints do.
OscillationCaught == \A j \in Joints : alternation[j] >= Sustained => tripped

\* Noise around standstill, or motion in one direction, never stops the loop: a trip
\* has a joint that turned back, clearly moving before and after, in the window
\* judged last. (One such turn is enough when the joint barely moves otherwise.)
TripNeedsReversal ==
  tripped =>
    \E j \in Joints, i \in 1..(Window - 1) :
      /\ history[i][j].moving /\ history[i + 1][j].moving
      /\ history[i][j].sign # history[i + 1][j].sign

=============================================================================
