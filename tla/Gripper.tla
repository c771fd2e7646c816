------------------------------- MODULE Gripper -------------------------------
(***************************************************************************)
(* robot/gripper_runtime.py: the thread that turns a trigger between open  *)
(* and closed into grasp and move commands, with hysteresis and a minimum  *)
(* dwell. Triggers are counted in hundredths. The hand itself is external. *)
(***************************************************************************)
EXTENDS Integers

CONSTANTS
  Triggers,         \* values a policy's row may ask for, in either convention
  CloseAt, OpenAt,  \* thresholds of the hysteresis
  Dwell             \* min_dwell_s, in units of time

ASSUME GripperAssumption == OpenAt < CloseAt /\ Dwell \in Nat \ {0} /\ Triggers \subseteq Int

VARIABLES
  trigger,   \* _target_trigger
  closed,    \* GripperHysteresis._closed
  age,       \* now - _last_change_t, up to Dwell
  step,      \* of _loop(): "decide", "busy" in a command or a poll, "sleep", "ended"
  stopping,  \* _stop
  sent,      \* history: the last command sent
  since      \* history: the time since it was sent, up to Dwell

gripVars == <<trigger, closed, age, step, stopping, sent, since>>

-----------------------------------------------------------------------------
\* set_target() of what the adapter made of a row's gripper column.
GripperTo01(value, convention) ==
  LET v == IF convention = "-1_1" THEN (value + 100) \div 2 ELSE value
  IN  IF v < 0 THEN 0 ELSE IF v > 100 THEN 100 ELSE v

\* The trigger starts at the fingers' width, the belief at open, and the first
\* crossing is not debounced.
GripInit ==
  /\ trigger \in {0, 50, 100}
  /\ closed = FALSE
  /\ age = Dwell
  /\ step = "decide"
  /\ stopping = FALSE
  /\ sent = "none" /\ since = Dwell

SetTarget ==
  /\ \E value \in Triggers, convention \in {"0_1", "-1_1"} :
       trigger' = GripperTo01(value, convention)
  /\ UNCHANGED <<closed, age, step, stopping, sent, since>>

Dwelling == age < Dwell
\* Slip: the closing threshold itself does not close.
CloseAbove == ~Dwelling /\ ~closed /\ trigger > CloseAt

MustClose == ~Dwelling /\ ~closed /\ trigger >= CloseAt
MustOpen == ~Dwelling /\ closed /\ trigger <= OpenAt

\* Slip: the command is repeated until the dwell is over.
DecideAgain ==
  /\ step = "decide" /\ ~stopping
  /\ step' = "busy"
  /\ IF MustClose \/ MustOpen \/ Dwelling
       THEN closed' = ~closed /\ age' = 0 /\ since' = 0
              /\ sent' = (IF closed THEN "move" ELSE "grasp")
       ELSE UNCHANGED <<closed, age, sent, since>>
  /\ UNCHANGED <<trigger, stopping>>

\* decide(), and the command it asks for; the belief changes before the command has
\* succeeded.
Decide ==
  /\ step = "decide" /\ ~stopping
  /\ step' = "busy"
  /\ IF MustClose \/ MustOpen
       THEN closed' = ~closed /\ age' = 0 /\ since' = 0
              /\ sent' = (IF MustClose THEN "grasp" ELSE "move")
       ELSE UNCHANGED <<closed, age, sent, since>>
  /\ UNCHANGED <<trigger, stopping>>

\* The command and the poll of the width return, fail or raise: nothing but the
\* width, which is only read by the policy, depends on it.
Returned ==
  /\ step = "busy"
  /\ step' = "sleep"
  /\ UNCHANGED <<trigger, closed, age, stopping, sent, since>>

Wake ==
  /\ step = "sleep"
  /\ step' = "decide"
  /\ UNCHANGED <<trigger, closed, age, stopping, sent, since>>

\* stop() sets the event and joins; the thread sees it before its next decision.
StopGripper ==
  /\ ~stopping
  /\ stopping' = TRUE
  /\ UNCHANGED <<trigger, closed, age, step, sent, since>>

EndLoop ==
  /\ step = "decide" /\ stopping
  /\ step' = "ended"
  /\ UNCHANGED <<trigger, closed, age, stopping, sent, since>>

Later(t) == IF t < Dwell THEN t + 1 ELSE Dwell

\* Time passes, at the same pace for the clock and for the hand.
Pass ==
  /\ age' = Later(age) /\ since' = Later(since)
  /\ UNCHANGED <<trigger, closed, step, stopping, sent>>

Loop == Decide \/ Returned \/ Wake \/ EndLoop

GripNext == SetTarget \/ Loop \/ StopGripper \/ Pass

GripSpec == GripInit /\ [][GripNext]_gripVars

-----------------------------------------------------------------------------
\* The hand is never asked for the same stroke twice in a row, nor for two strokes
\* within the dwell, however fast the trigger flips.
NoChatter ==
  [][closed' # closed => since >= Dwell /\ sent' # sent]_gripVars

\* A trigger held at or beyond a threshold is obeyed, however long ago it was set and
\* whatever it did in between, unless the gripper is stopped.
TriggerObeyed ==
  /\ (trigger >= CloseAt) ~> (closed \/ trigger < CloseAt \/ stopping)
  /\ (trigger <= OpenAt) ~> (~closed \/ trigger > OpenAt \/ stopping)

=============================================================================
