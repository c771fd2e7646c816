------------------------------ MODULE MCMotion ------------------------------
(***************************************************************************)
(* The parts of a tick that do not share state, each checked on its own    *)
(* while the others rest: the format detection and its adapter, the        *)
(* oscillation watchdog, the target's way through clamps and filter, and   *)
(* the workspace fence - with one server thread that changes and saves it  *)
(* while the policy thread checks it, and with two that do at once, across *)
(* crashes.                                                                *)
(***************************************************************************)
EXTENDS ActionFormat, Watchdog, MotionPath, WorkspaceFence

CONSTANTS One, Two  \* server threads

VARIABLE part

Home == <<0, 0, 0, -157, 0, 157, 79>>
Ready == <<0, -79, 0, -236, 0, 157, 79>>

MCPostures == {[q |-> Home, ee |-> <<55, 0, 62>>], [q |-> Ready, ee |-> <<31, 0, 59>>]}

\* Rows of dim columns: near a posture's joints, or near zero, or a place for the
\* hand; the last column may be a gripper's.
Row(dim, base, x, y, g) ==
  [i \in 1..dim |-> CASE i = 1 -> base[1] + x
                      [] i = 6 /\ dim # 6 -> base[6] + y
                      [] i = dim /\ dim \notin {1, 6, 7} -> g
                      [] OTHER -> IF i <= 7 THEN base[i] ELSE 0]

Bases == {Home, Ready, Zeros(7), <<31, 0, 59, 0, 0, 0, 0>>}

MCChunks ==
  {<<Row(dim, base, x, y, g), Row(dim, base, x, y, h)>> :
     dim \in 4..11, base \in Bases, x \in {-120, -12, 4, 29, 60, 99}, y \in {-40, 0, 27, 95},
     g \in {0, 100}, h \in {-100, 3}}

MCLower == -8
MCRows == {-20, 20}

Init ==
  /\ FormatInit /\ WatchInit /\ PathInit /\ FenceInit
  /\ part \in {"format", "watchdog", "path", "saves", "checks"}
  /\ part # "path" => q = 0 /\ kind = "joint_absolute"

Next ==
  \/ part = "format" /\ trials = {} /\ Detect /\ UNCHANGED <<part, watchVars, pathVars, fenceVars>>
  \/ part = "watchdog" /\ WatchNext /\ UNCHANGED <<part, trials, pathVars, fenceVars>>
  \/ part = "path" /\ PathNext /\ UNCHANGED <<part, trials, watchVars, fenceVars>>
  \/ /\ part = "saves"
     /\ Routes(One) \/ Routes(Two) \/ Crash \/ Restart
     /\ UNCHANGED <<part, trials, watchVars, pathVars>>
  \/ /\ part = "checks"
     /\ Routes(One) \/ Check
     /\ Cardinality(promised') < MaxUnsaved
     /\ UNCHANGED <<part, trials, watchVars, pathVars>>

Spec == Init /\ [][Next]_<<part, trials, watchVars, pathVars, fenceVars>>

=============================================================================
