------------------------------ MODULE MCEstop ------------------------------
(* ControlSession with a history variable: the requests to start that were   *)
(* on their way when an E-STOP was answered.                                  *)
EXTENDS ControlSession

VARIABLE cancelled

InFlightStarts ==
  {h \in Handlers : job[h].op = "start" /\ job[h].pc \notin {"route", "mark_running"}}

EstopAnswered ==
  \E h \in Handlers : job[h].pc # "ack" /\ job'[h].pc = "ack"

HInit == Init /\ cancelled = {}

HNext ==
  /\ Next
  /\ cancelled' = {h \in cancelled : job'[h].pc # "idle"}
                    \cup IF EstopAnswered THEN InFlightStarts ELSE {}

HSpec == HInit /\ [][HNext]_<<vars, cancelled>>

\* An E-STOP at any time stops the robot: a start() that was on its way when the
\* E-STOP was answered does not end with a policy thread on a live runtime
\* (README step 6, GUIDE "E-STOP").
EstopCancelsStart ==
  \A h \in cancelled : job[h].pc = "mark_running" => node # Opened("live")

=============================================================================
