---------------------------- MODULE MCPeripherals ----------------------------
(***************************************************************************)
(* The parts around the policy thread that share no state: the client of   *)
(* the policy server, the gripper's thread, the cameras, and the           *)
(* configuration, each checked on its own while the others rest.           *)
(***************************************************************************)
EXTENDS PolicyClient, Gripper, Cameras, AppConfig

CONSTANT One  \* server thread

VARIABLE part

others == <<clientVars, gripVars, camVars, configVars>>

MCParts == <<"cameras", "request_spec", "loop">>

MCTriggers == {-100, 0, 20, 40, 60, 100}

Init ==
  /\ ClientInit /\ GripInit /\ CamInit /\ ConfigInit
  /\ part \in {"client", "gripper", "cameras", "config"}
  /\ part # "gripper" => trigger = 0

Next ==
  \/ part = "client" /\ ClientNext /\ UNCHANGED <<part, gripVars, camVars, configVars>>
  \/ part = "gripper" /\ GripNext /\ UNCHANGED <<part, clientVars, camVars, configVars>>
  \/ part = "cameras" /\ CamNext /\ UNCHANGED <<part, clientVars, gripVars, configVars>>
  \/ part = "config" /\ ConfigNext /\ UNCHANGED <<part, clientVars, gripVars, camVars>>

\* The thread of the gripper is not starved, its hand answers every command, and time
\* goes on; a camera's read returns within its timeout, and so do the calls of the
\* camera manager.
Spec ==
  /\ Init /\ [][Next]_<<part, others>>
  /\ WF_gripVars(part = "gripper" /\ Loop)
  /\ WF_gripVars(part = "gripper" /\ Pass)
  /\ WF_camVars(part = "cameras" /\ Manage)
  /\ \A w \in Workers : WF_camVars(part = "cameras" /\ Read(w))

=============================================================================
