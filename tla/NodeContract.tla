---------------------------- MODULE NodeContract ----------------------------
(***************************************************************************)
(* What the robot node promises the app process: one call at a time, each  *)
(* answered with a result or an error, on one runtime that is opened,      *)
(* stopped, forgotten, or dies by itself. ControlSession is written        *)
(* against this view of the node; RobotNode implements it.                 *)
(***************************************************************************)
VARIABLES
  node,   \* the runtime: its mode and health, as in ControlSession
  call,   \* the method being executed, or "none"
  reply   \* the answer to the latest call

vars == <<node, call, reply>>

Connects == {"connect_ro", "connect_live"}
Closing == Connects \cup {"stop", "disconnect"}
Methods == Closing \cup {"get_state", "set_joint_target"}

NoRuntime == [mode |-> "none", health |-> "stopped"]
Opened(mode) == [mode |-> mode, health |-> "running"]
ModeOf(method) == IF method = "connect_ro" THEN "ro" ELSE "live"

Readable == node.mode # "none" /\ node.health # "error"

Init == node = NoRuntime /\ call = "none" /\ reply = "none"

Receive(method) ==
  /\ call = "none"
  /\ call' = method /\ reply' = "none"
  /\ UNCHANGED node

Answer(outcome) == call' = "none" /\ reply' = outcome

\* A closing call stops the runtime on its way, before it is answered.
Halt ==
  /\ call \in Closing /\ node.health = "running"
  /\ node' = [node EXCEPT !.health = "stopped"]
  /\ UNCHANGED <<call, reply>>

\* connect opens a runtime only after the previous one was stopped; when it
\* fails it leaves the stopped one behind.
Connected ==
  /\ call \in Connects /\ node.health # "running"
  /\ node' = Opened(ModeOf(call))
  /\ Answer("ok")

NotConnected ==
  /\ call \in Connects /\ node.health # "running"
  /\ Answer("raised")
  /\ UNCHANGED node

Stopped ==
  /\ call = "stop" /\ node.health # "running"
  /\ Answer("ok")
  /\ UNCHANGED node

Disconnected ==
  /\ call = "disconnect" /\ node.health # "running"
  /\ node' = NoRuntime
  /\ Answer("ok")

\* The state of a stopped runtime can still be read, and a stopped live runtime
\* still accepts targets.
StateRead ==
  /\ call = "get_state"
  /\ Answer(IF Readable THEN "ok" ELSE "raised")
  /\ UNCHANGED node

TargetSet ==
  /\ call = "set_joint_target"
  /\ Answer(IF node.mode = "live" THEN "ok" ELSE "raised")
  /\ UNCHANGED node

\* The background loop of the runtime dies.
Fault ==
  /\ node.mode # "none" /\ node.health # "error"
  /\ node' = [node EXCEPT !.health = "error"]
  /\ UNCHANGED <<call, reply>>

Next ==
  \/ \E method \in Methods : Receive(method)
  \/ Halt \/ Connected \/ NotConnected \/ Stopped \/ Disconnected
  \/ StateRead \/ TargetSet \/ Fault

\* Every call is answered, whatever the robot does.
Spec == Init /\ [][Next]_vars /\ []<>(call = "none")

=============================================================================
