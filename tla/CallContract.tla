---------------------------- MODULE CallContract ----------------------------
(***************************************************************************)
(* What a call of the robot node comes to, for the threads that make it:   *)
(* it is executed at most once, an answer comes from that execution, and a *)
(* call that was given up may still be executed, once, at any later time.  *)
(* RpcChannel implements it with sockets.                                  *)
(***************************************************************************)
CONSTANTS
  Calls,  \* calls in progress at once
  Ops     \* what they ask for

VARIABLES
  call,   \* each call: where it stands, what it asks, what its execution gave
  mode    \* the mode of the node's runtime, or "none"

vars == <<call, mode>>

FreeCall == [at |-> "free", op |-> "none", result |-> "none"]

\* The modes a successful execution leads to.
Effect(op) ==
  CASE op = "connect_ro" -> "ro" [] op = "connect_live" -> "live" [] OTHER -> mode

Init == call = [k \in Calls |-> FreeCall] /\ mode = "none"

Issue(k, op) ==
  /\ call[k] = FreeCall
  /\ call' = [call EXCEPT ![k] = [at |-> "sent", op |-> op, result |-> "none"]]
  /\ UNCHANGED mode

\* An error leaves the mode as it was. A call nobody waits for is over with this.
Execute(k, result) ==
  /\ call[k].at \in {"sent", "late"}
  /\ mode' = IF result = "ok" THEN Effect(call[k].op) ELSE mode
  /\ call' = [call EXCEPT ![k] =
       IF @.at = "late" THEN FreeCall ELSE [at |-> "done", op |-> @.op, result |-> result]]

Return(k) ==
  /\ call[k].at = "done"
  /\ call' = [call EXCEPT ![k] = FreeCall]
  /\ UNCHANGED mode

\* The caller gets an exception: the request is lost, or on its way, or executed.
GiveUp(k) ==
  /\ call[k].at \in {"sent", "done"}
  /\ \/ call' = [call EXCEPT ![k] = FreeCall]
     \/ call[k].at = "sent" /\ call' = [call EXCEPT ![k].at = "late"]
  /\ UNCHANGED mode

\* The node process dies; late calls may die with it.
Die ==
  /\ mode' = "none"
  /\ \E lost \in SUBSET {k \in Calls : call[k].at = "late"} :
       call' = [k \in Calls |-> IF k \in lost THEN FreeCall ELSE call[k]]

Next ==
  \/ \E k \in Calls, op \in Ops : Issue(k, op)
  \/ \E k \in Calls, result \in {"ok", "error"} : Execute(k, result)
  \/ \E k \in Calls : Return(k) \/ GiveUp(k)
  \/ Die

Spec == Init /\ [][Next]_vars

=============================================================================
