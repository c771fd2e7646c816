---------------------------- MODULE PolicyClient ----------------------------
(***************************************************************************)
(* schema/client.py: the session id and the sequence number that a policy  *)
(* server may demand with every request, across resets, failed requests,   *)
(* requests that arrive after the client gave them up, and bodies that     *)
(* cannot be built. One caller at a time: the /detect route, or the policy *)
(* thread that /start makes and its prefetch pool (control_loop.py).       *)
(***************************************************************************)
EXTENDS Integers, FiniteSets

CONSTANTS
  MaxSessions,  \* bound on the sessions the server opens
  MaxNumber     \* bound on the sequence number

ASSUME ClientAssumption == MaxSessions \in Nat \ {0} /\ MaxNumber \in Nat \ {0}

VARIABLES
  sessionId,  \* session_id; 0 is None
  sequence,   \* _sequence
  caller,     \* "idle"; "detect" or "start" in reset(); "once" or "run" in between predicts
  call,       \* {} or {the request under way}
  late,       \* requests given up that may still arrive
  last,       \* server: per open session the last number accepted, -1 at first
  disorder    \* history: the server got a request it has to refuse, or misses one

clientVars == <<sessionId, sequence, caller, call, late, last, disorder>>

ResetCall == [id |-> 0, number |-> -1]
Opened == DOMAIN last

ClientInit ==
  /\ sessionId = 0 /\ sequence = 0
  /\ caller = "idle"
  /\ call = {} /\ late = {}
  /\ last = [s \in {} |-> -1]
  /\ disorder = FALSE

-----------------------------------------------------------------------------
\* What the server does with a request: a reset opens a session, and within one the
\* numbers count up from 0.
Serve(request) ==
  IF request = ResetCall
    THEN /\ last' = [s \in 1..(Cardinality(Opened) + 1) |-> IF s \in Opened THEN last[s] ELSE -1]
         /\ UNCHANGED disorder
    ELSE /\ last' = [s \in Opened |-> IF s = request.id THEN request.number ELSE last[s]]
         /\ disorder' = (disorder \/ request.id \notin Opened
                           \/ request.number # last[request.id] + 1)

\* reset(), after its body is built: the number starts over before the request is
\* made.
Reset(route) ==
  /\ caller = "idle" /\ Cardinality(Opened) + Cardinality(late) < MaxSessions
  /\ caller' = route
  /\ sequence' = 0
  /\ call' = {ResetCall}
  /\ UNCHANGED <<sessionId, late, last, disorder>>

\* The body of a reset cannot be built; it may have taken a number before that.
ResetBodyFails ==
  /\ caller = "idle" /\ sequence < MaxNumber
  /\ sequence' = sequence + 1
  /\ UNCHANGED <<sessionId, caller, call, late, last, disorder>>

ResetAnswered ==
  /\ caller \in {"detect", "start"}
  /\ Serve(ResetCall)
  /\ sessionId' = Cardinality(Opened) + 1
  /\ caller' = IF caller = "detect" THEN "once" ELSE "run"
  /\ call' = {}
  /\ UNCHANGED <<sequence, late>>

\* predict(): the body takes the next number.
Predict ==
  /\ caller \in {"once", "run"} /\ call = {} /\ sequence < MaxNumber
  /\ call' = {[id |-> sessionId, number |-> sequence]}
  /\ sequence' = sequence + 1
  /\ UNCHANGED <<sessionId, caller, late, last, disorder>>

\* A source or an encoding raises before or after the number was taken: the route
\* falls back, or the policy thread ends.
PredictBodyFails ==
  /\ caller \in {"once", "run"} /\ call = {} /\ sequence < MaxNumber
  /\ sequence' \in {sequence, sequence + 1}
  /\ caller' = "idle"
  /\ UNCHANGED <<sessionId, call, late, last, disorder>>

PredictAnswered ==
  /\ caller \in {"once", "run"}
  /\ \E request \in call : Serve(request)
  /\ call' = {}
  /\ caller' = IF caller = "once" THEN "idle" ELSE "run"
  /\ UNCHANGED <<sessionId, sequence, late>>

\* Slip: a failed reset is taken for done.
CallFailsUnnoticed ==
  /\ \E request \in call :
       /\ \/ Serve(request) /\ UNCHANGED late
          \/ UNCHANGED <<last, disorder, late>>
          \/ late' = late \cup {request} /\ UNCHANGED <<last, disorder>>
  /\ call' = {}
  /\ caller' = CASE caller = "detect" -> "once" [] caller = "start" -> "run" [] OTHER -> "idle"
  /\ UNCHANGED <<sessionId, sequence>>

\* A timeout, a lost connection, an error status or an answer without actions: the
\* exception ends the route's request or the policy thread. The request was served,
\* is lost, or arrives later.
CallFails ==
  /\ \E request \in call :
       /\ \/ Serve(request) /\ UNCHANGED late
          \/ UNCHANGED <<last, disorder, late>>
          \/ late' = late \cup {request} /\ UNCHANGED <<last, disorder>>
  /\ call' = {}
  /\ caller' = "idle"
  /\ UNCHANGED <<sessionId, sequence>>

\* stop() ends the policy thread, which drops the answer of a prefetch still under way.
StopRun ==
  /\ caller = "run"
  /\ late' = late \cup call
  /\ call' = {}
  /\ caller' = "idle"
  /\ UNCHANGED <<sessionId, sequence, last, disorder>>

LateArrives ==
  /\ \E request \in late :
       Serve(request) /\ late' = late \ {request}
  /\ UNCHANGED <<sessionId, sequence, caller, call>>

ClientNext ==
  \/ \E route \in {"detect", "start"} : Reset(route)
  \/ ResetBodyFails \/ ResetAnswered
  \/ Predict \/ PredictBodyFails \/ PredictAnswered
  \/ CallFails \/ StopRun \/ LateArrives

ClientSpec == ClientInit /\ [][ClientNext]_clientVars

-----------------------------------------------------------------------------
\* A server that wants a known session and numbers without gaps never has to refuse
\* a request, whichever requests failed or arrived late: in every session it sees
\* 0, 1, 2 and so on.
NumbersInOrder == ~disorder

=============================================================================
