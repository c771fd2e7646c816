----------------------------- MODULE RpcChannel -----------------------------
(***************************************************************************)
(* The channel between the app process and the robot node: the REQ socket  *)
(* of the RPC client (robot/zmq_client.py), which threads of the app share *)
(* without a lock, and the REP socket of the node's serve() loop           *)
(* (robot/robot_node.py), which may take longer than the client waits.     *)
(*                                                                         *)
(* The client has one socket at a time; a closed one matters only through  *)
(* the requests it left behind (orphans) and the threads that still hold   *)
(* it (stale).                                                             *)
(***************************************************************************)
EXTENDS Naturals

CONSTANTS
  Callers,     \* threads of the app that call the node
  Connectors,  \* those among them that call connect(): one at a time
  Calls,       \* calls in progress at once (a bound; finished ones are reused)
  None         \* no call

ASSUME NoneAssumption == None \notin Calls
ASSUME ConnectorsAssumption ==
  Connectors \subseteq Callers /\ \A c1, c2 \in Connectors : c1 = c2

VARIABLES
  req,      \* the client's REQ socket
  reply,    \* the answer that has arrived on it: to which call
  cached,   \* the client's read_only
  caller,   \* where each thread is in _call()
  call,     \* the requests
  waiting,  \* requests in the pipes of the REP socket
  serving,  \* the request serve() is executing
  mode,     \* the mode of the node's runtime
  strayed   \* history: the mode comes from a connect whose caller gave up

vars == <<req, reply, cached, caller, call, waiting, serving, mode, strayed>>

-----------------------------------------------------------------------------
Modes == {"ro", "live"}
ConnectOps == {"connect_ro", "connect_live"}
\* The other calls change neither the mode nor what the client remembers.
Ops == ConnectOps \cup {"other"}

ModeIsMethod(op) == op
ModeOf(op) == IF op = "connect_ro" THEN "ro" ELSE "live"

CallerStates == [pc    : {"idle", "send", "recv", "close", "open", "cache"},
                 call  : Calls \cup {None},
                 stale : BOOLEAN]

Requests == [op     : Ops \cup {"none"},
             orphan : BOOLEAN,
             result : {"none", "ok", "error"}]

Idle == [pc |-> "idle", call |-> None, stale |-> FALSE]
NewCall(op) == [op |-> op, orphan |-> FALSE, result |-> "none"]
Over == NewCall("none")

Init ==
  /\ req = "ready" /\ reply = None /\ cached = "ro"
  /\ caller = [c \in Callers |-> Idle]
  /\ call = [k \in Calls |-> Over]
  /\ waiting = {} /\ serving = None
  /\ mode = "none" /\ strayed = FALSE

Goto(c, pc) == caller' = [caller EXCEPT ![c].pc = pc]
Return(c) == caller' = [caller EXCEPT ![c] = Idle]
At(c, pc) == caller[c].pc = pc

-----------------------------------------------------------------------------
(* The client, _call().                                                     *)

\* Slip: connect() remembers the mode it asks for before it is answered.
BeginCached(c) ==
  /\ At(c, "idle")
  /\ \E k \in Calls, op \in Ops :
       /\ call[k].op = "none"
       /\ op \in ConnectOps => c \in Connectors
       /\ call' = [call EXCEPT ![k] = NewCall(op)]
       /\ caller' = [caller EXCEPT ![c] =
            [pc |-> "send", call |-> k, stale |-> req = "closed"]]
       /\ cached' = IF op \in ConnectOps THEN ModeOf(op) ELSE cached
  /\ UNCHANGED <<req, reply, waiting, serving, mode, strayed>>

\* A thread takes the socket the client has now, and pickles its request.
Begin(c) ==
  /\ At(c, "idle")
  /\ \E k \in Calls, op \in Ops :
       /\ call[k].op = "none"
       /\ op \in ConnectOps => c \in Connectors
       /\ call' = [call EXCEPT ![k] = NewCall(op)]
       /\ caller' = [caller EXCEPT ![c] =
            [pc |-> "send", call |-> k, stale |-> req = "closed"]]
  /\ UNCHANGED <<req, reply, cached, waiting, serving, mode, strayed>>

Send(c) ==
  /\ At(c, "send") /\ ~caller[c].stale /\ req = "ready"
  /\ req' = "awaiting"
  /\ waiting' = waiting \cup {caller[c].call}
  /\ Goto(c, "recv")
  /\ UNCHANGED <<reply, cached, call, serving, mode, strayed>>

\* The socket was closed, or another thread's call is under way on it: an error
\* that _call() does not catch.
SendRaised(c) ==
  /\ At(c, "send") /\ (caller[c].stale \/ req = "awaiting")
  /\ Return(c)
  /\ call' = [call EXCEPT ![caller[c].call] = Over]
  /\ UNCHANGED <<req, reply, cached, waiting, serving, mode, strayed>>

\* The answer: a result, for connect() to remember, or the node's error.
Recv(c) ==
  /\ At(c, "recv") /\ reply # None
  /\ req' = "ready" /\ reply' = None
  /\ IF call[caller[c].call].op \in ConnectOps /\ call[reply].result = "ok"
       THEN Goto(c, "cache") /\ UNCHANGED call
       ELSE Return(c) /\ call' = [call EXCEPT ![caller[c].call] = Over]
  /\ UNCHANGED <<cached, waiting, serving, mode, strayed>>

Cache(c) ==
  /\ At(c, "cache")
  /\ cached' = ModeOf(call[caller[c].call].op)
  /\ Return(c)
  /\ call' = [call EXCEPT ![caller[c].call] = Over]
  /\ UNCHANGED <<req, reply, waiting, serving, mode, strayed>>

\* RCVTIMEO.
TimedOut(c) ==
  /\ At(c, "recv") /\ reply = None
  /\ Goto(c, "close")
  /\ UNCHANGED <<req, reply, cached, call, waiting, serving, mode, strayed>>

\* Slips: the socket is kept and its cycle reset; the request is sent once more.
KeepSocket(c) ==
  /\ At(c, "close")
  /\ req' = "ready" /\ reply' = None
  /\ Return(c)
  /\ UNCHANGED <<cached, call, waiting, serving, mode, strayed>>

SendAgain(c) ==
  /\ At(c, "close")
  /\ waiting' = waiting \cup {caller[c].call}
  /\ Goto(c, "recv")
  /\ UNCHANGED <<req, reply, cached, call, serving, mode, strayed>>

\* close(0): an answer that came meanwhile is dropped, and so is the request if it
\* has not left (LINGER 0). Threads that took this socket hold a closed one.
Close(c) ==
  LET k == caller[c].call IN
    /\ At(c, "close")
    /\ req' = "closed" /\ reply' = None
    /\ waiting' \in {waiting, waiting \ {k}}
    /\ call' = [call EXCEPT ![k] =
         IF k \in waiting' \cup {serving} THEN [@ EXCEPT !.orphan = TRUE] ELSE Over]
    /\ caller' = [d \in Callers |->
         IF d = c THEN [pc |-> "open", call |-> None, stale |-> FALSE]
         ELSE IF At(d, "send") THEN [caller[d] EXCEPT !.stale = TRUE]
         ELSE caller[d]]
    /\ strayed' = (strayed \/ (call[k].op \in ConnectOps /\ call[k].result = "ok"))
    /\ UNCHANGED <<cached, serving, mode>>

\* Slip: no new socket.
NotReopened(c) ==
  /\ At(c, "open")
  /\ Return(c)
  /\ UNCHANGED <<req, reply, cached, call, waiting, serving, mode, strayed>>

\* _open_socket(), and the exception for the caller.
Open(c) ==
  /\ At(c, "open")
  /\ req' = "ready"
  /\ Return(c)
  /\ UNCHANGED <<reply, cached, call, waiting, serving, mode, strayed>>

-----------------------------------------------------------------------------
(* The node, serve(). Nothing orders the requests of different sockets.     *)
Take(k) ==
  /\ serving = None /\ k \in waiting
  /\ serving' = k /\ waiting' = waiting \ {k}
  /\ UNCHANGED <<req, reply, cached, caller, call, mode, strayed>>

\* The method ends, after any time; a send to a socket that was closed is dropped.
Serve(result) ==
  LET k == serving
      connected == call[k].op \in ConnectOps /\ result = "ok"
  IN
    /\ serving # None
    /\ call' = [call EXCEPT ![k] = IF @.orphan THEN Over ELSE [@ EXCEPT !.result = result]]
    /\ mode' = IF connected THEN ModeOf(call[k].op) ELSE mode
    /\ strayed' = IF connected THEN call[k].orphan ELSE strayed
    /\ reply' = IF call[k].orphan THEN reply ELSE k
    /\ serving' = None
    /\ UNCHANGED <<req, cached, caller, waiting>>

\* The process dies, with the request it executes and any that wait, and is
\* started again without a runtime.
NodeDies ==
  /\ serving' = None
  /\ waiting' \in SUBSET waiting
  /\ mode' = "none"
  /\ call' = [k \in Calls |->
       IF call[k].orphan /\ k \notin waiting' THEN Over ELSE call[k]]
  /\ UNCHANGED <<req, reply, cached, caller, strayed>>

-----------------------------------------------------------------------------
CallStep(c) ==
  \/ Send(c) \/ SendRaised(c) \/ Recv(c) \/ Cache(c) \/ TimedOut(c) \/ Close(c) \/ Open(c)

Next ==
  \/ \E c \in Callers : Begin(c) \/ CallStep(c)
  \/ \E k \in Calls : Take(k)
  \/ \E result \in {"ok", "error"} : Serve(result)
  \/ NodeDies

Spec == Init /\ [][Next]_vars

\* A call that has begun goes on, since its waits have timeouts. The node owes
\* nothing: it may be hung, or not running.
FairSpec == Spec /\ \A c \in Callers : WF_vars(CallStep(c))

-----------------------------------------------------------------------------
TypeOK ==
  /\ req \in {"ready", "awaiting", "closed"}
  /\ reply \in Calls \cup {None}
  /\ cached \in Modes
  /\ caller \in [Callers -> CallerStates]
  /\ call \in [Calls -> Requests]
  /\ waiting \subseteq Calls
  /\ serving \in Calls \cup {None}
  /\ mode \in Modes \cup {"none"}
  /\ strayed \in BOOLEAN

\* An answer is the answer to the call that waits for it, however many calls before
\* it were given up and answered late.
OwnReply ==
  \A c \in Callers : At(c, "recv") /\ reply # None => reply = caller[c].call

\* The read_only that start() consults is the mode of the node's runtime, except
\* while a connect is under way, after one that was given up and executed late, or
\* after the node process died.
CacheIsTrue ==
  \/ mode \in {"none", cached}
  \/ strayed
  \/ \E c \in Connectors : caller[c].pc # "idle"

\* A call that times out does not leave the client stuck in the middle of a cycle
\* (_call(), comment on the REQ socket), even if the node never answers again.
ClientRecovers == []<>(req = "ready")

\* The calls as CallContract sees them: in the hands of a caller, or late.
CallView == [k \in Calls |->
  [at     |-> IF call[k].op = "none" THEN "free"
              ELSE IF call[k].orphan THEN "late"
              ELSE IF call[k].result = "none" THEN "sent" ELSE "done",
   op     |-> call[k].op,
   result |-> call[k].result]]

Contract == INSTANCE CallContract WITH call <- CallView

\* At most one execution per call, and every answer from it.
KeepsCallContract == Contract!Spec

=============================================================================
