-------------------------- MODULE RpcChannelProofs --------------------------
(***************************************************************************)
(* For any number of threads and of calls in progress: RpcChannel is       *)
(* typed, an answer belongs to the call that waits for it, the client's    *)
(* read_only is the node's mode, and every step is one of CallContract.    *)
(***************************************************************************)
EXTENDS RpcChannel, TLAPS

\* A caller that has a call under way, and one that waits for its answer.
Holds(c) == caller[c].pc \in {"send", "recv", "close", "cache"}
Waits(c) == caller[c].pc \in {"recv", "close"}

\* The cycle of the REQ socket belongs to one thread at a time.
SocketInv ==
  /\ \A c \in Callers : Waits(c) => req = "awaiting"
  /\ \A c \in Callers : At(c, "open") => req = "closed"
  /\ \A c \in Callers : At(c, "send") /\ req = "closed" => caller[c].stale
  /\ \A c, d \in Callers :
       (Waits(c) \/ At(c, "open")) /\ (Waits(d) \/ At(d, "open")) => c = d

\* A call under way is one thread's own, and nobody gave it up.
Held ==
  \A c \in Callers : Holds(c) =>
    /\ caller[c].call \in Calls
    /\ call[caller[c].call].op \in Ops
    /\ ~call[caller[c].call].orphan
    /\ call[caller[c].call].op \in ConnectOps => c \in Connectors
Own ==
  \A c, d \in Callers :
    Holds(c) /\ Holds(d) /\ caller[c].call = caller[d].call => c = d
Stages ==
  /\ \A c \in Callers : At(c, "send") => call[caller[c].call].result = "none"
  /\ \A c \in Callers : At(c, "cache") =>
       call[caller[c].call].op \in ConnectOps /\ call[caller[c].call].result = "ok"

HoldInv == Held /\ Own /\ Stages

\* A request at the node has not been executed; somebody waits for it, or it is an
\* orphan. Orphans are at the node, and other calls in nobody's hands are over.
Owned(k) == call[k].orphan \/ \E c \in Callers : Waits(c) /\ caller[c].call = k

Queued ==
  \A k \in Calls : k \in waiting \/ k = serving =>
    call[k].op \in Ops /\ call[k].result = "none" /\ Owned(k)
Orphans == \A k \in Calls : call[k].orphan => k \in waiting \/ k = serving
Freed == \A k \in Calls : call[k].op = "none" =>
           ~call[k].orphan /\ call[k].result = "none"

NodeInv == Queued /\ Orphans /\ Freed /\ serving \notin waiting

ReplyInv ==
  reply # None =>
    call[reply].result # "none" /\ \E c \in Callers : Waits(c) /\ caller[c].call = reply

\* A connect that was executed and that its caller has not yet remembered.
Fresh(c) ==
  /\ caller[c].pc \in {"recv", "close", "cache"}
  /\ call[caller[c].call].op \in ConnectOps /\ call[caller[c].call].result = "ok"

CacheInv ==
  \/ strayed
  \/ mode = "none"
  \/ /\ \A c \in Callers : Fresh(c) => mode = ModeOf(call[caller[c].call].op)
     /\ (\A c \in Callers : ~Fresh(c)) => mode = cached

ChannelInv == TypeOK /\ SocketInv /\ HoldInv /\ NodeInv /\ ReplyInv

-----------------------------------------------------------------------------
(* Types.                                                                   *)

LEMMA NextType ==
  ASSUME ChannelInv, [Next]_vars
  PROVE  TypeOK'
<1> USE NoneAssumption
  DEF ChannelInv, TypeOK, At, CallerStates, Requests, Ops, ConnectOps, Modes, ModeOf,
      Idle, NewCall, Over
<1>1. ASSUME NEW c \in Callers, Begin(c) PROVE TypeOK'
  BY <1>1 DEF Begin
<1>2. ASSUME NEW c \in Callers, Send(c) PROVE TypeOK'
  BY <1>2 DEF Send, Goto, HoldInv, Held, Holds
<1>3. ASSUME NEW c \in Callers, SendRaised(c) PROVE TypeOK'
  BY <1>3 DEF SendRaised, Return, HoldInv, Held, Holds
<1>4. ASSUME NEW c \in Callers, Recv(c) PROVE TypeOK'
  <2>1. caller[c].call \in Calls
    BY <1>4 DEF Recv, HoldInv, Held, Holds
  <2>2. \/ caller' = [caller EXCEPT ![c].pc = "cache"]
        \/ caller' = [caller EXCEPT ![c] = Idle]
    BY <1>4 DEF Recv, Goto, Return
  <2>3. call' = call \/ call' = [call EXCEPT ![caller[c].call] = Over]
    BY <1>4 DEF Recv
  <2>4. Over \in Requests
    OBVIOUS
  <2>5. call' \in [Calls -> Requests]
    BY <2>1, <2>3, <2>4
  <2>6. caller' \in [Callers -> CallerStates]
    <3>1. Idle \in CallerStates /\ caller[c] \in CallerStates
      OBVIOUS
    <3>2. [caller[c] EXCEPT !.pc = "cache"] \in CallerStates
      BY <3>1
    <3>3. QED
      BY <2>2, <3>1, <3>2
  <2>7. QED
    BY <1>4, <2>5, <2>6 DEF Recv
<1>5. ASSUME NEW c \in Callers, Cache(c) PROVE TypeOK'
  BY <1>5 DEF Cache, Return, HoldInv, Held, Holds
<1>6. ASSUME NEW c \in Callers, TimedOut(c) PROVE TypeOK'
  BY <1>6 DEF TimedOut, Goto
<1>7. ASSUME NEW c \in Callers, Close(c) PROVE TypeOK'
  <2>1. caller[c].call \in Calls
    BY <1>7 DEF Close, HoldInv, Held, Holds
  <2>2. caller' \in [Callers -> CallerStates]
    BY <1>7 DEF Close
  <2>3. call' \in [Calls -> Requests]
    BY <1>7, <2>1 DEF Close
  <2>4. QED
    BY <1>7, <2>2, <2>3 DEF Close
<1>8. ASSUME NEW c \in Callers, Open(c) PROVE TypeOK'
  BY <1>8 DEF Open, Return
<1>9. ASSUME NEW k \in Calls, Take(k) PROVE TypeOK'
  BY <1>9 DEF Take
<1>10. ASSUME NEW result \in {"ok", "error"}, Serve(result) PROVE TypeOK'
  BY <1>10 DEF Serve
<1>11. ASSUME NodeDies PROVE TypeOK'
  BY <1>11 DEF NodeDies
<1>12. CASE UNCHANGED vars
  BY <1>12 DEF vars
<1>13. QED
  BY <1>1, <1>2, <1>3, <1>4, <1>5, <1>6, <1>7, <1>8, <1>9, <1>10, <1>11, <1>12 DEF Next, CallStep

(* The cycle of the socket.                                                 *)

LEMMA NextSocket ==
  ASSUME ChannelInv, TypeOK', [Next]_vars
  PROVE  SocketInv'
<1> USE DEF ChannelInv, SocketInv, TypeOK, CallerStates, At, Waits, Idle
<1>1. ASSUME NEW c \in Callers, Begin(c) PROVE SocketInv'
  <2>1. PICK k \in Calls, op \in Ops :
          /\ call[k].op = "none" /\ (op \in ConnectOps => c \in Connectors)
          /\ call' = [call EXCEPT ![k] = NewCall(op)]
          /\ caller' = [caller EXCEPT ![c] =
               [pc |-> "send", call |-> k, stale |-> req = "closed"]]
    BY <1>1 DEF Begin
  <2>2. caller'[c].pc = "send" /\ (req = "closed" => caller'[c].stale)
    BY <2>1
  <2>3. \A d \in Callers : d # c => caller'[d] = caller[d]
    BY <2>1
  <2>4. QED
    BY <1>1, <2>2, <2>3 DEF Begin
<1>2. ASSUME NEW c \in Callers, Send(c) PROVE SocketInv'
  BY <1>2 DEF Send, Goto
<1>3. ASSUME NEW c \in Callers, SendRaised(c) PROVE SocketInv'
  BY <1>3 DEF SendRaised, Return
<1>4. ASSUME NEW c \in Callers, Recv(c) PROVE SocketInv'
  BY <1>4 DEF Recv, Goto, Return
<1>5. ASSUME NEW c \in Callers, Cache(c) PROVE SocketInv'
  BY <1>5 DEF Cache, Return
<1>6. ASSUME NEW c \in Callers, TimedOut(c) PROVE SocketInv'
  BY <1>6 DEF TimedOut, Goto
<1>7. ASSUME NEW c \in Callers, Close(c) PROVE SocketInv'
  BY <1>7 DEF Close
<1>8. ASSUME NEW c \in Callers, Open(c) PROVE SocketInv'
  BY <1>8 DEF Open, Return
<1>9. ASSUME NEW k \in Calls, Take(k) PROVE SocketInv'
  BY <1>9 DEF Take
<1>10. ASSUME NEW result \in {"ok", "error"}, Serve(result) PROVE SocketInv'
  BY <1>10 DEF Serve
<1>11. ASSUME NodeDies PROVE SocketInv'
  BY <1>11 DEF NodeDies
<1>12. CASE UNCHANGED vars
  BY <1>12 DEF vars
<1>13. QED
  BY <1>1, <1>2, <1>3, <1>4, <1>5, <1>6, <1>7, <1>8, <1>9, <1>10, <1>11, <1>12 DEF Next, CallStep

(* Calls in the hands of their callers.                                     *)

LEMMA NextHold ==
  ASSUME ChannelInv, TypeOK', [Next]_vars
  PROVE  HoldInv'
<1> USE NoneAssumption, ConnectorsAssumption
  DEF ChannelInv, HoldInv, Held, Own, Stages, SocketInv, TypeOK, CallerStates, Requests,
      At, Holds, Idle, Ops, NewCall, Over
<1>1. ASSUME NEW c \in Callers, Begin(c) PROVE HoldInv'
  <2>1. PICK k \in Calls, op \in Ops :
          /\ call[k].op = "none" /\ (op \in ConnectOps => c \in Connectors)
          /\ call' = [call EXCEPT ![k] = NewCall(op)]
          /\ caller' = [caller EXCEPT ![c] =
               [pc |-> "send", call |-> k, stale |-> req = "closed"]]
    BY <1>1 DEF Begin
  <2>2. caller'[c].pc = "send" /\ caller'[c].call = k /\ call'[k] = NewCall(op)
    BY <2>1
  <2>3. \A d \in Callers : d # c => caller'[d] = caller[d]
    BY <2>1
  <2>4. \A j \in Calls : j # k => call'[j] = call[j]
    BY <2>1
  <2>5. \A d \in Callers : Holds(d) => caller[d].call # k
    BY <2>1 DEF HoldInv, Held, Holds, Ops, ConnectOps
  <2>6. Held'
    BY <2>1, <2>2, <2>3, <2>4, <2>5
  <2>7. Own'
    BY <2>2, <2>3, <2>5
  <2>8. Stages'
    BY <2>1, <2>2, <2>3, <2>4, <2>5
  <2>9. QED
    BY <2>6, <2>7, <2>8
<1>2. ASSUME NEW c \in Callers, Send(c) PROVE HoldInv'
  BY <1>2 DEF Send, Goto
<1>3. ASSUME NEW c \in Callers, SendRaised(c) PROVE HoldInv'
  BY <1>3 DEF SendRaised, Return
<1>4. ASSUME NEW c \in Callers, Recv(c) PROVE HoldInv'
  <2>1. caller[c].call \in Calls /\ reply = caller[c].call
    BY <1>4 DEF Recv, HoldInv, Held, Holds, ReplyInv, Waits
  <2>2. CASE call[caller[c].call].op \in ConnectOps /\ call[reply].result = "ok"
    <3>1. /\ call' = call
          /\ caller' = [caller EXCEPT ![c].pc = "cache"]
      BY <1>4, <2>1, <2>2 DEF Recv, Goto
    <3>2. Holds(c) /\ \A d \in Callers : Holds(d)' => Holds(d) /\ caller'[d].call = caller[d].call
      BY <1>4, <3>1 DEF Recv
    <3>3. Held' /\ Own'
      BY <3>1, <3>2
    <3>4. Stages'
      BY <2>1, <2>2, <3>1
    <3>5. QED
      BY <3>3, <3>4
  <2>3. CASE ~(call[caller[c].call].op \in ConnectOps /\ call[reply].result = "ok")
    <3>1. /\ call' = [call EXCEPT ![caller[c].call] = Over]
          /\ caller' = [caller EXCEPT ![c] = Idle]
      BY <1>4, <2>1, <2>3 DEF Recv, Return
    <3>2. \A d \in Callers : Holds(d)' =>
            Holds(d) /\ caller'[d] = caller[d] /\ caller[d].call # caller[c].call
      BY <1>4, <3>1 DEF Recv
    <3>3. Held' /\ Own'
      BY <3>1, <3>2
    <3>4. Stages'
      BY <3>1, <3>2
    <3>5. QED
      BY <3>3, <3>4
  <2>4. QED
    BY <2>2, <2>3
<1>5. ASSUME NEW c \in Callers, Cache(c) PROVE HoldInv'
  BY <1>5 DEF Cache, Return
<1>6. ASSUME NEW c \in Callers, TimedOut(c) PROVE HoldInv'
  BY <1>6 DEF TimedOut, Goto
<1>7. ASSUME NEW c \in Callers, Close(c) PROVE HoldInv'
  BY <1>7 DEF Close
<1>8. ASSUME NEW c \in Callers, Open(c) PROVE HoldInv'
  BY <1>8 DEF Open, Return
<1>9. ASSUME NEW k \in Calls, Take(k) PROVE HoldInv'
  BY <1>9 DEF Take
<1>10. ASSUME NEW result \in {"ok", "error"}, Serve(result) PROVE HoldInv'
  <2>1. \A d \in Callers : Holds(d) => call[caller[d].call].orphan = FALSE
    BY DEF HoldInv, Held
  <2>2. \A d \in Callers : Holds(d) =>
           /\ call'[caller[d].call].op = call[caller[d].call].op
           /\ ~call'[caller[d].call].orphan
           /\ caller[d].call # serving => call'[caller[d].call] = call[caller[d].call]
    BY <1>10, <2>1 DEF Serve
  <2>3. \A d \in Callers : ~Waits(d) /\ Holds(d) => caller[d].call # serving
    BY <1>10, <2>1 DEF Serve, NodeInv, Queued, Owned, Waits
  <2>4. QED
    BY <1>10, <2>2, <2>3 DEF Serve, Waits
<1>11. ASSUME NodeDies PROVE HoldInv'
  BY <1>11 DEF NodeDies
<1>12. CASE UNCHANGED vars
  BY <1>12 DEF vars
<1>13. QED
  BY <1>1, <1>2, <1>3, <1>4, <1>5, <1>6, <1>7, <1>8, <1>9, <1>10, <1>11, <1>12 DEF Next, CallStep

(* Requests at the node.                                                    *)

LEMMA NextNode ==
  ASSUME ChannelInv, TypeOK', HoldInv', [Next]_vars
  PROVE  NodeInv'
<1> USE NoneAssumption
  DEF ChannelInv, NodeInv, Queued, Orphans, Freed, Owned, HoldInv, Held, Own, Stages,
      SocketInv, TypeOK, CallerStates, Requests, At, Holds, Waits, Idle, Ops,
      ConnectOps, NewCall, Over
<1>1. ASSUME NEW c \in Callers, Begin(c) PROVE NodeInv'
  <2>1. PICK k \in Calls, op \in Ops :
          /\ call[k].op = "none" /\ (op \in ConnectOps => c \in Connectors)
          /\ call' = [call EXCEPT ![k] = NewCall(op)]
          /\ caller' = [caller EXCEPT ![c] =
               [pc |-> "send", call |-> k, stale |-> req = "closed"]]
    BY <1>1 DEF Begin
  <2>2. caller'[c].pc = "send" /\ caller'[c].call = k /\ call'[k] = NewCall(op)
    BY <2>1
  <2>3. \A d \in Callers : d # c => caller'[d] = caller[d]
    BY <2>1
  <2>4. \A j \in Calls : j # k => call'[j] = call[j]
    BY <2>1
  <2>5. k \notin waiting /\ k # serving
    BY <2>1
  <2>6. QED
    BY <1>1, <2>1, <2>2, <2>3, <2>4, <2>5 DEF Begin
<1>2. ASSUME NEW c \in Callers, Send(c) PROVE NodeInv'
  BY <1>2 DEF Send, Goto
<1>3. ASSUME NEW c \in Callers, SendRaised(c) PROVE NodeInv'
  <2>1. Queued'
    BY <1>3 DEF SendRaised, Return
  <2>2. Orphans'
    BY <1>3 DEF SendRaised, Return
  <2>3. Freed'
    BY <1>3 DEF SendRaised, Return
  <2>4. (serving \notin waiting)'
    BY <1>3 DEF SendRaised, Return
  <2>5. QED
    BY <2>1, <2>2, <2>3, <2>4
<1>4. ASSUME NEW c \in Callers, Recv(c) PROVE NodeInv'
  <2>1. caller[c].call \in Calls /\ reply = caller[c].call
    BY <1>4 DEF Recv, ReplyInv
  <2>2. call[caller[c].call].result # "none"
    BY <1>4, <2>1 DEF Recv, ReplyInv
  <2>3. call' = call \/ call' = [call EXCEPT ![caller[c].call] = Over]
    BY <1>4 DEF Recv
  <2>4. \A d \in Callers : d # c => caller'[d] = caller[d]
    BY <1>4 DEF Recv, Goto, Return
  <2>5. Queued'
    BY <1>4, <2>1, <2>2, <2>3, <2>4 DEF Recv
  <2>6. Orphans' /\ Freed' /\ (serving \notin waiting)'
    BY <1>4, <2>1, <2>3 DEF Recv
  <2>7. QED
    BY <2>5, <2>6
<1>5. ASSUME NEW c \in Callers, Cache(c) PROVE NodeInv'
  <2>1. Queued'
    BY <1>5 DEF Cache, Return
  <2>2. Orphans'
    BY <1>5 DEF Cache, Return
  <2>3. Freed'
    BY <1>5 DEF Cache, Return
  <2>4. (serving \notin waiting)'
    BY <1>5 DEF Cache, Return
  <2>5. QED
    BY <2>1, <2>2, <2>3, <2>4
<1>6. ASSUME NEW c \in Callers, TimedOut(c) PROVE NodeInv'
  BY <1>6 DEF TimedOut, Goto
<1>7. ASSUME NEW c \in Callers, Close(c) PROVE NodeInv'
  <2>1. Queued'
    BY <1>7 DEF Close
  <2>2. Orphans'
    BY <1>7 DEF Close
  <2>3. Freed'
    BY <1>7 DEF Close
  <2>4. (serving \notin waiting)'
    BY <1>7 DEF Close
  <2>5. QED
    BY <2>1, <2>2, <2>3, <2>4
<1>8. ASSUME NEW c \in Callers, Open(c) PROVE NodeInv'
  BY <1>8 DEF Open, Return
<1>9. ASSUME NEW k \in Calls, Take(k) PROVE NodeInv'
  BY <1>9 DEF Take
<1>10. ASSUME NEW result \in {"ok", "error"}, Serve(result) PROVE NodeInv'
  <2>1. Queued'
    BY <1>10 DEF Serve
  <2>2. Orphans'
    BY <1>10 DEF Serve
  <2>3. Freed'
    BY <1>10 DEF Serve
  <2>4. (serving \notin waiting)'
    BY <1>10 DEF Serve
  <2>5. QED
    BY <2>1, <2>2, <2>3, <2>4
<1>11. ASSUME NodeDies PROVE NodeInv'
  <2>1. Queued'
    BY <1>11 DEF NodeDies
  <2>2. Orphans'
    BY <1>11 DEF NodeDies
  <2>3. Freed'
    BY <1>11 DEF NodeDies
  <2>4. (serving \notin waiting)'
    BY <1>11 DEF NodeDies
  <2>5. QED
    BY <2>1, <2>2, <2>3, <2>4
<1>12. CASE UNCHANGED vars
  BY <1>12 DEF vars
<1>13. QED
  BY <1>1, <1>2, <1>3, <1>4, <1>5, <1>6, <1>7, <1>8, <1>9, <1>10, <1>11, <1>12 DEF Next, CallStep

(* The answer that has arrived.                                             *)

LEMMA NextReply ==
  ASSUME ChannelInv, TypeOK', [Next]_vars
  PROVE  ReplyInv'
<1> USE NoneAssumption
  DEF ChannelInv, ReplyInv, NodeInv, Queued, Orphans, Freed, Owned, HoldInv, Held, Own,
      Stages, SocketInv, TypeOK, CallerStates, Requests, At, Holds, Waits, Idle, Ops,
      NewCall, Over
<1>1. ASSUME NEW c \in Callers, Begin(c) PROVE ReplyInv'
  BY <1>1 DEF Begin
<1>2. ASSUME NEW c \in Callers, Send(c) PROVE ReplyInv'
  BY <1>2 DEF Send, Goto
<1>3. ASSUME NEW c \in Callers, SendRaised(c) PROVE ReplyInv'
  BY <1>3 DEF SendRaised, Return
<1>4. ASSUME NEW c \in Callers, Recv(c) PROVE ReplyInv'
  BY <1>4 DEF Recv, Goto, Return
<1>5. ASSUME NEW c \in Callers, Cache(c) PROVE ReplyInv'
  BY <1>5 DEF Cache, Return
<1>6. ASSUME NEW c \in Callers, TimedOut(c) PROVE ReplyInv'
  BY <1>6 DEF TimedOut, Goto
<1>7. ASSUME NEW c \in Callers, Close(c) PROVE ReplyInv'
  BY <1>7 DEF Close
<1>8. ASSUME NEW c \in Callers, Open(c) PROVE ReplyInv'
  BY <1>8 DEF Open, Return
<1>9. ASSUME NEW k \in Calls, Take(k) PROVE ReplyInv'
  BY <1>9 DEF Take
<1>10. ASSUME NEW result \in {"ok", "error"}, Serve(result) PROVE ReplyInv'
  BY <1>10 DEF Serve
<1>11. ASSUME NodeDies PROVE ReplyInv'
  BY <1>11 DEF NodeDies
<1>12. CASE UNCHANGED vars
  BY <1>12 DEF vars
<1>13. QED
  BY <1>1, <1>2, <1>3, <1>4, <1>5, <1>6, <1>7, <1>8, <1>9, <1>10, <1>11, <1>12 DEF Next, CallStep

(* What the client remembers of the mode.                                   *)

\* A step that executes nothing and remembers nothing.
LEMMA CacheKept ==
  ASSUME CacheInv, mode' = mode, cached' = cached, strayed => strayed',
         \A c \in Callers :
           /\ Fresh(c)' <=> Fresh(c)
           /\ Fresh(c) => call'[caller'[c].call].op = call[caller[c].call].op
  PROVE  CacheInv'
BY DEF CacheInv, ModeOf

LEMMA NextCache ==
  ASSUME ChannelInv, ChannelInv', CacheInv, [Next]_vars
  PROVE  CacheInv'
<1>1. ASSUME NEW c \in Callers, Begin(c) PROVE CacheInv'
  <2>1. PICK k \in Calls, op \in Ops :
          /\ call[k].op = "none"
          /\ call' = [call EXCEPT ![k] = NewCall(op)]
          /\ caller' = [caller EXCEPT ![c] =
               [pc |-> "send", call |-> k, stale |-> req = "closed"]]
    BY <1>1 DEF Begin
  <2>2. ~Fresh(c) /\ ~Fresh(c)'
    BY <1>1, <2>1 DEF Begin, At, Fresh, ChannelInv, TypeOK
  <2>3. \A d \in Callers : d # c => caller'[d] = caller[d]
    BY <2>1 DEF ChannelInv, TypeOK
  <2>4. \A d \in Callers : Holds(d) => caller[d].call # k
    BY <2>1 DEF ChannelInv, HoldInv, Held, Ops, ConnectOps
  <2>5. \A d \in Callers : Holds(d) => call'[caller[d].call] = call[caller[d].call]
    BY <2>1, <2>4 DEF ChannelInv, TypeOK, HoldInv, Held
  <2>6. \A d \in Callers : Fresh(d) => Holds(d)
    BY DEF Fresh, Holds
  <2>7. \A d \in Callers : d # c => (Fresh(d)' <=> Fresh(d))
    BY <2>3, <2>5 DEF Fresh, Holds
  <2>8. QED
    BY <1>1, <2>2, <2>3, <2>5, <2>6, <2>7, CacheKept DEF Begin
<1>2. ASSUME NEW c \in Callers, Send(c) PROVE CacheInv'
  <2>1. caller' = [caller EXCEPT ![c].pc = "recv"] /\ call' = call
    BY <1>2 DEF Send, Goto
  <2>2. call[caller[c].call].result = "none"
    BY <1>2 DEF Send, ChannelInv, HoldInv, Stages
  <2>3. \A d \in Callers : caller'[d].call = caller[d].call /\ (Fresh(d)' <=> Fresh(d))
    BY <1>2, <2>1, <2>2 DEF Send, At, Fresh, ChannelInv, TypeOK, CallerStates
  <2>4. QED
    BY <1>2, <2>1, <2>3, CacheKept DEF Send
<1>3. ASSUME NEW c \in Callers, SendRaised(c) PROVE CacheInv'
  <2>1. ~Fresh(c) /\ ~Fresh(c)'
    BY <1>3 DEF SendRaised, Return, Idle, At, Fresh, ChannelInv, TypeOK
  <2>2. \A d \in Callers : d # c => caller'[d] = caller[d]
    BY <1>3 DEF SendRaised, Return, ChannelInv, TypeOK
  <2>3. \A d \in Callers : d # c /\ Holds(d) => call'[caller[d].call] = call[caller[d].call]
    BY <1>3 DEF SendRaised, At, Holds, ChannelInv, TypeOK, HoldInv, Held, Own
  <2>4. \A d \in Callers : Fresh(d)' <=> Fresh(d)
    BY <2>1, <2>2, <2>3 DEF Fresh, Holds
  <2>5. QED
    BY <1>3, <2>1, <2>2, <2>3, <2>4, CacheKept DEF SendRaised, Fresh, Holds
<1>4. ASSUME NEW c \in Callers, Recv(c) PROVE CacheInv'
  <2>1. reply = caller[c].call
    BY <1>4 DEF Recv, At, ChannelInv, ReplyInv, SocketInv, Waits
  <2>2. CASE call[caller[c].call].op \in ConnectOps /\ call[reply].result = "ok"
    <3>1. caller' = [caller EXCEPT ![c].pc = "cache"] /\ call' = call
      BY <1>4, <2>2 DEF Recv, Goto
    <3>2. \A d \in Callers : caller'[d].call = caller[d].call /\ (Fresh(d)' <=> Fresh(d))
      BY <1>4, <2>1, <2>2, <3>1 DEF Recv, At, Fresh, ChannelInv, TypeOK, CallerStates
    <3>3. QED
      BY <1>4, <3>1, <3>2, CacheKept DEF Recv
  <2>3. CASE ~(call[caller[c].call].op \in ConnectOps /\ call[reply].result = "ok")
    <3>1. /\ caller' = [caller EXCEPT ![c] = Idle]
          /\ call' = [call EXCEPT ![caller[c].call] = Over]
      BY <1>4, <2>3 DEF Recv, Return
    <3>2. ~Fresh(c) /\ ~Fresh(c)'
      BY <2>1, <2>3, <3>1 DEF Fresh, Idle, ChannelInv, TypeOK
    <3>3. \A d \in Callers : d # c => caller'[d] = caller[d]
      BY <3>1 DEF ChannelInv, TypeOK
    <3>4. \A d \in Callers : d # c /\ Holds(d) => call'[caller[d].call] = call[caller[d].call]
      BY <1>4, <3>1 DEF Recv, At, Holds, ChannelInv, TypeOK, HoldInv, Held, Own
    <3>5. \A d \in Callers : Fresh(d)' <=> Fresh(d)
      BY <3>2, <3>3, <3>4 DEF Fresh, Holds
    <3>6. QED
      BY <1>4, <3>2, <3>3, <3>4, <3>5, CacheKept DEF Recv, Fresh, Holds
  <2>4. QED
    BY <2>2, <2>3
<1>5. ASSUME NEW c \in Callers, Cache(c) PROVE CacheInv'
  <2>1. Fresh(c)
    BY <1>5 DEF Cache, At, Fresh, ChannelInv, HoldInv, Stages
  <2>2. \A d \in Callers : ~Fresh(d)'
    <3>1. \A d \in Callers : d # c => ~Fresh(d)
      BY <2>1, ConnectorsAssumption DEF Fresh, Holds, ChannelInv, HoldInv, Held
    <3>2. \A d \in Callers : d # c => caller'[d] = caller[d]
      BY <1>5 DEF Cache, Return, ChannelInv, TypeOK
    <3>3. \A d \in Callers : d # c /\ Holds(d) => call'[caller[d].call] = call[caller[d].call]
      BY <1>5 DEF Cache, At, Holds, ChannelInv, TypeOK, HoldInv, Held, Own
    <3>4. ~Fresh(c)'
      BY <1>5 DEF Cache, Return, Idle, Fresh, ChannelInv, TypeOK
    <3>5. QED
      BY <3>1, <3>2, <3>3, <3>4 DEF Fresh, Holds
  <2>3. QED
    BY <1>5, <2>1, <2>2 DEF Cache, CacheInv
<1>6. ASSUME NEW c \in Callers, TimedOut(c) PROVE CacheInv'
  <2>1. caller' = [caller EXCEPT ![c].pc = "close"] /\ call' = call
    BY <1>6 DEF TimedOut, Goto
  <2>2. \A d \in Callers : caller'[d].call = caller[d].call /\ (Fresh(d)' <=> Fresh(d))
    BY <1>6, <2>1 DEF TimedOut, At, Fresh, ChannelInv, TypeOK, CallerStates
  <2>3. QED
    BY <1>6, <2>1, <2>2, CacheKept DEF TimedOut
<1>7. ASSUME NEW c \in Callers, Close(c) PROVE CacheInv'
  <2>1. CASE Fresh(c)
    BY <1>7, <2>1 DEF Close, Fresh, CacheInv
  <2>2. CASE ~Fresh(c)
    <3>1. ~Fresh(c)'
      BY <1>7 DEF Close, Fresh, ChannelInv, TypeOK
    <3>2. \A d \in Callers : d # c =>
            caller'[d].pc = caller[d].pc /\ caller'[d].call = caller[d].call
      BY <1>7 DEF Close, ChannelInv, TypeOK, CallerStates
    <3>3. \A d \in Callers : d # c /\ Holds(d) => call'[caller[d].call] = call[caller[d].call]
      BY <1>7 DEF Close, At, Holds, ChannelInv, TypeOK, HoldInv, Held, Own
    <3>4. \A d \in Callers : Fresh(d)' <=> Fresh(d)
      BY <2>2, <3>1, <3>2, <3>3 DEF Fresh, Holds
    <3>5. (strayed => strayed') /\ mode' = mode /\ cached' = cached
      BY <1>7 DEF Close
    <3>6. \A d \in Callers : Fresh(d) =>
            call'[caller'[d].call].op = call[caller[d].call].op
      BY <2>2, <3>2, <3>3 DEF Fresh, Holds
    <3>7. QED
      BY <3>4, <3>5, <3>6, CacheKept
  <2>3. QED
    BY <2>1, <2>2
<1>8. ASSUME NEW c \in Callers, Open(c) PROVE CacheInv'
  <2>1. \A d \in Callers : Fresh(d)' <=> Fresh(d)
    BY <1>8 DEF Open, Return, Idle, At, Fresh, ChannelInv, TypeOK
  <2>2. \A d \in Callers : Fresh(d) => caller'[d] = caller[d]
    BY <1>8 DEF Open, Return, At, Fresh, ChannelInv, TypeOK
  <2>3. QED
    BY <1>8, <2>1, <2>2, CacheKept DEF Open
<1>9. ASSUME NEW k \in Calls, Take(k) PROVE CacheInv'
  BY <1>9 DEF Take, CacheInv, Fresh, ModeOf
<1>10. ASSUME NEW result \in {"ok", "error"}, Serve(result) PROVE CacheInv'
  <2>1. serving \in Calls
    BY <1>10 DEF Serve, ChannelInv, TypeOK
  <2>2. \A d \in Callers : Holds(d) /\ caller[d].call # serving =>
          call'[caller[d].call] = call[caller[d].call]
    BY <1>10, <2>1 DEF Serve, ChannelInv, TypeOK, HoldInv, Held
  <2>3. \A d \in Callers : Fresh(d) => Holds(d) /\ caller[d].call # serving
    BY <2>1 DEF Fresh, Holds, ChannelInv, NodeInv, Queued
  <2>4. caller' = caller /\ cached' = cached
    BY <1>10 DEF Serve
  <2>5. CASE call[serving].op \in ConnectOps /\ result = "ok"
    <3>1. mode' = ModeOf(call[serving].op) /\ strayed' = call[serving].orphan
      BY <1>10, <2>5 DEF Serve
    <3>2. CASE ~call[serving].orphan
      <4>1. PICK c \in Callers : Waits(c) /\ caller[c].call = serving
        BY <2>1, <3>2 DEF ChannelInv, NodeInv, Queued, Owned
      <4>2. c \in Connectors /\ \A d \in Connectors : d = c
        BY <2>5, <4>1, ConnectorsAssumption DEF ChannelInv, HoldInv, Held, Holds, Waits
      <4>3. call'[serving].op = call[serving].op /\ call'[serving].result = "ok"
        BY <1>10, <2>1, <2>5, <3>2 DEF Serve, ChannelInv, TypeOK, Requests
      <4>4. Fresh(c)'
        BY <2>4, <2>5, <4>1, <4>3 DEF Fresh, Waits
      <4>5. \A d \in Callers : Fresh(d)' => d \in Connectors
        BY <2>2, <2>4, <2>5, <4>1, <4>2
           DEF Fresh, Holds, Waits, ChannelInv, HoldInv, Held, Own
      <4>6. QED
        BY <2>4, <3>1, <4>1, <4>2, <4>3, <4>4, <4>5 DEF CacheInv
    <3>3. QED
      BY <3>1, <3>2 DEF CacheInv
  <2>6. CASE ~(call[serving].op \in ConnectOps /\ result = "ok")
    <3>1. mode' = mode /\ strayed' = strayed
      BY <1>10, <2>6 DEF Serve
    <3>2. \A d \in Callers : Holds(d) /\ caller[d].call = serving => ~Fresh(d) /\ ~Fresh(d)'
      BY <1>10, <2>1, <2>3, <2>4, <2>6
         DEF Serve, Fresh, Over, NewCall, ChannelInv, TypeOK, Requests
    <3>3. \A d \in Callers : Fresh(d)' <=> Fresh(d)
      BY <2>2, <2>4, <3>2 DEF Fresh, Holds
    <3>4. QED
      BY <2>2, <2>3, <2>4, <3>1, <3>3, CacheKept
  <2>7. QED
    BY <2>5, <2>6
<1>11. ASSUME NodeDies PROVE CacheInv'
  BY <1>11 DEF NodeDies, CacheInv
<1>12. CASE UNCHANGED vars
  BY <1>12 DEF vars, CacheInv, Fresh, ModeOf
<1>13. QED
  BY <1>1, <1>2, <1>3, <1>4, <1>5, <1>6, <1>7, <1>8, <1>9, <1>10, <1>11, <1>12 DEF Next, CallStep

-----------------------------------------------------------------------------
\* Every reachable state of the channel satisfies its invariant.
THEOREM ChannelInvariant == Spec => [](ChannelInv /\ CacheInv)
<1>1. Init => ChannelInv /\ CacheInv
  <2>1. Init => TypeOK
    <3>1. Idle \in CallerStates /\ Over \in Requests
      BY DEF CallerStates, Requests, Idle, NewCall, Over
    <3>2. QED
      BY <3>1 DEF Init, TypeOK, Modes
  <2>2. Init => SocketInv /\ HoldInv /\ ReplyInv
    BY DEF Init, SocketInv, HoldInv, Held, Own, Stages, ReplyInv, Holds, Waits, At, Idle
  <2>3. Init => NodeInv
    BY NoneAssumption DEF Init, NodeInv, Queued, Orphans, Freed, NewCall, Over
  <2>4. Init => CacheInv
    BY DEF Init, CacheInv
  <2>5. QED
    BY <2>1, <2>2, <2>3, <2>4 DEF ChannelInv
<1>2. ChannelInv /\ CacheInv /\ [Next]_vars => (ChannelInv /\ CacheInv)'
  <2>1. SUFFICES ASSUME ChannelInv, CacheInv, [Next]_vars PROVE (ChannelInv /\ CacheInv)'
    OBVIOUS
  <2>2. TypeOK'
    BY <2>1, NextType
  <2>3. SocketInv' /\ HoldInv' /\ ReplyInv'
    BY <2>1, <2>2, NextSocket, NextHold, NextReply
  <2>4. NodeInv'
    BY <2>1, <2>2, <2>3, NextNode
  <2>5. ChannelInv'
    BY <2>2, <2>3, <2>4 DEF ChannelInv
  <2>6. QED
    BY <2>1, <2>5, NextCache
<1>3. QED
  BY <1>1, <1>2, PTL DEF Spec

\* Type correctness of RpcChannel (robot/zmq_client.py, robot/robot_node.py).
THEOREM ChannelTypeCorrect == Spec => []TypeOK
<1>1. ChannelInv => TypeOK
  BY DEF ChannelInv
<1>2. QED
  BY <1>1, ChannelInvariant, PTL

\* An answer is the answer to the call that waits for it, for any number of threads
\* that share the client and of calls that were given up (zmq_client.py, _call()).
THEOREM RepliesMatch == Spec => []OwnReply
<1>1. ChannelInv => OwnReply
  BY DEF ChannelInv, ReplyInv, SocketInv, OwnReply, At, Waits
<1>2. QED
  BY <1>1, ChannelInvariant, PTL

\* The read_only that start() consults is the mode of the node's runtime, but for a
\* connect under way, one that was given up, or a dead node (zmq_client.py, connect()).
THEOREM CachedModeIsTrue == Spec => []CacheIsTrue
<1>1. ChannelInv /\ CacheInv => CacheIsTrue
  <2>1. \A c \in Callers : ChannelInv /\ Fresh(c) => c \in Connectors /\ caller[c].pc # "idle"
    BY DEF ChannelInv, HoldInv, Held, Holds, Fresh
  <2>2. QED
    BY <2>1 DEF CacheInv, CacheIsTrue
<1>2. QED
  BY <1>1, ChannelInvariant, PTL

-----------------------------------------------------------------------------
(* The contract of a call: the safety half of KeepsCallContract.            *)

\* The view of one call.
View(k) ==
  [at     |-> IF call[k].op = "none" THEN "free"
              ELSE IF call[k].orphan THEN "late"
              ELSE IF call[k].result = "none" THEN "sent" ELSE "done",
   op     |-> call[k].op,
   result |-> call[k].result]

\* A step that changes one call changes the view of that call.
LEMMA ViewOfOne ==
  ASSUME NEW k \in Calls, \A j \in Calls : j # k => call'[j] = call[j]
  PROVE  CallView' = [CallView EXCEPT ![k] = View(k)']
BY DEF CallView, View

LEMMA ContractInit == Init => Contract!Init
BY DEF Init, Contract!Init, Contract!FreeCall, CallView, NewCall, Over

LEMMA ContractStep ==
  ASSUME ChannelInv, ChannelInv', [Next]_vars
  PROVE  [Contract!Next]_(Contract!vars)
<1> USE DEF Contract!vars
<1>1. ASSUME NEW c \in Callers, Begin(c) PROVE \E k \in Calls, op \in Ops : Contract!Issue(k, op)
  <2>1. PICK k \in Calls, op \in Ops :
          call[k].op = "none" /\ call' = [call EXCEPT ![k] = NewCall(op)]
    BY <1>1 DEF Begin
  <2>2. CallView' = [CallView EXCEPT ![k] = View(k)']
    BY <2>1, ViewOfOne DEF ChannelInv, TypeOK
  <2>3. View(k)' = [at |-> "sent", op |-> op, result |-> "none"]
    BY <2>1 DEF View, NewCall, ChannelInv, TypeOK, Ops, ConnectOps
  <2>4. CallView[k] = Contract!FreeCall
    BY <2>1 DEF CallView, Contract!FreeCall, ChannelInv, NodeInv, Freed
  <2>5. QED
    BY <1>1, <2>2, <2>3, <2>4 DEF Begin, Contract!Issue
<1>2. ASSUME NEW c \in Callers, Send(c) \/ TimedOut(c) \/ Open(c) PROVE UNCHANGED Contract!vars
  BY <1>2 DEF Send, TimedOut, Open, CallView
<1>3. ASSUME NEW c \in Callers, SendRaised(c) PROVE \E k \in Calls : Contract!GiveUp(k)
  <2>1. PICK k \in Calls : k = caller[c].call /\ CallView[k].at = "sent"
    BY <1>3 DEF SendRaised, At, CallView, ChannelInv, HoldInv, Held, Stages, Holds, Ops, ConnectOps
  <2>2. CallView' = [CallView EXCEPT ![k] = View(k)']
    BY <1>3, <2>1, ViewOfOne DEF SendRaised, ChannelInv, TypeOK
  <2>3. View(k)' = Contract!FreeCall
    BY <1>3, <2>1 DEF SendRaised, View, Over, NewCall, Contract!FreeCall, ChannelInv, TypeOK
  <2>4. QED
    BY <1>3, <2>1, <2>2, <2>3 DEF SendRaised, Contract!GiveUp
<1>4. ASSUME NEW c \in Callers, Recv(c)
      PROVE  UNCHANGED Contract!vars \/ \E k \in Calls : Contract!Return(k)
  <2>1. reply = caller[c].call
    BY <1>4 DEF Recv, At, ChannelInv, ReplyInv, SocketInv, Waits
  <2>2. PICK k \in Calls : k = caller[c].call /\ CallView[k].at = "done"
    BY <1>4, <2>1
       DEF Recv, At, CallView, ChannelInv, HoldInv, Held, ReplyInv, Holds, Ops, ConnectOps
  <2>3. CASE call' = call
    BY <1>4, <2>3 DEF Recv, CallView
  <2>4. CASE call' = [call EXCEPT ![k] = Over]
    <3>1. CallView' = [CallView EXCEPT ![k] = View(k)']
      BY <2>2, <2>4, ViewOfOne DEF ChannelInv, TypeOK
    <3>2. View(k)' = Contract!FreeCall
      BY <2>2, <2>4 DEF View, Over, NewCall, Contract!FreeCall, ChannelInv, TypeOK
    <3>3. QED
      BY <1>4, <2>2, <3>1, <3>2 DEF Recv, Contract!Return
  <2>5. QED
    BY <1>4, <2>2, <2>3, <2>4 DEF Recv
<1>5. ASSUME NEW c \in Callers, Cache(c) PROVE \E k \in Calls : Contract!Return(k)
  <2>1. PICK k \in Calls : k = caller[c].call /\ CallView[k].at = "done"
    BY <1>5
       DEF Cache, At, CallView, ChannelInv, HoldInv, Held, Stages, Holds, Ops, ConnectOps
  <2>2. CallView' = [CallView EXCEPT ![k] = View(k)']
    BY <1>5, <2>1, ViewOfOne DEF Cache, ChannelInv, TypeOK
  <2>3. View(k)' = Contract!FreeCall
    BY <1>5, <2>1 DEF Cache, View, Over, NewCall, Contract!FreeCall, ChannelInv, TypeOK
  <2>4. QED
    BY <1>5, <2>1, <2>2, <2>3 DEF Cache, Contract!Return
<1>6. ASSUME NEW c \in Callers, Close(c) PROVE \E k \in Calls : Contract!GiveUp(k)
  <2>1. PICK k \in Calls : k = caller[c].call /\ call[k].op \in Ops /\ ~call[k].orphan
    BY <1>6 DEF Close, At, ChannelInv, HoldInv, Held, Holds
  <2>2. CallView[k].at \in {"sent", "done"} /\ CallView[k].op = call[k].op
    BY <2>1 DEF CallView, Ops, ConnectOps
  <2>3. CallView' = [CallView EXCEPT ![k] = View(k)']
    BY <1>6, <2>1, ViewOfOne DEF Close, ChannelInv, TypeOK
  <2>4. CASE k \in waiting' \cup {serving}
    <3>1. call'[k] = [call[k] EXCEPT !.orphan = TRUE] /\ call[k].result = "none"
      BY <1>6, <2>1, <2>4 DEF Close, ChannelInv, TypeOK, NodeInv, Queued
    <3>2. View(k)' = [CallView[k] EXCEPT !.at = "late"]
      BY <2>1, <3>1 DEF View, CallView, ChannelInv, TypeOK, Requests, Ops, ConnectOps
    <3>3. CallView[k].at = "sent"
      BY <2>1, <3>1 DEF CallView, Ops, ConnectOps
    <3>4. QED
      BY <1>6, <2>1, <2>3, <3>2, <3>3 DEF Close, Contract!GiveUp
  <2>5. CASE k \notin waiting' \cup {serving}
    <3>1. View(k)' = Contract!FreeCall
      BY <1>6, <2>1, <2>5 DEF Close, View, Over, NewCall, Contract!FreeCall, ChannelInv, TypeOK
    <3>2. QED
      BY <1>6, <2>1, <2>2, <2>3, <3>1 DEF Close, Contract!GiveUp
  <2>6. QED
    BY <2>4, <2>5
<1>7. ASSUME NEW k \in Calls, Take(k) PROVE UNCHANGED Contract!vars
  BY <1>7 DEF Take, CallView
<1>8. ASSUME NEW result \in {"ok", "error"}, Serve(result)
      PROVE  \E k \in Calls : Contract!Execute(k, result)
  <2>1. PICK k \in Calls : k = serving /\ call[k].op \in Ops /\ call[k].result = "none"
    BY <1>8 DEF Serve, ChannelInv, TypeOK, NodeInv, Queued
  <2>2. /\ CallView[k].at = IF call[k].orphan THEN "late" ELSE "sent"
        /\ CallView[k].op = call[k].op
    BY <2>1 DEF CallView, Ops, ConnectOps
  <2>3. CallView' = [CallView EXCEPT ![k] = View(k)']
    BY <1>8, <2>1, ViewOfOne DEF Serve, ChannelInv, TypeOK
  <2>4. mode' = IF result = "ok" THEN Contract!Effect(CallView[k].op) ELSE mode
    BY <1>8, <2>1, <2>2 DEF Serve, Contract!Effect, ModeOf, Ops, ConnectOps
  <2>5. CASE call[k].orphan
    <3>1. View(k)' = Contract!FreeCall
      BY <1>8, <2>1, <2>5 DEF Serve, View, Over, NewCall, Contract!FreeCall, ChannelInv, TypeOK
    <3>2. QED
      BY <2>1, <2>2, <2>3, <2>4, <2>5, <3>1 DEF Contract!Execute
  <2>6. CASE ~call[k].orphan
    <3>1. call'[k] = [call[k] EXCEPT !.result = result]
      BY <1>8, <2>1, <2>6 DEF Serve, ChannelInv, TypeOK
    <3>2. /\ call'[k].op = call[k].op /\ call[k].op # "none"
          /\ ~call'[k].orphan /\ call'[k].result = result
      BY <2>1, <2>6, <3>1 DEF ChannelInv, TypeOK, Requests, Ops, ConnectOps
    <3>3. View(k)' = [at |-> "done", op |-> call[k].op, result |-> result]
      BY <3>2 DEF View
    <3>4. QED
      BY <2>1, <2>2, <2>3, <2>4, <2>6, <3>3 DEF Contract!Execute
  <2>7. QED
    BY <2>5, <2>6
<1>9. ASSUME NodeDies PROVE Contract!Die
  <2> DEFINE lost == {k \in Calls : call[k].orphan /\ k \notin waiting'}
  <2>1. \A k \in lost : CallView[k].at = "late" /\ CallView'[k] = Contract!FreeCall
    BY <1>9 DEF NodeDies, CallView, Over, NewCall, Contract!FreeCall, ChannelInv, TypeOK,
                NodeInv, Freed
  <2>2. \A k \in Calls : k \notin lost => CallView'[k] = CallView[k]
    BY <1>9 DEF NodeDies, CallView
  <2>3. CallView' = [k \in Calls |-> IF k \in lost THEN Contract!FreeCall ELSE CallView[k]]
    BY <2>1, <2>2 DEF CallView
  <2>4. QED
    BY <1>9, <2>1, <2>3 DEF NodeDies, Contract!Die
<1>10. CASE UNCHANGED vars
  BY <1>10 DEF vars, CallView
<1>11. QED
  BY <1>1, <1>2, <1>3, <1>4, <1>5, <1>6, <1>7, <1>8, <1>9, <1>10
     DEF Next, CallStep, Contract!Next

\* Every behaviour of the channel is one of CallContract: at most one execution per
\* call, every answer from it, for any number of threads and calls (safety).
THEOREM ChannelKeepsContract ==
  Spec => Contract!Init /\ [][Contract!Next]_(Contract!vars)
<1>1. ChannelInv /\ ChannelInv' /\ [Next]_vars => [Contract!Next]_(Contract!vars)
  BY ContractStep
<1>2. QED
  BY <1>1, ContractInit, ChannelInvariant, PTL DEF Spec

=============================================================================
