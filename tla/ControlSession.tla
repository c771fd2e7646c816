--------------------------- MODULE ControlSession ---------------------------
(***************************************************************************)
(* One app process of franka_deploy: the HTTP routes of                    *)
(* api/routes_control.py, each served by a thread of FastAPI's pool, the   *)
(* ControlLoop objects they drive (control_loop.py), the background policy *)
(* threads those start, and the robot node behind the RPC client           *)
(* (robot/zmq_client.py, robot/robot_node.py) seen as one runtime.         *)
(*                                                                         *)
(* A step is the code between two points where another thread can be       *)
(* observed to run: a blocking call (HTTP, RPC, join), a lock, or a write  *)
(* of a field that another thread reads.                                   *)
(***************************************************************************)
EXTENDS FiniteSets, Naturals

CONSTANTS
  Handlers,        \* threads of the server that each run one request at a time
  Loops,           \* ControlLoop objects one run of the app may construct
  Threads,         \* policy threads one run of the app may start
  None,            \* no loop, no thread
  Requests,        \* the requests made (a bound: all of Ops, or some)
  JoinMayTimeOut,  \* TRUE: a policy request may outlast the join of stop()
  FollowsGuide     \* TRUE: requests come in the order README and GUIDE give

ASSUME NoneAssumption == None \notin Loops /\ None \notin Threads
ASSUME FlagAssumption == JoinMayTimeOut \in BOOLEAN /\ FollowsGuide \in BOOLEAN
ASSUME FiniteAssumption == IsFiniteSet(Loops) /\ IsFiniteSet(Threads) /\ IsFiniteSet(Handlers)

VARIABLES
  cur,   \* APP_STATE.loop
  sess,  \* the fields of each ControlLoop that threads share
  job,   \* what each server thread is doing
  thr,   \* the policy threads
  node   \* the runtime object of the robot node

vars == <<cur, sess, job, thr, node>>

-----------------------------------------------------------------------------
States == {"idle", "connected", "detecting", "awaiting_confirm",
           "armed", "running", "stopped", "error"}

\* "unbuilt" marks a ControlLoop not constructed yet. client is the RPC stub:
\* absent, or what its cached read_only says the node's runtime is.
Sessions == [state   : States \cup {"unbuilt"},
             adapter : BOOLEAN,
             client  : {"absent", "ro", "live"},
             stopEvt : BOOLEAN,
             thread  : Threads \cup {None},
             tele    : {"idle", "running", "error"}]

StopOps == {"stop", "estop", "disconnect"}
ConnectOps == {"connect_ro", "connect_live"}
Ops == StopOps \cup ConnectOps \cup {"detect", "confirm", "start"}

ASSUME RequestsAssumption == Requests \subseteq Ops

JobPcs == {"idle", "create", "route", "rpc_connect", "mark_connected",
           "detect", "reset", "settle", "launch", "mark_running", "join",
           "check", "mark_stopped", "rpc_stop", "ack", "forget"}

Jobs == [pc   : JobPcs,
         op   : Ops \cup {"none"},
         loop : Loops \cup {None},
         thr  : Threads \cup {None}]

\* "done" is the thread that left its loop, "dead" the one an exception ended.
ThreadPcs == {"free", "first", "top", "work", "send", "failed", "report",
              "halt", "drain", "bury", "done", "dead"}

PolicyThreads == [pc : ThreadPcs, owner : Loops \cup {None}]

\* "stopped" is an FR3Runtime after its stop(); "error" one whose background
\* loop died. A node without runtime has mode "none".
Nodes == [mode   : {"none", "ro", "live"},
          health : {"running", "stopped", "error"}]

-----------------------------------------------------------------------------
Job(pc, op, l, t) == [pc |-> pc, op |-> op, loop |-> l, thr |-> t]
IdleJob == Job("idle", "none", None, None)
Unbuilt == [state |-> "unbuilt", adapter |-> FALSE, client |-> "absent",
            stopEvt |-> FALSE, thread |-> None, tele |-> "idle"]
NewLoop == [Unbuilt EXCEPT !.state = "idle"]
NoRuntime == [mode |-> "none", health |-> "stopped"]

Init ==
  /\ cur = None
  /\ sess = [l \in Loops |-> Unbuilt]
  /\ job = [h \in Handlers |-> IdleJob]
  /\ thr = [t \in Threads |-> [pc |-> "free", owner |-> None]]
  /\ node = NoRuntime

\* The session a request works on, and the moves of its server thread.
L(h) == job[h].loop
Goto(h, pc) == job' = [job EXCEPT ![h].pc = pc]
Reply(h) == job' = [job EXCEPT ![h] = IdleJob]

\* get_state() raises only for a missing runtime or a dead background loop.
Readable == node.mode # "none" /\ node.health # "error"

\* A freshly constructed FR3Runtime, and the node's runtime after stop().
Opened(mode) == [mode |-> mode, health |-> "running"]
Halted == [node EXCEPT !.health = IF @ = "running" THEN "stopped" ELSE @]

\* A policy thread that may still send a joint target.
Commanding(t) == thr[t].pc \in {"first", "top", "work", "send"}
Finished(t) == thr[t].pc \in {"done", "dead"}

-----------------------------------------------------------------------------
(* The order of requests README and GUIDE describe: a format is confirmed   *)
(* after a detection, and nobody reconnects while a policy is running.      *)
Documented(op) ==
  LET shown == IF cur = None THEN "idle" ELSE sess[cur].state IN
    /\ op = "confirm" => shown = "awaiting_confirm"
    /\ op \in ConnectOps => shown # "running"

(* Bounds: a request that may need a new loop or a new policy thread is     *)
(* admitted only while one is left for it.                                  *)
LoopLeft ==
  Cardinality({l \in Loops : sess[l].state = "unbuilt"})
    > Cardinality({h \in Handlers : job[h].pc = "create"})
ThreadLeft ==
  Cardinality({t \in Threads : thr[t].pc = "free"})
    > Cardinality({h \in Handlers : job[h].op = "start" /\ job[h].pc # "mark_running"})

\* A request reaches a free server thread; _ensure_loop() finds the session.
Arrive(h, op) ==
  /\ job[h].pc = "idle"
  /\ FollowsGuide => Documented(op)
  /\ op = "start" => ThreadLeft
  /\ IF cur = None
       THEN /\ op \notin StopOps
            /\ LoopLeft
            /\ job' = [job EXCEPT ![h] = Job("create", op, None, None)]
       ELSE job' = [job EXCEPT ![h] = Job("route", op, cur, None)]
  /\ UNCHANGED <<cur, sess, thr, node>>

\* _ensure_loop() found none and constructs one, whatever happened since.
Create(h) ==
  /\ job[h].pc = "create"
  /\ \E l \in Loops :
       /\ sess[l].state = "unbuilt"
       /\ sess' = [sess EXCEPT ![l] = NewLoop]
       /\ cur' = l
       /\ job' = [job EXCEPT ![h] = Job("route", @.op, l, None)]
  /\ UNCHANGED <<thr, node>>

\* Slips: start() without the 409 of its route, and without its own check.
StartInAnyState(l) == sess[l].adapter
StartUnconfirmed(l) == sess[l].state \in {"armed", "stopped", "connected"}

\* The 409 of /detect and /start, and start()'s check of the adapter.
DetectAllowed(l) == sess[l].state \in {"connected", "awaiting_confirm"}
StartAllowed(l) == sess[l].state \in {"armed", "stopped"} /\ sess[l].adapter

Reject(h) ==
  /\ job[h].pc = "route"
  /\ \/ job[h].op = "detect" /\ ~DetectAllowed(L(h))
     \/ job[h].op = "start" /\ ~StartAllowed(L(h))
  /\ Reply(h)
  /\ UNCHANGED <<cur, sess, thr, node>>

-----------------------------------------------------------------------------
(* connect(): make the stub once, ask the node, remember what it said.      *)
OpenClient(l) ==
  sess' = [sess EXCEPT ![l].client = IF @ = "absent" THEN "ro" ELSE @]

RouteConnect(h) ==
  /\ job[h].pc = "route" /\ job[h].op \in ConnectOps
  /\ OpenClient(L(h))
  /\ Goto(h, "rpc_connect")
  /\ UNCHANGED <<cur, thr, node>>

\* Slip: the route hands its own name on as the mode.
ModeIsRequest(op) == op

WantedMode(op) == IF op = "connect_ro" THEN "ro" ELSE "live"

\* The node stops its old runtime, opens a new one and answers.
ConnectAnswered(h) ==
  /\ job[h].pc = "rpc_connect"
  /\ node' = Opened(WantedMode(job[h].op))
  /\ sess' = [sess EXCEPT ![L(h)].client = WantedMode(job[h].op)]
  /\ Goto(h, "mark_connected")
  /\ UNCHANGED <<cur, thr>>

\* The call raises: it never reached the node, or the constructor failed after
\* the old runtime was stopped, or the node did it all but answered too late.
ConnectRaised(h) ==
  /\ job[h].pc = "rpc_connect"
  /\ node' \in {node, Halted, Opened(WantedMode(job[h].op))}
  /\ Reply(h)
  /\ UNCHANGED <<cur, sess, thr>>

MarkConnected(h) ==
  /\ job[h].pc = "mark_connected"
  /\ sess' = [sess EXCEPT ![L(h)].state = "connected"]
  /\ IF job[h].op = "start" THEN Goto(h, "settle") ELSE Reply(h)
  /\ UNCHANGED <<cur, thr, node>>

-----------------------------------------------------------------------------
(* detect() and confirm().                                                  *)
RouteDetect(h) ==
  /\ job[h].pc = "route" /\ job[h].op = "detect" /\ DetectAllowed(L(h))
  /\ sess' = [sess EXCEPT ![L(h)].state = "detecting"]
  /\ Goto(h, "detect")
  /\ UNCHANGED <<cur, thr, node>>

DetectSucceeded(h) ==
  /\ job[h].pc = "detect"
  /\ Readable
  /\ sess' = [sess EXCEPT ![L(h)].state = "awaiting_confirm"]
  /\ Reply(h)
  /\ UNCHANGED <<cur, thr, node>>

\* Slip: detect() without its except clause.
DetectLeavesState(h) ==
  /\ job[h].pc = "detect"
  /\ Reply(h)
  /\ UNCHANGED <<cur, sess, thr, node>>

DetectRaised(h) ==
  /\ job[h].pc = "detect"
  /\ sess' = [sess EXCEPT ![L(h)].state = "connected"]
  /\ Reply(h)
  /\ UNCHANGED <<cur, thr, node>>

RouteConfirm(h) ==
  /\ job[h].pc = "route" /\ job[h].op = "confirm"
  /\ sess' = [sess EXCEPT ![L(h)] = [@ EXCEPT !.adapter = TRUE, !.state = "armed"]]
  /\ Reply(h)
  /\ UNCHANGED <<cur, thr, node>>

-----------------------------------------------------------------------------
(* start(): policy reset, live connect if the stub believes the node is     *)
(* read-only, settle and read the robot, then clear the event and spawn.    *)
RouteStart(h) ==
  /\ job[h].pc = "route" /\ job[h].op = "start" /\ StartAllowed(L(h))
  /\ Goto(h, "reset")
  /\ UNCHANGED <<cur, sess, thr, node>>

\* Slip: start() never asks whether the stub is read-only.
ResetKeepsMode(h) ==
  /\ job[h].pc = "reset"
  /\ Goto(h, "settle")
  /\ UNCHANGED <<cur, sess, thr, node>>

ResetDone(h) ==
  /\ job[h].pc = "reset"
  /\ IF sess[L(h)].client = "live"
       THEN Goto(h, "settle") /\ UNCHANGED sess
       ELSE Goto(h, "rpc_connect") /\ OpenClient(L(h))
  /\ UNCHANGED <<cur, thr, node>>

Settled(h) ==
  /\ job[h].pc = "settle"
  /\ Readable
  /\ Goto(h, "launch")
  /\ UNCHANGED <<cur, sess, thr, node>>

\* The policy server's reset, or the read of the robot, raises: HTTP 500.
StartRaised(h) ==
  /\ job[h].pc \in {"reset", "settle"}
  /\ Reply(h)
  /\ UNCHANGED <<cur, sess, thr, node>>

Launch(h) ==
  /\ job[h].pc = "launch"
  /\ \E t \in Threads :
       /\ thr[t].pc = "free"
       /\ thr' = [thr EXCEPT ![t] = [pc |-> "first", owner |-> L(h)]]
       /\ sess' = [sess EXCEPT ![L(h)] =
                     [@ EXCEPT !.stopEvt = FALSE, !.tele = "running", !.thread = t]]
  /\ Goto(h, "mark_running")
  /\ UNCHANGED <<cur, node>>

MarkRunning(h) ==
  /\ job[h].pc = "mark_running"
  /\ sess' = [sess EXCEPT ![L(h)].state = "running"]
  /\ Reply(h)
  /\ UNCHANGED <<cur, thr, node>>

-----------------------------------------------------------------------------
(* stop(), estop() and disconnect().                                        *)
SetStopEvt(h) ==
  /\ job[h].pc = "route" /\ job[h].op \in StopOps
  /\ sess' = [sess EXCEPT ![L(h)].stopEvt = TRUE]
  /\ job' = [job EXCEPT ![h] = Job("join", @.op, @.loop, sess[L(h)].thread)]
  /\ UNCHANGED <<cur, thr, node>>

\* Slip: stop() does not wait for the thread.
NotJoined(h) ==
  /\ job[h].pc = "join"
  /\ Goto(h, "check")
  /\ UNCHANGED <<cur, sess, thr, node>>

\* The join returns because there is nothing to wait for, or after 5 s.
Joined(h) ==
  /\ job[h].pc = "join"
  /\ ~JoinMayTimeOut => job[h].thr \notin {t \in Threads : ~Finished(t)}
  /\ Goto(h, "check")
  /\ UNCHANGED <<cur, sess, thr, node>>

\* Slip: estop() is only another stop(), without the call of the node.
StopIsEnough(h) ==
  IF job[h].op = "stop" THEN Reply(h)
  ELSE Goto(h, IF job[h].op = "estop" THEN "ack" ELSE "forget")

\* What follows stop(): the route of /stop replies, estop() calls the node.
StopReturns(h) ==
  IF job[h].op = "stop" THEN Reply(h)
  ELSE IF sess[L(h)].client # "absent" THEN Goto(h, "rpc_stop")
  ELSE Goto(h, IF job[h].op = "estop" THEN "ack" ELSE "forget")

CheckError(h) ==
  /\ job[h].pc = "check"
  /\ IF sess[L(h)].state = "error" THEN StopReturns(h) ELSE Goto(h, "mark_stopped")
  /\ UNCHANGED <<cur, sess, thr, node>>

MarkStopped(h) ==
  /\ job[h].pc = "mark_stopped"
  /\ sess' = [sess EXCEPT ![L(h)].state = "stopped"]
  /\ StopReturns(h)
  /\ UNCHANGED <<cur, thr, node>>

NodeStopAnswered(h) ==
  /\ job[h].pc = "rpc_stop"
  /\ node' = Halted
  /\ Goto(h, IF job[h].op = "estop" THEN "ack" ELSE "forget")
  /\ UNCHANGED <<cur, sess, thr>>

\* HTTP 500 to /estop or /disconnect, whether or not the node did stop.
NodeStopRaised(h) ==
  /\ job[h].pc = "rpc_stop"
  /\ node' \in {node, Halted}
  /\ Reply(h)
  /\ UNCHANGED <<cur, sess, thr>>

AckEstop(h) ==
  /\ job[h].pc = "ack"
  /\ Reply(h)
  /\ UNCHANGED <<cur, sess, thr, node>>

Forget(h) ==
  /\ job[h].pc = "forget"
  /\ cur' = None
  /\ Reply(h)
  /\ UNCHANGED <<sess, thr, node>>

-----------------------------------------------------------------------------
(* The policy thread, _run().                                               *)
At(t, pc) == thr[t].pc = pc
Step(t, pc) == thr' = [thr EXCEPT ![t].pc = pc]

FirstPredict(t) ==
  /\ At(t, "first") /\ Readable
  /\ Step(t, "top")
  /\ UNCHANGED <<cur, sess, job, node>>

\* Slip: the loop never looks at the event.
StopIgnored(t) ==
  /\ At(t, "top")
  /\ Step(t, "work")
  /\ UNCHANGED <<cur, sess, job, node>>

TestStop(t) ==
  /\ At(t, "top")
  /\ Step(t, IF sess[thr[t].owner].stopEvt THEN "drain" ELSE "work")
  /\ UNCHANGED <<cur, sess, job, node>>

\* Chunk swap, prefetch, get_state, watchdog, decoding, clamps, fence.
Work(t) ==
  /\ At(t, "work") /\ Readable
  /\ Step(t, "send")
  /\ UNCHANGED <<cur, sess, job, node>>

\* The node refuses a target while its runtime is read-only.
Send(t) ==
  /\ At(t, "send") /\ node.mode = "live"
  /\ sess' = [sess EXCEPT ![thr[t].owner].tele = "running"]
  /\ Step(t, "top")
  /\ UNCHANGED <<cur, job, node>>

\* Policy server, RPC, watchdog, decoding or fence raises.
Raise(t) ==
  /\ thr[t].pc \in {"first", "work", "send"}
  /\ Step(t, "failed")
  /\ UNCHANGED <<cur, sess, job, node>>

\* Slip: the except clause sets the state and forgets the telemetry.
TelemetryForgotten(t) ==
  /\ At(t, "failed")
  /\ Step(t, "report")
  /\ UNCHANGED <<cur, sess, job, node>>

ReportTelemetry(t) ==
  /\ At(t, "failed")
  /\ sess' = [sess EXCEPT ![thr[t].owner].tele = "error"]
  /\ Step(t, "report")
  /\ UNCHANGED <<cur, job, node>>

ReportState(t) ==
  /\ At(t, "report")
  /\ sess' = [sess EXCEPT ![thr[t].owner].state = "error"]
  /\ Step(t, "halt")
  /\ UNCHANGED <<cur, job, node>>

\* runtime.stop() of the except clause; it may itself raise.
HaltRobot(t) ==
  /\ At(t, "halt")
  /\ node' \in {node, Halted}
  /\ Step(t, "bury")
  /\ UNCHANGED <<cur, sess, job>>

\* pool.shutdown(wait=True): the prefetched request must end first.
ShutPool(t) ==
  /\ thr[t].pc \in {"drain", "bury"}
  /\ Step(t, IF At(t, "drain") THEN "done" ELSE "dead")
  /\ UNCHANGED <<cur, sess, job, node>>

\* The runtime's background loop dies: reflex, lost communication. One that has
\* outlived the join of the node's stop() still can.
NodeFault ==
  /\ node.mode # "none" /\ node.health # "error"
  /\ node' = [node EXCEPT !.health = "error"]
  /\ UNCHANGED <<cur, sess, job, thr>>

-----------------------------------------------------------------------------
HandlerStep(h) ==
  \/ Create(h) \/ Reject(h)
  \/ RouteConnect(h) \/ ConnectAnswered(h) \/ ConnectRaised(h) \/ MarkConnected(h)
  \/ RouteDetect(h) \/ DetectSucceeded(h) \/ DetectRaised(h) \/ RouteConfirm(h)
  \/ RouteStart(h) \/ ResetDone(h) \/ Settled(h) \/ StartRaised(h)
  \/ Launch(h) \/ MarkRunning(h)
  \/ SetStopEvt(h) \/ Joined(h) \/ CheckError(h) \/ MarkStopped(h)
  \/ NodeStopAnswered(h) \/ NodeStopRaised(h) \/ AckEstop(h) \/ Forget(h)

ThreadStep(t) ==
  \/ FirstPredict(t) \/ TestStop(t) \/ Work(t) \/ Send(t) \/ Raise(t)
  \/ ReportTelemetry(t) \/ ReportState(t) \/ HaltRobot(t) \/ ShutPool(t)

Next ==
  \/ \E h \in Handlers : HandlerStep(h) \/ \E op \in Requests : Arrive(h, op)
  \/ \E t \in Threads : ThreadStep(t)
  \/ NodeFault

Spec == Init /\ [][Next]_vars

(***************************************************************************)
(* Every blocking call has a timeout (HTTP 60 s, RPC and join 5 s), so no  *)
(* thread that runs stays at one step for ever. Nothing makes a request    *)
(* arrive or the node fail.                                                *)
(***************************************************************************)
Fairness ==
  /\ \A h \in Handlers : WF_vars(HandlerStep(h))
  /\ \A t \in Threads : WF_vars(ThreadStep(t))

FairSpec == Spec /\ Fairness

-----------------------------------------------------------------------------
TypeOK ==
  /\ cur \in Loops \cup {None}
  /\ sess \in [Loops -> Sessions]
  /\ job \in [Handlers -> Jobs]
  /\ thr \in [Threads -> PolicyThreads]
  /\ node \in Nodes

Starting(l) == \E h \in Handlers : job[h].pc = "mark_running" /\ L(h) = l

\* No motion before confirmation (README step 4): a policy thread that may send
\* targets belongs to a session whose action format somebody confirmed, however
\* requests interleave.
NoMotionBeforeConfirm ==
  \A t \in Threads : Commanding(t) => sess[thr[t].owner].adapter

\* A session is "detecting" only while a request really is: no failure and no
\* competing request strands it there (control_loop.py, comment in detect()).
NeverStrandedDetecting ==
  \A l \in Loops : sess[l].state = "detecting" =>
    \E h \in Handlers : job[h].pc = "detect" /\ L(h) = l

\* Two policy threads never command the robot at once.
SingleCommander ==
  \A t1, t2 \in Threads : Commanding(t1) /\ Commanding(t2) => t1 = t2

\* The state the dashboard shows is authoritative for motion: a thread that may
\* send targets belongs to the current session, and that session says "running",
\* or the start() that spawned it is about to say so.
MotionMeansRunning ==
  \A t \in Threads : Commanding(t) =>
    /\ thr[t].owner = cur
    /\ sess[cur].state = "running" \/ Starting(cur)

\* Policy threads run only on a session whose stub was switched to live by
\* start(): a session connected read-only is never commanded.
CommanderIsLive ==
  \A t \in Threads : Commanding(t) => sess[thr[t].owner].client = "live"

\* When /estop is about to answer, or /disconnect about to drop the session, no
\* thread may send a target and the node no longer runs a live runtime.
EstopSilences ==
  (\E h \in Handlers : job[h].pc \in {"ack", "forget"}) =>
    /\ node # Opened("live")
    /\ \A t \in Threads : ~Commanding(t)

\* An exception that ended the latest policy thread stays visible as the error
\* of the telemetry until the next start().
ErrorStaysVisible ==
  \A l \in Loops : sess[l].thread # None /\ thr[sess[l].thread].pc = "dead" =>
    sess[l].tele = "error"

\* "/stop and /estop alone only halt the policy loop" (routes_control.py:150): once a
\* session says "stopped", and no start() is about to say otherwise, none of its threads
\* sends another target.
NoTargetAfterStop ==
  [][\A t \in Threads : At(t, "send") /\ thr'[t].pc = "top" =>
       sess[thr[t].owner].state # "stopped" \/ Starting(thr[t].owner)]_vars

\* A thread that may send targets sends them to a runtime nobody stopped (GUIDE:
\* Start really begins to send motion commands to the robot).
CommandsReachRobot ==
  \A t \in Threads : Commanding(t) => node.health # "stopped"

\* The state shown is the live one (routes_status.py): a session does not say
\* "running" once an exception has ended its policy thread.
RunningIsAlive ==
  \A l \in Loops : sess[l].thread # None /\ thr[sess[l].thread].pc = "dead" =>
    sess[l].state # "running"

\* Every request is answered: no route waits for ever. A join ends because the
\* thread it waits for obeys the stop event at its next tick.
RequestsAnswered ==
  \A h \in Handlers : job[h].pc # "idle" ~> job[h].pc = "idle"

=============================================================================
