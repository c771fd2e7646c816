------------------------ MODULE ControlSessionProofs ------------------------
(***************************************************************************)
(* Safety of ControlSession for every number of server threads, sessions   *)
(* and policy threads.                                                     *)
(***************************************************************************)
EXTENDS ControlSession, TLAPS

-----------------------------------------------------------------------------
(* A request past its arrival works on a session, and a policy thread has   *)
(* the session that spawned it.                                             *)
Linked ==
  /\ \A h \in Handlers : job[h].pc \notin {"idle", "create"} => L(h) \in Loops
  /\ \A t \in Threads : thr[t].pc # "free" => thr[t].owner \in Loops

TypeInv == TypeOK /\ Linked

(* A start() past its checks works on a confirmed session, and so does the  *)
(* thread it spawned; nothing withdraws a confirmation.                     *)
PastChecks(h) ==
  \/ job[h].pc \in {"reset", "settle", "launch", "mark_running"}
  \/ job[h].op = "start" /\ job[h].pc \in {"rpc_connect", "mark_connected"}

ConfirmInv ==
  /\ \A l \in Loops : sess[l].state = "unbuilt" => ~sess[l].adapter
  /\ \A h \in Handlers : PastChecks(h) => sess[L(h)].adapter
  /\ \A t \in Threads : thr[t].pc # "free" => sess[thr[t].owner].adapter

-----------------------------------------------------------------------------
(* One operator, in the documented order, with joins that never time out.   *)
Disciplined ==
  /\ ~JoinMayTimeOut
  /\ FollowsGuide
  /\ \A h1, h2 \in Handlers : h1 = h2

\* A thread that commands, or that failed and has not told the session yet.
Active(t) == Commanding(t) \/ thr[t].pc \in {"failed", "report"}
NoneActive == \A t \in Threads : ~Active(t)

\* Where a request can only be while no policy thread is active.
Quiet(h) ==
  \/ job[h].pc \in {"create", "rpc_connect", "mark_connected", "detect", "reset",
                    "settle", "launch", "check", "mark_stopped", "rpc_stop", "ack",
                    "forget"}
  \/ job[h].pc = "route" /\ job[h].op \in ConnectOps \cup {"confirm"}

SequentialInv ==
  /\ \A h \in Handlers : job[h].pc \notin {"idle", "create"} => L(h) = cur
  /\ \A h \in Handlers : job[h].pc = "join" => job[h].thr = sess[cur].thread
  /\ \A h \in Handlers : Quiet(h) => NoneActive
  /\ \A t \in Threads : Active(t) =>
       /\ thr[t].owner = cur
       /\ sess[cur].thread = t
       /\ sess[cur].state = "running" \/ Starting(cur)

\* Where a request is past the switch of start() to live. A thread that commands
\* has the current session, so both speak of its stub.
Switched(h) ==
  \/ job[h].pc \in {"settle", "launch", "mark_running"}
  \/ job[h].pc = "mark_connected" /\ job[h].op = "start"

LiveInv ==
  /\ \A h \in Handlers : Switched(h) => sess[cur].client = "live"
  /\ \A t \in Threads : Commanding(t) => sess[cur].client = "live"

\* A live runtime runs only while the current session has a stub for it: it is
\* dropped by /disconnect after the node has stopped, and a new session builds its
\* stub before it can ask for one.
SilentInv ==
  /\ \A h \in Handlers : job[h].pc = "create" => cur = None
  /\ \A h \in Handlers : job[h].pc = "rpc_connect" => sess[cur].client # "absent"
  /\ \A h \in Handlers : job[h].pc \in {"ack", "forget"} => node # Opened("live")
  /\ cur = None => node # Opened("live")
  /\ \A l \in Loops : l = cur /\ sess[l].client = "absent" => node # Opened("live")

\* The thread a session remembers is its own, and once that thread has reported
\* its exception the telemetry says so.
VisibleInv ==
  \A l \in Loops : sess[l].thread # None =>
    /\ thr[sess[l].thread].owner = l
    /\ thr[sess[l].thread].pc # "free"
    /\ thr[sess[l].thread].pc \in {"report", "halt", "bury", "dead"}
         => sess[l].tele = "error"

-----------------------------------------------------------------------------
LEMMA TypeInit == Init => TypeInv
BY DEF Init, TypeInv, TypeOK, Linked, Sessions, Jobs, PolicyThreads, Nodes, States,
       JobPcs, ThreadPcs, IdleJob, Job, Unbuilt, NoRuntime

LEMMA TypeArrive ==
  ASSUME TypeInv, NEW h \in Handlers, NEW op \in Requests, Arrive(h, op)
  PROVE  TypeInv'
BY RequestsAssumption
   DEF TypeInv, TypeOK, Linked, Jobs, JobPcs, L, Job, Arrive

LEMMA TypeHandler ==
  ASSUME TypeInv, NEW h \in Handlers, HandlerStep(h)
  PROVE  TypeInv'
<1> USE DEF TypeInv, TypeOK
<1>1. CASE Create(h)
  <2>1. NewLoop \in Sessions
    BY DEF Sessions, NewLoop, Unbuilt, States
  <2>2. job' \in [Handlers -> Jobs] /\ Linked'
    BY <1>1 DEF Linked, L, Jobs, JobPcs, Create, Job
  <2>3. QED
    BY <1>1, <2>1, <2>2 DEF Create
<1>2. CASE Reject(h)
  BY <1>2 DEF Linked, L, Jobs, JobPcs, Reject, Reply, IdleJob, Job
<1>3. CASE RouteConnect(h)
  <2>1. sess' \in [Loops -> Sessions]
    BY <1>3 DEF Sessions, RouteConnect, OpenClient, L, Linked
  <2>2. job' \in [Handlers -> Jobs] /\ Linked'
    BY <1>3 DEF Linked, L, Jobs, JobPcs, RouteConnect, Goto
  <2>3. QED
    BY <1>3, <2>1, <2>2 DEF RouteConnect
<1>4. CASE ConnectAnswered(h)
  <2>1. WantedMode(job[h].op) \in {"ro", "live"}
    BY DEF WantedMode
  <2>2. sess' \in [Loops -> Sessions]
    BY <1>4, <2>1 DEF Sessions, ConnectAnswered, L, Linked
  <2>3. job' \in [Handlers -> Jobs] /\ Linked'
    BY <1>4 DEF Linked, L, Jobs, JobPcs, ConnectAnswered, Goto
  <2>4. node' \in Nodes
    BY <1>4 DEF Nodes, ConnectAnswered, Opened, WantedMode
  <2>5. QED
    BY <1>4, <2>2, <2>3, <2>4 DEF ConnectAnswered
<1>5. CASE ConnectRaised(h)
  <2>1. job' \in [Handlers -> Jobs] /\ Linked'
    BY <1>5 DEF Linked, L, Jobs, JobPcs, ConnectRaised, Reply, IdleJob, Job
  <2>2. node' \in Nodes
    BY <1>5 DEF Nodes, ConnectRaised, Opened, WantedMode, Halted
  <2>3. QED
    BY <1>5, <2>1, <2>2 DEF ConnectRaised
<1>6. CASE MarkConnected(h)
  <2>1. sess' \in [Loops -> Sessions]
    BY <1>6 DEF Sessions, MarkConnected, L, Linked, States
  <2>2. job' \in [Handlers -> Jobs] /\ Linked'
    BY <1>6 DEF Linked, L, Jobs, JobPcs, MarkConnected, Goto, Reply, IdleJob, Job
  <2>3. QED
    BY <1>6, <2>1, <2>2 DEF MarkConnected
<1>7. CASE RouteDetect(h)
  <2>1. sess' \in [Loops -> Sessions]
    <3>1. \A l \in Loops : [sess[l] EXCEPT !.state = "detecting"] \in Sessions
      BY DEF Sessions, States
    <3>2. QED
      BY <1>7, <3>1 DEF RouteDetect
  <2>2. job' \in [Handlers -> Jobs] /\ Linked'
    BY <1>7 DEF Linked, L, Jobs, JobPcs, RouteDetect, Goto
  <2>3. QED
    BY <1>7, <2>1, <2>2 DEF RouteDetect
<1>8. CASE DetectSucceeded(h)
  <2>1. sess' \in [Loops -> Sessions]
    BY <1>8 DEF Sessions, DetectSucceeded, L, Linked, States
  <2>2. job' \in [Handlers -> Jobs] /\ Linked'
    BY <1>8 DEF Linked, L, Jobs, JobPcs, DetectSucceeded, Reply, IdleJob, Job
  <2>3. QED
    BY <1>8, <2>1, <2>2 DEF DetectSucceeded
<1>9. CASE DetectRaised(h)
  <2>1. sess' \in [Loops -> Sessions]
    BY <1>9 DEF Sessions, DetectRaised, L, Linked, States
  <2>2. job' \in [Handlers -> Jobs] /\ Linked'
    BY <1>9 DEF Linked, L, Jobs, JobPcs, DetectRaised, Reply, IdleJob, Job
  <2>3. QED
    BY <1>9, <2>1, <2>2 DEF DetectRaised
<1>10. CASE RouteConfirm(h)
  <2>1. \A l \in Loops : [sess[l] EXCEPT !.adapter = TRUE, !.state = "armed"] \in Sessions
    BY DEF Sessions, States
  <2>2. sess' \in [Loops -> Sessions]
    BY <1>10, <2>1 DEF RouteConfirm
  <2>3. job' \in [Handlers -> Jobs] /\ Linked'
    BY <1>10 DEF Linked, L, Jobs, JobPcs, RouteConfirm, Reply, IdleJob, Job
  <2>4. QED
    BY <1>10, <2>2, <2>3 DEF RouteConfirm
<1>11. CASE RouteStart(h)
  BY <1>11 DEF Linked, L, Jobs, JobPcs, RouteStart, Goto
<1>12. CASE ResetDone(h)
  <2>1. sess' \in [Loops -> Sessions]
    BY <1>12 DEF Sessions, ResetDone, OpenClient
  <2>2. job' \in [Handlers -> Jobs] /\ Linked'
    BY <1>12 DEF Linked, L, Jobs, JobPcs, ResetDone, Goto
  <2>3. QED
    BY <1>12, <2>1, <2>2 DEF ResetDone
<1>13. CASE Settled(h)
  BY <1>13 DEF Linked, L, Jobs, JobPcs, Settled, Goto
<1>14. CASE StartRaised(h)
  BY <1>14 DEF Linked, L, Jobs, JobPcs, StartRaised, Reply, IdleJob, Job
<1>15. CASE Launch(h)
  <2>1. PICK t \in Threads :
           /\ thr' = [thr EXCEPT ![t] = [pc |-> "first", owner |-> L(h)]]
           /\ sess' = [sess EXCEPT ![L(h)] =
                [@ EXCEPT !.stopEvt = FALSE, !.tele = "running", !.thread = t]]
    BY <1>15 DEF Launch
  <2>2. \A l \in Loops :
           [sess[l] EXCEPT !.stopEvt = FALSE, !.tele = "running", !.thread = t] \in Sessions
    BY DEF Sessions
  <2>3. L(h) \in Loops
    BY <1>15 DEF Launch, Linked
  <2>4. sess' \in [Loops -> Sessions] /\ thr' \in [Threads -> PolicyThreads]
    BY <2>1, <2>2, <2>3 DEF PolicyThreads, ThreadPcs
  <2>5. job' \in [Handlers -> Jobs]
    BY <1>15 DEF Launch, Goto, Jobs, JobPcs
  <2>6. Linked'
    BY <1>15, <2>1, <2>3 DEF Launch, Goto, Jobs, Linked, L, PolicyThreads
  <2>7. QED
    BY <1>15, <2>4, <2>5, <2>6 DEF Launch
<1>16. CASE MarkRunning(h)
  <2>1. sess' \in [Loops -> Sessions]
    BY <1>16 DEF Sessions, MarkRunning, L, Linked, States
  <2>2. job' \in [Handlers -> Jobs] /\ Linked'
    BY <1>16 DEF Linked, L, Jobs, JobPcs, MarkRunning, Reply, IdleJob, Job
  <2>3. QED
    BY <1>16, <2>1, <2>2 DEF MarkRunning
<1>17. CASE SetStopEvt(h)
  <2>1. sess' \in [Loops -> Sessions]
    <3>1. \A l \in Loops : [sess[l] EXCEPT !.stopEvt = TRUE] \in Sessions
      BY DEF Sessions, States
    <3>2. QED
      BY <1>17, <3>1 DEF SetStopEvt
  <2>2. sess[L(h)].thread \in Threads \cup {None}
    BY <1>17 DEF Sessions, SetStopEvt, L, Linked
  <2>3. job' \in [Handlers -> Jobs] /\ Linked'
    BY <1>17, <2>2 DEF Linked, L, Jobs, JobPcs, SetStopEvt, Job
  <2>4. QED
    BY <1>17, <2>1, <2>3 DEF SetStopEvt
<1>18. CASE Joined(h)
  BY <1>18 DEF Linked, L, Jobs, JobPcs, Joined, Goto
<1>19. CASE CheckError(h)
  BY <1>19 DEF Linked, L, Jobs, JobPcs, CheckError, StopReturns, Goto, Reply, IdleJob, Job
<1>20. CASE MarkStopped(h)
  <2>1. sess' \in [Loops -> Sessions]
    BY <1>20 DEF Sessions, MarkStopped, L, Linked, States
  <2>2. job' \in [Handlers -> Jobs] /\ Linked'
    BY <1>20 DEF Linked, L, Jobs, JobPcs, MarkStopped, StopReturns, Goto, Reply, IdleJob, Job
  <2>3. QED
    BY <1>20, <2>1, <2>2 DEF MarkStopped
<1>21. CASE NodeStopAnswered(h)
  <2>1. job' \in [Handlers -> Jobs] /\ Linked'
    BY <1>21 DEF Linked, L, Jobs, JobPcs, NodeStopAnswered, Goto
  <2>2. node' \in Nodes
    BY <1>21 DEF Nodes, NodeStopAnswered, Halted
  <2>3. QED
    BY <1>21, <2>1, <2>2 DEF NodeStopAnswered
<1>22. CASE NodeStopRaised(h)
  <2>1. job' \in [Handlers -> Jobs] /\ Linked'
    BY <1>22 DEF Linked, L, Jobs, JobPcs, NodeStopRaised, Reply, IdleJob, Job
  <2>2. node' \in Nodes
    BY <1>22 DEF Nodes, NodeStopRaised, Halted
  <2>3. QED
    BY <1>22, <2>1, <2>2 DEF NodeStopRaised
<1>23. CASE AckEstop(h)
  BY <1>23 DEF Linked, L, Jobs, JobPcs, AckEstop, Reply, IdleJob, Job
<1>24. CASE Forget(h)
  BY <1>24 DEF Linked, L, Jobs, JobPcs, Forget, Reply, IdleJob, Job
<1>25. QED
  BY <1>1, <1>2, <1>3, <1>4, <1>5, <1>6, <1>7, <1>8, <1>9, <1>10, <1>11,
     <1>12, <1>13, <1>14, <1>15, <1>16, <1>17, <1>18, <1>19, <1>20, <1>21,
     <1>22, <1>23, <1>24 DEF HandlerStep

LEMMA TypeThread ==
  ASSUME TypeInv, NEW t \in Threads, ThreadStep(t)
  PROVE  TypeInv'
<1> USE DEF TypeInv, TypeOK
<1>1. CASE FirstPredict(t)
  BY <1>1 DEF PolicyThreads, ThreadPcs, Linked, L, At, Step, FirstPredict
<1>2. CASE TestStop(t)
  BY <1>2 DEF PolicyThreads, ThreadPcs, Linked, L, At, Step, TestStop
<1>3. CASE Work(t)
  BY <1>3 DEF PolicyThreads, ThreadPcs, Linked, L, At, Step, Work
<1>4. CASE Send(t)
  <2>1. sess' \in [Loops -> Sessions]
    BY <1>4 DEF Sessions, Send, L, Linked, At
  <2>2. thr' \in [Threads -> PolicyThreads] /\ Linked'
    BY <1>4 DEF PolicyThreads, ThreadPcs, Linked, L, At, Step, Send
  <2>3. QED
    BY <1>4, <2>1, <2>2 DEF Send
<1>5. CASE Raise(t)
  BY <1>5 DEF PolicyThreads, ThreadPcs, Linked, L, At, Step, Raise
<1>6. CASE ReportTelemetry(t)
  <2>1. sess' \in [Loops -> Sessions]
    BY <1>6 DEF Sessions, ReportTelemetry, L, Linked, At
  <2>2. thr' \in [Threads -> PolicyThreads] /\ Linked'
    BY <1>6 DEF PolicyThreads, ThreadPcs, Linked, L, At, Step, ReportTelemetry
  <2>3. QED
    BY <1>6, <2>1, <2>2 DEF ReportTelemetry
<1>7. CASE ReportState(t)
  <2>1. sess' \in [Loops -> Sessions]
    BY <1>7 DEF Sessions, ReportState, L, Linked, At, States
  <2>2. thr' \in [Threads -> PolicyThreads] /\ Linked'
    BY <1>7 DEF PolicyThreads, ThreadPcs, Linked, L, At, Step, ReportState
  <2>3. QED
    BY <1>7, <2>1, <2>2 DEF ReportState
<1>8. CASE HaltRobot(t)
  <2>1. node' \in Nodes
    BY <1>8 DEF Nodes, Halted, HaltRobot
  <2>2. thr' \in [Threads -> PolicyThreads] /\ Linked'
    BY <1>8 DEF PolicyThreads, ThreadPcs, Linked, L, At, Step, HaltRobot
  <2>3. QED
    BY <1>8, <2>1, <2>2 DEF HaltRobot
<1>9. CASE ShutPool(t)
  BY <1>9 DEF PolicyThreads, ThreadPcs, Linked, L, At, Step, ShutPool
<1>10. QED
  BY <1>1, <1>2, <1>3, <1>4, <1>5, <1>6, <1>7, <1>8, <1>9 DEF ThreadStep

LEMMA TypeStep == TypeInv /\ [Next]_vars => TypeInv'
<1>1. ASSUME TypeInv, NodeFault
      PROVE  TypeInv'
  BY <1>1 DEF TypeInv, TypeOK, Linked, Nodes, L, NodeFault
<1>2. ASSUME TypeInv, UNCHANGED vars
      PROVE  TypeInv'
  BY <1>2 DEF TypeInv, TypeOK, Linked, L, vars
<1>3. QED
  BY <1>1, <1>2, TypeArrive, TypeHandler, TypeThread DEF Next

\* Every reachable state is typed, and every request and policy thread past its
\* first step has its session.
THEOREM TypeInvariant == Spec => []TypeInv
BY TypeInit, TypeStep, PTL DEF Spec

\* Type correctness of ControlSession (control_loop.py, api/routes_control.py).
THEOREM TypeCorrect == Spec => []TypeOK
<1>1. TypeInv => TypeOK
  BY DEF TypeInv
<1>2. QED
  BY <1>1, TypeInvariant, PTL

-----------------------------------------------------------------------------
\* Constructing the RPC stub touches nothing else of the session.
LEMMA OpenClientKeeps ==
  ASSUME TypeInv, NEW k \in Loops, OpenClient(k)
  PROVE  \A l \in Loops : /\ sess'[l].state = sess[l].state
                          /\ sess'[l].adapter = sess[l].adapter
                          /\ sess'[l].thread = sess[l].thread
                          /\ sess'[l].tele = sess[l].tele
                          /\ sess[l].client = "live" => sess'[l].client = "live"
                          /\ sess'[l].client = "absent" => l # k /\ sess[l].client = "absent"
<1>1. \A l \in Loops : sess[l] \in Sessions
  BY DEF TypeInv, TypeOK
<1>2. QED
  BY <1>1 DEF TypeInv, TypeOK, Sessions, OpenClient

-----------------------------------------------------------------------------
(* Confirmation.                                                            *)

LEMMA ConfirmHandler ==
  ASSUME TypeInv, TypeInv', ConfirmInv, NEW h \in Handlers, HandlerStep(h)
  PROVE  ConfirmInv'
<1> USE DEF TypeInv, TypeOK, Linked, L, Jobs, ConfirmInv, PastChecks, ConnectOps
<1>1. CASE Create(h)
  BY <1>1 DEF Create, Job, NewLoop, Unbuilt, Sessions
<1>2. CASE Reject(h)
  BY <1>2 DEF Reject, Reply, IdleJob, Job, Sessions
<1>3. CASE RouteConnect(h)
  <2>1. L(h) \in Loops
    BY <1>3 DEF RouteConnect
  <2>2. \A g \in Handlers : PastChecks(g)' => PastChecks(g)
    BY <1>3 DEF RouteConnect, Goto
  <2>3. \A g \in Handlers : job'[g].loop = job[g].loop
    BY <1>3 DEF RouteConnect, Goto
  <2>4. \A l \in Loops : sess'[l].adapter = sess[l].adapter /\ sess'[l].state = sess[l].state
    BY <1>3, <2>1, OpenClientKeeps DEF RouteConnect
  <2>5. \A g \in Handlers : PastChecks(g) => job[g].loop \in Loops
    OBVIOUS
  <2> HIDE DEF PastChecks
  <2>6. QED
    BY <1>3, <2>2, <2>3, <2>4, <2>5 DEF RouteConnect
<1>4. CASE ConnectAnswered(h)
  <2>1. \A l \in Loops : sess'[l].adapter = sess[l].adapter /\ sess'[l].state = sess[l].state
    BY <1>4 DEF ConnectAnswered
  <2>2. thr' = thr /\ \A g \in Handlers : L(g)' = L(g) /\ (PastChecks(g)' => PastChecks(g))
    BY <1>4 DEF ConnectAnswered, Goto
  <2>3. \A g \in Handlers : PastChecks(g) => L(g) \in Loops
    OBVIOUS
  <2> HIDE DEF PastChecks
  <2>4. QED
    BY <2>1, <2>2, <2>3
<1>5. CASE ConnectRaised(h)
  BY <1>5 DEF ConnectRaised, Reply, IdleJob, Job, Sessions
<1>6. CASE MarkConnected(h)
  BY <1>6 DEF MarkConnected, Goto, Reply, IdleJob, Job, Sessions
<1>7. CASE RouteDetect(h)
  BY <1>7 DEF RouteDetect, Goto, DetectAllowed, Sessions
<1>8. CASE DetectSucceeded(h)
  BY <1>8 DEF DetectSucceeded, Reply, IdleJob, Job, Sessions
<1>9. CASE DetectRaised(h)
  BY <1>9 DEF DetectRaised, Reply, IdleJob, Job, Sessions
<1>10. CASE RouteConfirm(h)
  BY <1>10 DEF RouteConfirm, Reply, IdleJob, Job, Sessions
<1>11. CASE RouteStart(h)
  BY <1>11 DEF RouteStart, Goto, StartAllowed, Sessions
<1>12. CASE ResetDone(h)
  <2>1. L(h) \in Loops
    BY <1>12 DEF ResetDone
  <2>2. \A g \in Handlers : PastChecks(g)' => PastChecks(g)
    BY <1>12 DEF ResetDone, Goto
  <2>3. \A g \in Handlers : job'[g].loop = job[g].loop
    BY <1>12 DEF ResetDone, Goto
  <2>4. \A l \in Loops : sess'[l].adapter = sess[l].adapter /\ sess'[l].state = sess[l].state
    BY <1>12, <2>1, OpenClientKeeps DEF ResetDone
  <2>5. \A g \in Handlers : PastChecks(g) => job[g].loop \in Loops
    OBVIOUS
  <2> HIDE DEF PastChecks
  <2>6. QED
    BY <1>12, <2>2, <2>3, <2>4, <2>5 DEF ResetDone
<1>13. CASE Settled(h)
  BY <1>13 DEF Settled, Goto, Sessions
<1>14. CASE StartRaised(h)
  BY <1>14 DEF StartRaised, Reply, IdleJob, Job, Sessions
<1>15. CASE Launch(h)
  BY <1>15 DEF Launch, Goto, Sessions
<1>16. CASE MarkRunning(h)
  BY <1>16 DEF MarkRunning, Reply, IdleJob, Job, Sessions
<1>17. CASE SetStopEvt(h)
  BY <1>17 DEF SetStopEvt, Job, Sessions
<1>18. CASE Joined(h)
  BY <1>18 DEF Joined, Goto, Sessions
<1>19. CASE CheckError(h)
  BY <1>19 DEF CheckError, StopReturns, Goto, Reply, IdleJob, Job, Sessions
<1>20. CASE MarkStopped(h)
  BY <1>20 DEF MarkStopped, StopReturns, Goto, Reply, IdleJob, Job, Sessions
<1>21. CASE NodeStopAnswered(h)
  BY <1>21 DEF NodeStopAnswered, Goto, Sessions
<1>22. CASE NodeStopRaised(h)
  BY <1>22 DEF NodeStopRaised, Reply, IdleJob, Job, Sessions
<1>23. CASE AckEstop(h)
  BY <1>23 DEF AckEstop, Reply, IdleJob, Job, Sessions
<1>24. CASE Forget(h)
  BY <1>24 DEF Forget, Reply, IdleJob, Job, Sessions
<1>25. QED
  BY <1>1, <1>2, <1>3, <1>4, <1>5, <1>6, <1>7, <1>8, <1>9, <1>10, <1>11, <1>12,
     <1>13, <1>14, <1>15, <1>16, <1>17, <1>18, <1>19, <1>20, <1>21, <1>22, <1>23,
     <1>24 DEF HandlerStep

LEMMA ConfirmThread ==
  ASSUME TypeInv, TypeInv', ConfirmInv, NEW t \in Threads, ThreadStep(t)
  PROVE  ConfirmInv'
<1> USE DEF TypeInv, TypeOK, Linked, L, Sessions, PolicyThreads, At, Step,
   ConfirmInv, PastChecks, ConnectOps
<1>1. CASE FirstPredict(t)
  BY <1>1 DEF FirstPredict
<1>2. CASE TestStop(t)
  BY <1>2 DEF TestStop
<1>3. CASE Work(t)
  BY <1>3 DEF Work
<1>4. CASE Send(t)
  BY <1>4 DEF Send
<1>5. CASE Raise(t)
  BY <1>5 DEF Raise
<1>6. CASE ReportTelemetry(t)
  BY <1>6 DEF ReportTelemetry
<1>7. CASE ReportState(t)
  BY <1>7 DEF ReportState
<1>8. CASE HaltRobot(t)
  BY <1>8 DEF HaltRobot
<1>9. CASE ShutPool(t)
  BY <1>9 DEF ShutPool
<1>10. QED
  BY <1>1, <1>2, <1>3, <1>4, <1>5, <1>6, <1>7, <1>8, <1>9 DEF ThreadStep

LEMMA ConfirmStep ==
  ASSUME TypeInv, TypeInv', ConfirmInv, [Next]_vars
  PROVE  ConfirmInv'
<1> USE DEF TypeInv, TypeOK, Linked, L, Jobs, ConfirmInv, PastChecks, ConnectOps
<1>1. ASSUME NEW h \in Handlers, NEW op \in Requests, Arrive(h, op)
      PROVE  ConfirmInv'
  BY <1>1, NoneAssumption DEF Arrive, Job, StopOps
<1>2. CASE NodeFault
  BY <1>2 DEF NodeFault
<1>3. CASE UNCHANGED vars
  BY <1>3 DEF vars
<1>4. QED
  BY <1>1, <1>2, <1>3, ConfirmHandler, ConfirmThread DEF Next

\* A policy thread that may send targets belongs to a session whose format was
\* confirmed, for any number of server threads, sessions and policy threads and
\* any order of requests (README step 4).
THEOREM ConfirmedMotion == Spec => []NoMotionBeforeConfirm
<1>1. Init => ConfirmInv
  BY DEF Init, ConfirmInv, PastChecks, Unbuilt, IdleJob, Job
<1>2. TypeInv /\ TypeInv' /\ ConfirmInv /\ [Next]_vars => ConfirmInv'
  BY ConfirmStep
<1>3. ConfirmInv => NoMotionBeforeConfirm
  BY DEF ConfirmInv, NoMotionBeforeConfirm, Commanding
<1>4. QED
  BY <1>1, <1>2, <1>3, TypeInvariant, PTL DEF Spec

-----------------------------------------------------------------------------
(* Detection. The property is inductive as it stands.                       *)

LEMMA DetectingHandler ==
  ASSUME TypeInv, TypeInv', NeverStrandedDetecting, NEW h \in Handlers, HandlerStep(h)
  PROVE  NeverStrandedDetecting'
<1> USE DEF TypeInv, TypeOK, Linked, L, Jobs, NeverStrandedDetecting
<1>1. CASE Create(h)
  BY <1>1 DEF Create, Job, NewLoop, Unbuilt, Sessions
<1>2. CASE Reject(h)
  BY <1>2 DEF Reject, Reply, IdleJob, Job, Sessions
<1>3. CASE RouteConnect(h)
  <2>1. \A g \in Handlers : job[g].pc = "detect" => job'[g] = job[g]
    BY <1>3 DEF RouteConnect, Goto
  <2>2. \A l \in Loops : sess'[l].state = sess[l].state
    BY <1>3, OpenClientKeeps DEF RouteConnect
  <2>3. QED
    BY <2>1, <2>2
<1>4. CASE ConnectAnswered(h)
  BY <1>4 DEF ConnectAnswered, Goto, WantedMode, Sessions
<1>5. CASE ConnectRaised(h)
  BY <1>5 DEF ConnectRaised, Reply, IdleJob, Job, Sessions
<1>6. CASE MarkConnected(h)
  <2>1. \A g \in Handlers : job[g].pc = "detect" => job'[g] = job[g]
    BY <1>6 DEF MarkConnected, Goto, Reply
  <2>2. QED
    BY <1>6, <2>1 DEF MarkConnected, Sessions
<1>7. CASE RouteDetect(h)
  BY <1>7 DEF RouteDetect, Goto, DetectAllowed, Sessions
<1>8. CASE DetectSucceeded(h)
  BY <1>8 DEF DetectSucceeded, Reply, IdleJob, Job, Sessions
<1>9. CASE DetectRaised(h)
  BY <1>9 DEF DetectRaised, Reply, IdleJob, Job, Sessions
<1>10. CASE RouteConfirm(h)
  BY <1>10 DEF RouteConfirm, Reply, IdleJob, Job, Sessions
<1>11. CASE RouteStart(h)
  BY <1>11 DEF RouteStart, Goto, StartAllowed, Sessions
<1>12. CASE ResetDone(h)
  <2>1. \A g \in Handlers : job[g].pc = "detect" => job'[g] = job[g]
    BY <1>12 DEF ResetDone, Goto
  <2>2. \A l \in Loops : sess'[l].state = sess[l].state
    BY <1>12, OpenClientKeeps DEF ResetDone
  <2>3. QED
    BY <2>1, <2>2
<1>13. CASE Settled(h)
  BY <1>13 DEF Settled, Goto, Sessions
<1>14. CASE StartRaised(h)
  BY <1>14 DEF StartRaised, Reply, IdleJob, Job, Sessions
<1>15. CASE Launch(h)
  BY <1>15 DEF Launch, Goto, Sessions
<1>16. CASE MarkRunning(h)
  BY <1>16 DEF MarkRunning, Reply, IdleJob, Job, Sessions
<1>17. CASE SetStopEvt(h)
  BY <1>17 DEF SetStopEvt, Job, Sessions
<1>18. CASE Joined(h)
  BY <1>18 DEF Joined, Goto, Sessions
<1>19. CASE CheckError(h)
  <2>1. \A g \in Handlers : job[g].pc = "detect" => job'[g] = job[g]
    BY <1>19 DEF CheckError, StopReturns, Goto, Reply
  <2>2. QED
    BY <1>19, <2>1 DEF CheckError, Sessions
<1>20. CASE MarkStopped(h)
  <2>1. \A g \in Handlers : job[g].pc = "detect" => job'[g] = job[g]
    BY <1>20 DEF MarkStopped, StopReturns, Goto, Reply
  <2>2. QED
    BY <1>20, <2>1 DEF MarkStopped, Sessions
<1>21. CASE NodeStopAnswered(h)
  BY <1>21 DEF NodeStopAnswered, Goto, Sessions
<1>22. CASE NodeStopRaised(h)
  BY <1>22 DEF NodeStopRaised, Reply, IdleJob, Job, Sessions
<1>23. CASE AckEstop(h)
  BY <1>23 DEF AckEstop, Reply, IdleJob, Job, Sessions
<1>24. CASE Forget(h)
  BY <1>24 DEF Forget, Reply, IdleJob, Job, Sessions
<1>25. QED
  BY <1>1, <1>2, <1>3, <1>4, <1>5, <1>6, <1>7, <1>8, <1>9, <1>10, <1>11, <1>12,
     <1>13, <1>14, <1>15, <1>16, <1>17, <1>18, <1>19, <1>20, <1>21, <1>22, <1>23,
     <1>24 DEF HandlerStep

LEMMA DetectingThread ==
  ASSUME TypeInv, TypeInv', NeverStrandedDetecting, NEW t \in Threads, ThreadStep(t)
  PROVE  NeverStrandedDetecting'
<1> USE DEF TypeInv, TypeOK, Linked, L, Sessions, PolicyThreads, At, Step,
   NeverStrandedDetecting
<1>1. CASE FirstPredict(t)
  BY <1>1 DEF FirstPredict
<1>2. CASE TestStop(t)
  BY <1>2 DEF TestStop
<1>3. CASE Work(t)
  BY <1>3 DEF Work
<1>4. CASE Send(t)
  BY <1>4 DEF Send
<1>5. CASE Raise(t)
  BY <1>5 DEF Raise
<1>6. CASE ReportTelemetry(t)
  BY <1>6 DEF ReportTelemetry
<1>7. CASE ReportState(t)
  BY <1>7 DEF ReportState
<1>8. CASE HaltRobot(t)
  BY <1>8 DEF HaltRobot
<1>9. CASE ShutPool(t)
  BY <1>9 DEF ShutPool
<1>10. QED
  BY <1>1, <1>2, <1>3, <1>4, <1>5, <1>6, <1>7, <1>8, <1>9 DEF ThreadStep

LEMMA DetectingStep ==
  ASSUME TypeInv, TypeInv', NeverStrandedDetecting, [Next]_vars
  PROVE  NeverStrandedDetecting'
<1> USE DEF TypeInv, TypeOK, Linked, L, Jobs, NeverStrandedDetecting
<1>1. ASSUME NEW h \in Handlers, NEW op \in Requests, Arrive(h, op)
      PROVE  NeverStrandedDetecting'
  BY <1>1, NoneAssumption DEF Arrive, Job
<1>2. CASE NodeFault
  BY <1>2 DEF NodeFault
<1>3. CASE UNCHANGED vars
  BY <1>3 DEF vars
<1>4. QED
  BY <1>1, <1>2, <1>3, DetectingHandler, DetectingThread DEF Next

\* A session is "detecting" only while some request is in detect(), whatever
\* fails and whatever else is asked meanwhile (control_loop.py, detect()).
THEOREM DetectingIsAttended == Spec => []NeverStrandedDetecting
<1>1. Init => NeverStrandedDetecting
  BY DEF Init, NeverStrandedDetecting, Unbuilt
<1>2. TypeInv /\ TypeInv' /\ NeverStrandedDetecting /\ [Next]_vars
        => NeverStrandedDetecting'
  BY DetectingStep
<1>3. QED
  BY <1>1, <1>2, TypeInvariant, PTL DEF Spec

-----------------------------------------------------------------------------
(* One operator: the session that commands is the one the dashboard shows.  *)

LEMMA SequentialHandler ==
  ASSUME TypeInv, TypeInv', Disciplined, SequentialInv, NEW h \in Handlers, HandlerStep(h)
  PROVE  SequentialInv'
<1> USE DEF TypeInv, TypeOK, Linked, L, Jobs, SequentialInv, Quiet, NoneActive,
   Active, Commanding, Starting, Disciplined, ConnectOps, Finished
<1>1. CASE Create(h)
  BY <1>1 DEF Create, Job, NewLoop, Unbuilt, Sessions
<1>2. CASE Reject(h)
  BY <1>2 DEF Reject, Reply, IdleJob, Job, Sessions
<1>3. CASE RouteConnect(h)
  <2>1. L(h) \in Loops
    BY <1>3 DEF RouteConnect
  <2>2. QED
    BY <1>3, <2>1, OpenClientKeeps DEF RouteConnect, Goto
<1>4. CASE ConnectAnswered(h)
  BY <1>4 DEF ConnectAnswered, Goto, WantedMode, Sessions
<1>5. CASE ConnectRaised(h)
  BY <1>5 DEF ConnectRaised, Reply, IdleJob, Job, Sessions
<1>6. CASE MarkConnected(h)
  BY <1>6 DEF MarkConnected, Goto, Reply, IdleJob, Job, Sessions
<1>7. CASE RouteDetect(h)
  BY <1>7 DEF RouteDetect, Goto, DetectAllowed, Sessions
<1>8. CASE DetectSucceeded(h)
  BY <1>8 DEF DetectSucceeded, Reply, IdleJob, Job, Sessions
<1>9. CASE DetectRaised(h)
  BY <1>9 DEF DetectRaised, Reply, IdleJob, Job, Sessions
<1>10. CASE RouteConfirm(h)
  BY <1>10 DEF RouteConfirm, Reply, IdleJob, Job, Sessions
<1>11. CASE RouteStart(h)
  BY <1>11 DEF RouteStart, Goto, StartAllowed, Sessions
<1>12. CASE ResetDone(h)
  <2>1. L(h) \in Loops
    BY <1>12 DEF ResetDone
  <2>2. QED
    BY <1>12, <2>1, OpenClientKeeps DEF ResetDone, Goto
<1>13. CASE Settled(h)
  BY <1>13 DEF Settled, Goto, Sessions
<1>14. CASE StartRaised(h)
  BY <1>14 DEF StartRaised, Reply, IdleJob, Job, Sessions
<1>15. CASE Launch(h)
  BY <1>15 DEF Launch, Goto, Sessions
<1>16. CASE MarkRunning(h)
  BY <1>16 DEF MarkRunning, Reply, IdleJob, Job, Sessions
<1>17. CASE SetStopEvt(h)
  BY <1>17 DEF SetStopEvt, Job, Sessions
<1>18. CASE Joined(h)
  BY <1>18 DEF Joined, Goto, Sessions
<1>19. CASE CheckError(h)
  BY <1>19 DEF CheckError, StopReturns, Goto, Reply, IdleJob, Job, Sessions
<1>20. CASE MarkStopped(h)
  BY <1>20 DEF MarkStopped, StopReturns, Goto, Reply, IdleJob, Job, Sessions
<1>21. CASE NodeStopAnswered(h)
  BY <1>21 DEF NodeStopAnswered, Goto, Sessions
<1>22. CASE NodeStopRaised(h)
  BY <1>22 DEF NodeStopRaised, Reply, IdleJob, Job, Sessions
<1>23. CASE AckEstop(h)
  BY <1>23 DEF AckEstop, Reply, IdleJob, Job, Sessions
<1>24. CASE Forget(h)
  BY <1>24 DEF Forget, Reply, IdleJob, Job, Sessions
<1>25. QED
  BY <1>1, <1>2, <1>3, <1>4, <1>5, <1>6, <1>7, <1>8, <1>9, <1>10, <1>11, <1>12,
     <1>13, <1>14, <1>15, <1>16, <1>17, <1>18, <1>19, <1>20, <1>21, <1>22, <1>23,
     <1>24 DEF HandlerStep

LEMMA SequentialThread ==
  ASSUME TypeInv, TypeInv', Disciplined, SequentialInv, NEW t \in Threads, ThreadStep(t)
  PROVE  SequentialInv'
<1> USE DEF TypeInv, TypeOK, Linked, L, Sessions, PolicyThreads, At, Step,
   SequentialInv, Quiet, NoneActive, Active, Commanding, Starting, Disciplined,
   ConnectOps, Finished
<1>1. CASE FirstPredict(t)
  BY <1>1 DEF FirstPredict
<1>2. CASE TestStop(t)
  BY <1>2 DEF TestStop
<1>3. CASE Work(t)
  BY <1>3 DEF Work
<1>4. CASE Send(t)
  BY <1>4 DEF Send
<1>5. CASE Raise(t)
  BY <1>5 DEF Raise
<1>6. CASE ReportTelemetry(t)
  BY <1>6 DEF ReportTelemetry
<1>7. CASE ReportState(t)
  BY <1>7 DEF ReportState
<1>8. CASE HaltRobot(t)
  BY <1>8 DEF HaltRobot
<1>9. CASE ShutPool(t)
  BY <1>9 DEF ShutPool
<1>10. QED
  BY <1>1, <1>2, <1>3, <1>4, <1>5, <1>6, <1>7, <1>8, <1>9 DEF ThreadStep

LEMMA SequentialStep ==
  ASSUME TypeInv, TypeInv', Disciplined, SequentialInv, [Next]_vars
  PROVE  SequentialInv'
<1> USE DEF TypeInv, TypeOK, Linked, L, Jobs, SequentialInv, Quiet, NoneActive,
   Active, Commanding, Starting, Disciplined, ConnectOps, Finished
<1>1. ASSUME NEW h \in Handlers, NEW op \in Requests, Arrive(h, op)
      PROVE  SequentialInv'
  BY <1>1, NoneAssumption DEF Arrive, Job, Documented
<1>2. CASE NodeFault
  BY <1>2 DEF NodeFault
<1>3. CASE UNCHANGED vars
  BY <1>3 DEF vars
<1>4. QED
  BY <1>1, <1>2, <1>3, SequentialHandler, SequentialThread DEF Next

LEMMA SequentialAlways ==
  ASSUME Disciplined
  PROVE  Spec => []SequentialInv
<1>1. Init => SequentialInv
  BY DEF Init, SequentialInv, Quiet, Active, Commanding, IdleJob, Job
<1>2. TypeInv /\ TypeInv' /\ SequentialInv /\ [Next]_vars => SequentialInv'
  BY SequentialStep
<1>3. QED
  BY <1>1, <1>2, TypeInvariant, PTL DEF Spec

\* With one operator in the documented order and policy requests shorter than
\* the join of stop(), motion and the state shown agree, for any number of
\* sessions and policy threads.
THEOREM ShownStateIsMotion ==
  ASSUME Disciplined
  PROVE  Spec => []MotionMeansRunning
<1>1. SequentialInv => MotionMeansRunning
  BY DEF SequentialInv, MotionMeansRunning, Active
<1>2. QED
  BY <1>1, SequentialAlways, PTL

\* Under the same assumptions two policy threads never command the robot.
THEOREM OneCommander ==
  ASSUME Disciplined
  PROVE  Spec => []SingleCommander
<1>1. SequentialInv => SingleCommander
  BY DEF SequentialInv, SingleCommander, Active
<1>2. QED
  BY <1>1, SequentialAlways, PTL

-----------------------------------------------------------------------------
(* A session is commanded only after its stub was switched to live.         *)

LEMMA LiveHandler ==
  ASSUME TypeInv, TypeInv', Disciplined, SequentialInv, LiveInv,
         NEW h \in Handlers, HandlerStep(h)
  PROVE  LiveInv'
<1> USE DEF TypeInv, TypeOK, Linked, L, Jobs, Sessions, SequentialInv, Quiet, NoneActive,
   Active, Commanding, Disciplined, ConnectOps, Switched, LiveInv
<1>1. CASE Create(h)
  BY <1>1 DEF Create, Job, NewLoop, Unbuilt
<1>2. CASE Reject(h)
  BY <1>2 DEF Reject, Reply, IdleJob, Job
<1>3. CASE RouteConnect(h)
  <2>1. cur \in Loops /\ cur' = cur /\ thr' = thr
    BY <1>3 DEF RouteConnect
  <2>2. sess[cur].client = "live" => sess'[cur].client = "live"
    BY <1>3, <2>1, OpenClientKeeps DEF RouteConnect
  <2>3. \A g \in Handlers : ~Switched(g)'
    BY <1>3 DEF RouteConnect, Goto
  <2>4. QED
    BY <2>1, <2>2, <2>3
<1>4. CASE ConnectAnswered(h)
  BY <1>4 DEF ConnectAnswered, Goto, WantedMode
<1>5. CASE ConnectRaised(h)
  BY <1>5 DEF ConnectRaised, Reply, IdleJob, Job
<1>6. CASE MarkConnected(h)
  BY <1>6 DEF MarkConnected, Goto, Reply, IdleJob, Job
<1>7. CASE RouteDetect(h)
  BY <1>7 DEF RouteDetect, Goto
<1>8. CASE DetectSucceeded(h)
  BY <1>8 DEF DetectSucceeded, Reply, IdleJob, Job
<1>9. CASE DetectRaised(h)
  BY <1>9 DEF DetectRaised, Reply, IdleJob, Job
<1>10. CASE RouteConfirm(h)
  BY <1>10 DEF RouteConfirm, Reply, IdleJob, Job
<1>11. CASE RouteStart(h)
  BY <1>11 DEF RouteStart, Goto
<1>12. CASE ResetDone(h)
  <2>1. cur \in Loops /\ cur' = cur /\ thr' = thr
    BY <1>12 DEF ResetDone
  <2>2. sess[cur].client = "live" => sess'[cur].client = "live"
    BY <1>12, <2>1, OpenClientKeeps DEF ResetDone
  <2>3. QED
    BY <1>12, <2>1, <2>2 DEF ResetDone, Goto
<1>13. CASE Settled(h)
  BY <1>13 DEF Settled, Goto
<1>14. CASE StartRaised(h)
  BY <1>14 DEF StartRaised, Reply, IdleJob, Job
<1>15. CASE Launch(h)
  <2>1. \A l \in Loops : sess'[l].client = sess[l].client
    BY <1>15 DEF Launch
  <2>2. cur' = cur /\ L(h) = cur /\ cur \in Loops
    BY <1>15 DEF Launch
  <2>3. sess[cur].client = "live"
    BY <1>15 DEF Launch
  <2>4. sess'[cur'].client = "live"
    BY <2>1, <2>2, <2>3
  <2>5. QED
    BY <1>15, <2>4 DEF Launch, Goto
<1>16. CASE MarkRunning(h)
  BY <1>16 DEF MarkRunning, Reply, IdleJob, Job
<1>17. CASE SetStopEvt(h)
  BY <1>17 DEF SetStopEvt, Job
<1>18. CASE Joined(h)
  BY <1>18 DEF Joined, Goto
<1>19. CASE CheckError(h)
  BY <1>19 DEF CheckError, StopReturns, Goto, Reply, IdleJob, Job
<1>20. CASE MarkStopped(h)
  BY <1>20 DEF MarkStopped, StopReturns, Goto, Reply, IdleJob, Job
<1>21. CASE NodeStopAnswered(h)
  BY <1>21 DEF NodeStopAnswered, Goto
<1>22. CASE NodeStopRaised(h)
  BY <1>22 DEF NodeStopRaised, Reply, IdleJob, Job
<1>23. CASE AckEstop(h)
  BY <1>23 DEF AckEstop, Reply, IdleJob, Job
<1>24. CASE Forget(h)
  BY <1>24 DEF Forget, Reply, IdleJob, Job
<1>25. QED
  BY <1>1, <1>2, <1>3, <1>4, <1>5, <1>6, <1>7, <1>8, <1>9, <1>10, <1>11, <1>12,
     <1>13, <1>14, <1>15, <1>16, <1>17, <1>18, <1>19, <1>20, <1>21, <1>22, <1>23,
     <1>24 DEF HandlerStep

LEMMA LiveThread ==
  ASSUME TypeInv, TypeInv', Disciplined, SequentialInv, LiveInv,
         NEW t \in Threads, ThreadStep(t)
  PROVE  LiveInv'
<1> USE DEF TypeInv, TypeOK, Linked, L, Jobs, Sessions, SequentialInv, Quiet, NoneActive,
   Active, Commanding, Disciplined, ConnectOps, Switched, LiveInv, PolicyThreads, At, Step
<1>1. CASE FirstPredict(t)
  BY <1>1 DEF FirstPredict
<1>2. CASE TestStop(t)
  BY <1>2 DEF TestStop
<1>3. CASE Work(t)
  BY <1>3 DEF Work
<1>4. CASE Send(t)
  BY <1>4 DEF Send
<1>5. CASE Raise(t)
  BY <1>5 DEF Raise
<1>6. CASE ReportTelemetry(t)
  BY <1>6 DEF ReportTelemetry
<1>7. CASE ReportState(t)
  BY <1>7 DEF ReportState
<1>8. CASE HaltRobot(t)
  BY <1>8 DEF HaltRobot
<1>9. CASE ShutPool(t)
  BY <1>9 DEF ShutPool
<1>10. QED
  BY <1>1, <1>2, <1>3, <1>4, <1>5, <1>6, <1>7, <1>8, <1>9 DEF ThreadStep

LEMMA LiveStep ==
  ASSUME TypeInv, TypeInv', Disciplined, SequentialInv, LiveInv, [Next]_vars
  PROVE  LiveInv'
<1> USE DEF TypeInv, TypeOK, Linked, L, Jobs, Sessions, SequentialInv, Quiet, NoneActive,
   Active, Commanding, Disciplined, ConnectOps, Switched, LiveInv
<1>1. ASSUME NEW h \in Handlers, NEW op \in Requests, Arrive(h, op)
      PROVE  LiveInv'
  BY <1>1 DEF Arrive, Job
<1>2. CASE NodeFault
  BY <1>2 DEF NodeFault
<1>3. CASE UNCHANGED vars
  BY <1>3 DEF vars
<1>4. QED
  BY <1>1, <1>2, <1>3, LiveHandler, LiveThread DEF Next

\* Under the same assumptions a policy thread only ever commands through a stub
\* that start() or the operator switched to live.
THEOREM CommandsAreLive ==
  ASSUME Disciplined
  PROVE  Spec => []CommanderIsLive
<1>1. Init => LiveInv
  BY DEF Init, LiveInv, Switched, IdleJob, Job, Commanding
<1>2. TypeInv /\ TypeInv' /\ SequentialInv /\ LiveInv /\ [Next]_vars => LiveInv'
  BY LiveStep
<1>3. SequentialInv /\ LiveInv => CommanderIsLive
  BY DEF SequentialInv, LiveInv, CommanderIsLive, Active, Commanding
<1>4. QED
  BY <1>1, <1>2, <1>3, SequentialAlways, TypeInvariant, PTL DEF Spec

-----------------------------------------------------------------------------
(* An emergency stop that answers has silenced the robot.                   *)

LEMMA SilentHandler ==
  ASSUME TypeInv, TypeInv', Disciplined, SequentialInv, SilentInv,
         NEW h \in Handlers, HandlerStep(h)
  PROVE  SilentInv'
<1> USE DEF TypeInv, TypeOK, Linked, L, Jobs, Sessions, SequentialInv, Quiet, NoneActive,
   Active, Commanding, Disciplined, ConnectOps, StopOps, SilentInv
<1>1. CASE Create(h)
  BY <1>1 DEF Create, Job, NewLoop, Unbuilt, Opened
<1>2. CASE Reject(h)
  BY <1>2 DEF Reject, Reply, IdleJob, Job
<1>3. CASE RouteConnect(h)
  <2>1. L(h) = cur /\ cur \in Loops /\ cur' = cur /\ node' = node
    BY <1>3 DEF RouteConnect
  <2>2. \A l \in Loops : sess'[l].client = "absent" => l # cur
    BY <1>3, <2>1, OpenClientKeeps DEF RouteConnect
  <2>3. \A g \in Handlers : job'[g].pc \in {job[g].pc, "rpc_connect"}
    BY <1>3 DEF RouteConnect, Goto
  <2>4. cur # None
    BY <2>1, NoneAssumption
  <2>5. \A g \in Handlers : job[g].pc # "create"
    BY <2>4
  <2>6. QED
    BY <2>1, <2>2, <2>3, <2>4, <2>5
<1>4. CASE ConnectAnswered(h)
  BY <1>4, NoneAssumption DEF ConnectAnswered, Goto, WantedMode, Opened
<1>5. CASE ConnectRaised(h)
  BY <1>5, NoneAssumption DEF ConnectRaised, Reply, IdleJob, Job, Halted, Opened, Nodes
<1>6. CASE MarkConnected(h)
  BY <1>6 DEF MarkConnected, Goto, Reply, IdleJob, Job
<1>7. CASE RouteDetect(h)
  BY <1>7 DEF RouteDetect, Goto
<1>8. CASE DetectSucceeded(h)
  BY <1>8 DEF DetectSucceeded, Reply, IdleJob, Job
<1>9. CASE DetectRaised(h)
  BY <1>9 DEF DetectRaised, Reply, IdleJob, Job
<1>10. CASE RouteConfirm(h)
  BY <1>10 DEF RouteConfirm, Reply, IdleJob, Job
<1>11. CASE RouteStart(h)
  BY <1>11 DEF RouteStart, Goto
<1>12. CASE ResetDone(h)
  BY <1>12 DEF ResetDone, Goto, OpenClient
<1>13. CASE Settled(h)
  BY <1>13 DEF Settled, Goto
<1>14. CASE StartRaised(h)
  BY <1>14 DEF StartRaised, Reply, IdleJob, Job
<1>15. CASE Launch(h)
  BY <1>15 DEF Launch, Goto
<1>16. CASE MarkRunning(h)
  BY <1>16 DEF MarkRunning, Reply, IdleJob, Job
<1>17. CASE SetStopEvt(h)
  BY <1>17 DEF SetStopEvt, Job
<1>18. CASE Joined(h)
  BY <1>18 DEF Joined, Goto
<1>19. CASE CheckError(h)
  BY <1>19 DEF CheckError, StopReturns, Goto, Reply, IdleJob, Job, Opened
<1>20. CASE MarkStopped(h)
  BY <1>20 DEF MarkStopped, StopReturns, Goto, Reply, IdleJob, Job
<1>21. CASE NodeStopAnswered(h)
  BY <1>21 DEF NodeStopAnswered, Goto, Halted, Opened, Nodes
<1>22. CASE NodeStopRaised(h)
  BY <1>22 DEF NodeStopRaised, Reply, IdleJob, Job, Halted, Opened, Nodes
<1>23. CASE AckEstop(h)
  BY <1>23 DEF AckEstop, Reply, IdleJob, Job
<1>24. CASE Forget(h)
  BY <1>24 DEF Forget, Reply, IdleJob, Job, Opened
<1>25. QED
  BY <1>1, <1>2, <1>3, <1>4, <1>5, <1>6, <1>7, <1>8, <1>9, <1>10, <1>11, <1>12,
     <1>13, <1>14, <1>15, <1>16, <1>17, <1>18, <1>19, <1>20, <1>21, <1>22, <1>23,
     <1>24 DEF HandlerStep

LEMMA SilentThread ==
  ASSUME TypeInv, TypeInv', Disciplined, SequentialInv, SilentInv,
         NEW t \in Threads, ThreadStep(t)
  PROVE  SilentInv'
<1> USE DEF TypeInv, TypeOK, Linked, L, Jobs, Sessions, SequentialInv, Quiet, NoneActive,
   Active, Commanding, Disciplined, ConnectOps, StopOps, SilentInv, PolicyThreads, At, Step
<1>1. CASE FirstPredict(t)
  BY <1>1 DEF FirstPredict
<1>2. CASE TestStop(t)
  BY <1>2 DEF TestStop
<1>3. CASE Work(t)
  BY <1>3 DEF Work
<1>4. CASE Send(t)
  BY <1>4 DEF Send
<1>5. CASE Raise(t)
  BY <1>5 DEF Raise
<1>6. CASE ReportTelemetry(t)
  BY <1>6 DEF ReportTelemetry
<1>7. CASE ReportState(t)
  BY <1>7 DEF ReportState
<1>8. CASE HaltRobot(t)
  <2>1. Halted # Opened("live")
    <3>1. node.health \in {"running", "stopped", "error"}
      BY DEF Nodes
    <3>2. Halted.health # "running"
      BY <3>1 DEF Halted, Nodes
    <3>3. QED
      BY <3>2 DEF Opened
  <2>2. node' = Opened("live") => node = Opened("live")
    BY <1>8, <2>1 DEF HaltRobot
  <2>3. QED
    BY <1>8, <2>2 DEF HaltRobot
<1>9. CASE ShutPool(t)
  BY <1>9 DEF ShutPool
<1>10. QED
  BY <1>1, <1>2, <1>3, <1>4, <1>5, <1>6, <1>7, <1>8, <1>9 DEF ThreadStep

LEMMA SilentStep ==
  ASSUME TypeInv, TypeInv', Disciplined, SequentialInv, SilentInv, [Next]_vars
  PROVE  SilentInv'
<1> USE DEF TypeInv, TypeOK, Linked, L, Jobs, Sessions, SequentialInv, Quiet, NoneActive,
   Active, Commanding, Disciplined, ConnectOps, StopOps, SilentInv
<1>1. ASSUME NEW h \in Handlers, NEW op \in Requests, Arrive(h, op)
      PROVE  SilentInv'
  BY <1>1 DEF Arrive, Job
<1>2. CASE NodeFault
  BY <1>2 DEF NodeFault, Opened
<1>3. CASE UNCHANGED vars
  BY <1>3 DEF vars
<1>4. QED
  BY <1>1, <1>2, <1>3, SilentHandler, SilentThread DEF Next

\* Under the same assumptions no thread commands and no live runtime runs when
\* /estop acknowledges or /disconnect drops the session.
THEOREM EstopIsSilence ==
  ASSUME Disciplined
  PROVE  Spec => []EstopSilences
<1>1. Init => SilentInv
  BY DEF Init, SilentInv, IdleJob, Job, NoRuntime, Opened
<1>2. TypeInv /\ TypeInv' /\ SequentialInv /\ SilentInv /\ [Next]_vars => SilentInv'
  BY SilentStep
<1>3. SequentialInv /\ SilentInv => EstopSilences
  BY DEF SequentialInv, SilentInv, EstopSilences, Quiet, NoneActive, Active
<1>4. QED
  BY <1>1, <1>2, <1>3, SequentialAlways, TypeInvariant, PTL DEF Spec

-----------------------------------------------------------------------------
(* An exception of the latest policy thread is not overwritten.             *)

\* A step that leaves the threads and what sessions say of them alone keeps
\* the errors visible.
LEMMA VisibleKept ==
  ASSUME VisibleInv, thr' = thr,
         \A l \in Loops : sess'[l].thread = sess[l].thread /\ sess'[l].tele = sess[l].tele
  PROVE  VisibleInv'
BY DEF VisibleInv

LEMMA VisibleHandler ==
  ASSUME TypeInv, TypeInv', Disciplined, SequentialInv, VisibleInv,
         NEW h \in Handlers, HandlerStep(h)
  PROVE  VisibleInv'
<1> USE DEF TypeInv, TypeOK, Linked, L, Jobs, Sessions, SequentialInv, Quiet, NoneActive,
   Active, Commanding, Disciplined, ConnectOps, VisibleInv
<1>1. CASE Create(h)
  BY <1>1 DEF Create, Job, NewLoop, Unbuilt
<1>2. CASE Reject(h)
  BY <1>2 DEF Reject, Reply, IdleJob, Job
<1>3. CASE RouteConnect(h)
  BY <1>3, OpenClientKeeps DEF RouteConnect, Goto
<1>4. CASE ConnectAnswered(h)
  <2>1. \A l \in Loops : sess'[l].thread = sess[l].thread /\ sess'[l].tele = sess[l].tele
    BY <1>4 DEF ConnectAnswered
  <2>2. QED
    BY <1>4, <2>1, VisibleKept DEF ConnectAnswered
<1>5. CASE ConnectRaised(h)
  BY <1>5 DEF ConnectRaised, Reply, IdleJob, Job
<1>6. CASE MarkConnected(h)
  <2>1. \A l \in Loops : sess'[l].thread = sess[l].thread /\ sess'[l].tele = sess[l].tele
    BY <1>6 DEF MarkConnected
  <2>2. QED
    BY <1>6, <2>1, VisibleKept DEF MarkConnected
<1>7. CASE RouteDetect(h)
  <2>1. \A l \in Loops : sess'[l].thread = sess[l].thread /\ sess'[l].tele = sess[l].tele
    BY <1>7 DEF RouteDetect
  <2>2. QED
    BY <1>7, <2>1, VisibleKept DEF RouteDetect
<1>8. CASE DetectSucceeded(h)
  <2>1. \A l \in Loops : sess'[l].thread = sess[l].thread /\ sess'[l].tele = sess[l].tele
    BY <1>8 DEF DetectSucceeded
  <2>2. QED
    BY <1>8, <2>1, VisibleKept DEF DetectSucceeded
<1>9. CASE DetectRaised(h)
  <2>1. \A l \in Loops : sess'[l].thread = sess[l].thread /\ sess'[l].tele = sess[l].tele
    BY <1>9 DEF DetectRaised
  <2>2. QED
    BY <1>9, <2>1, VisibleKept DEF DetectRaised
<1>10. CASE RouteConfirm(h)
  <2>1. \A l \in Loops : sess'[l].thread = sess[l].thread /\ sess'[l].tele = sess[l].tele
    BY <1>10 DEF RouteConfirm
  <2>2. QED
    BY <1>10, <2>1, VisibleKept DEF RouteConfirm
<1>11. CASE RouteStart(h)
  BY <1>11 DEF RouteStart, Goto
<1>12. CASE ResetDone(h)
  BY <1>12, OpenClientKeeps DEF ResetDone, Goto
<1>13. CASE Settled(h)
  BY <1>13 DEF Settled, Goto
<1>14. CASE StartRaised(h)
  BY <1>14 DEF StartRaised, Reply, IdleJob, Job
<1>15. CASE Launch(h)
  BY <1>15 DEF Launch, Goto
<1>16. CASE MarkRunning(h)
  <2>1. \A l \in Loops : sess'[l].thread = sess[l].thread /\ sess'[l].tele = sess[l].tele
    BY <1>16 DEF MarkRunning
  <2>2. QED
    BY <1>16, <2>1, VisibleKept DEF MarkRunning
<1>17. CASE SetStopEvt(h)
  <2>1. \A l \in Loops : sess'[l].thread = sess[l].thread /\ sess'[l].tele = sess[l].tele
    <3>1. sess' = [sess EXCEPT ![L(h)].stopEvt = TRUE]
      BY <1>17 DEF SetStopEvt
    <3>2. \A l \in Loops : sess[l] \in Sessions
      OBVIOUS
    <3> HIDE DEF L, VisibleInv, SequentialInv
    <3>3. QED
      BY <3>1, <3>2
  <2>2. QED
    BY <1>17, <2>1, VisibleKept DEF SetStopEvt
<1>18. CASE Joined(h)
  BY <1>18 DEF Joined, Goto
<1>19. CASE CheckError(h)
  BY <1>19 DEF CheckError, StopReturns, Goto, Reply, IdleJob, Job
<1>20. CASE MarkStopped(h)
  <2>1. \A l \in Loops : sess'[l].thread = sess[l].thread /\ sess'[l].tele = sess[l].tele
    BY <1>20 DEF MarkStopped
  <2>2. QED
    BY <1>20, <2>1, VisibleKept DEF MarkStopped
<1>21. CASE NodeStopAnswered(h)
  BY <1>21 DEF NodeStopAnswered, Goto
<1>22. CASE NodeStopRaised(h)
  BY <1>22 DEF NodeStopRaised, Reply, IdleJob, Job
<1>23. CASE AckEstop(h)
  BY <1>23 DEF AckEstop, Reply, IdleJob, Job
<1>24. CASE Forget(h)
  BY <1>24 DEF Forget, Reply, IdleJob, Job
<1>25. QED
  BY <1>1, <1>2, <1>3, <1>4, <1>5, <1>6, <1>7, <1>8, <1>9, <1>10, <1>11, <1>12,
     <1>13, <1>14, <1>15, <1>16, <1>17, <1>18, <1>19, <1>20, <1>21, <1>22, <1>23,
     <1>24 DEF HandlerStep

\* A move of a policy thread that tells its own session what the move requires,
\* and no other session anything but an error, keeps the errors visible.
LEMMA VisibleMove ==
  ASSUME TypeInv, VisibleInv, NEW t \in Threads, NEW pc, pc # "free",
         thr' = [thr EXCEPT ![t].pc = pc],
         \A l \in Loops : sess'[l].thread = sess[l].thread,
         \A l \in Loops : sess[l].thread # t => sess'[l].tele \in {sess[l].tele, "error"},
         pc \in {"report", "halt", "bury", "dead"} =>
           \A l \in Loops : sess[l].thread = t => sess'[l].tele = "error"
  PROVE  VisibleInv'
<1> SUFFICES ASSUME NEW l \in Loops, sess'[l].thread # None
             PROVE  /\ thr'[sess'[l].thread].owner = l
                    /\ thr'[sess'[l].thread].pc # "free"
                    /\ thr'[sess'[l].thread].pc \in {"report", "halt", "bury", "dead"}
                         => sess'[l].tele = "error"
  BY DEF VisibleInv
<1> DEFINE u == sess[l].thread
<1>1. u \in Threads /\ sess'[l].thread = u
  BY DEF TypeInv, TypeOK, Sessions
<1>2. /\ thr[u].owner = l
      /\ thr[u].pc # "free"
      /\ thr[u].pc \in {"report", "halt", "bury", "dead"} => sess[l].tele = "error"
  BY <1>1 DEF VisibleInv
<1>3. \A v \in Threads : thr[v] \in PolicyThreads
  BY DEF TypeInv, TypeOK
<1>4. CASE u = t
  <2>1. thr'[u].owner = l /\ thr'[u].pc = pc
    BY <1>1, <1>2, <1>3, <1>4 DEF TypeInv, TypeOK, PolicyThreads
  <2>2. QED
    BY <1>1, <1>4, <2>1
<1>5. CASE u # t
  <2>1. thr'[u] = thr[u]
    BY <1>1, <1>5 DEF TypeInv, TypeOK
  <2>2. QED
    BY <1>1, <1>2, <1>5, <2>1
<1>6. QED
  BY <1>4, <1>5

LEMMA VisibleThread ==
  ASSUME TypeInv, TypeInv', Disciplined, SequentialInv, VisibleInv,
         NEW t \in Threads, ThreadStep(t)
  PROVE  VisibleInv'
<1> USE DEF TypeInv, TypeOK, Linked, L, Jobs, Sessions, SequentialInv, Quiet, NoneActive,
   Active, Commanding, Disciplined, ConnectOps, VisibleInv, PolicyThreads, At, Step
<1>1. CASE FirstPredict(t)
  BY <1>1 DEF FirstPredict
<1>2. CASE TestStop(t)
  BY <1>2 DEF TestStop
<1>3. CASE Work(t)
  BY <1>3 DEF Work
<1>4. CASE Send(t)
  <2>1. thr[t].owner \in Loops /\ thr' = [thr EXCEPT ![t].pc = "top"]
    BY <1>4 DEF Send
  <2>2. \A l \in Loops : sess'[l].thread = sess[l].thread
    BY <1>4, <2>1 DEF Send
  <2>3. \A l \in Loops : sess[l].thread # t => sess'[l].tele = sess[l].tele
    BY <1>4, <2>1 DEF Send
  <2>4. QED
    BY <2>1, <2>2, <2>3, VisibleMove
<1>5. CASE Raise(t)
  BY <1>5 DEF Raise
<1>6. CASE ReportTelemetry(t)
  <2>1. thr[t].owner \in Loops /\ thr' = [thr EXCEPT ![t].pc = "report"]
    BY <1>6 DEF ReportTelemetry
  <2>2. \A l \in Loops : sess'[l].thread = sess[l].thread
    BY <1>6, <2>1 DEF ReportTelemetry
  <2>3. \A l \in Loops : sess'[l].tele = IF l = thr[t].owner THEN "error" ELSE sess[l].tele
    BY <1>6, <2>1 DEF ReportTelemetry
  <2>4. \A l \in Loops : sess[l].thread = t => sess'[l].tele = "error"
    BY <2>3, NoneAssumption
  <2>5. QED
    BY <2>1, <2>2, <2>3, <2>4, VisibleMove
<1>7. CASE ReportState(t)
  <2>1. thr[t].owner \in Loops /\ thr' = [thr EXCEPT ![t].pc = "halt"]
    BY <1>7 DEF ReportState
  <2>2. \A l \in Loops : sess'[l].thread = sess[l].thread
    BY <1>7, <2>1 DEF ReportState
  <2>3. \A l \in Loops : sess'[l].tele = sess[l].tele
    BY <1>7, <2>1 DEF ReportState
  <2>4. \A l \in Loops : sess[l].thread = t => sess'[l].tele = "error"
    BY <1>7, <2>3, NoneAssumption DEF ReportState
  <2>5. QED
    BY <2>1, <2>2, <2>3, <2>4, VisibleMove
<1>8. CASE HaltRobot(t)
  BY <1>8 DEF HaltRobot
<1>9. CASE ShutPool(t)
  BY <1>9 DEF ShutPool
<1>10. QED
  BY <1>1, <1>2, <1>3, <1>4, <1>5, <1>6, <1>7, <1>8, <1>9 DEF ThreadStep

LEMMA VisibleStep ==
  ASSUME TypeInv, TypeInv', Disciplined, SequentialInv, VisibleInv, [Next]_vars
  PROVE  VisibleInv'
<1> USE DEF TypeInv, TypeOK, Linked, L, Jobs, Sessions, SequentialInv, Quiet, NoneActive,
   Active, Commanding, Disciplined, ConnectOps, VisibleInv
<1>1. ASSUME NEW h \in Handlers, NEW op \in Requests, Arrive(h, op)
      PROVE  VisibleInv'
  BY <1>1, NoneAssumption DEF Arrive, Job
<1>2. CASE NodeFault
  BY <1>2 DEF NodeFault
<1>3. CASE UNCHANGED vars
  BY <1>3 DEF vars
<1>4. QED
  BY <1>1, <1>2, <1>3, VisibleHandler, VisibleThread DEF Next

\* Under the same assumptions the telemetry shows the exception that ended the
\* latest policy thread until the next start().
THEOREM ErrorIsShown ==
  ASSUME Disciplined
  PROVE  Spec => []ErrorStaysVisible
<1>1. Init => VisibleInv
  BY DEF Init, VisibleInv, Unbuilt
<1>2. TypeInv /\ TypeInv' /\ SequentialInv /\ VisibleInv /\ [Next]_vars => VisibleInv'
  BY VisibleStep
<1>3. SequentialInv /\ VisibleInv => ErrorStaysVisible
  BY DEF SequentialInv, VisibleInv, ErrorStaysVisible, Active
<1>4. QED
  BY <1>1, <1>2, <1>3, SequentialAlways, TypeInvariant, PTL DEF Spec

=============================================================================
