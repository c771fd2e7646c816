----------------------------- MODULE RobotNode -----------------------------
(***************************************************************************)
(* The robot node process: the serve() loop of robot/robot_node.py, which  *)
(* executes one call at a time, the FR3Runtime objects it makes            *)
(* (robot/fr3_runtime.py) and their background threads, each of which      *)
(* talks to the robot until told to stop or until an exception ends it.    *)
(*                                                                         *)
(* Speeds are counted in steps of what one control cycle may add to or     *)
(* take from them (a_max * dt); 0 is below decel_vel_tol.                  *)
(***************************************************************************)
EXTENDS Integers

CONSTANTS
  Runtimes,  \* FR3Runtime objects alive at once (a bound; dead ones are reused)
  None,      \* no object
  TopSpeed   \* bound on the speed, in steps

ASSUME RuntimesAssumption == None \notin Runtimes
ASSUME SpeedAssumption == TopSpeed \in Nat \ {0}

VARIABLES
  slowRead,  \* a read of the robot may outlast the join of stop(); never changes
  runtime,   \* RobotNode.runtime
  main,      \* the serve() loop: where it is, in which method, what it last replied
  obj        \* the FR3Runtime objects, each with the locals of its thread

vars == <<slowRead, runtime, main, obj>>

-----------------------------------------------------------------------------
Connects == {"connect_ro", "connect_live"}
Closing == Connects \cup {"stop", "disconnect"}
Methods == Closing \cup {"get_state", "set_joint_target"}

\* Slip: the method's name passed on as the mode.
ModeIsMethod(method) == method

ModeOf(method) == IF method = "connect_ro" THEN "ro" ELSE "live"

MainPcs == {"recv", "dispatch", "decel", "set_stop", "join", "closed", "latch_wait"}

Mains == [pc    : MainPcs,
          op    : Methods \cup {"none"},
          new   : Runtimes \cup {None},
          reply : {"none", "ok", "raised"}]

ThreadPcs == {"none", "poll", "engage", "top", "cycle", "write", "ended"}

\* A target is the pose of a robot at rest that the loop starts from ("latched"), the
\* pose measured when a stop began ("frozen"), or somewhere else to go ("goal").
Targets == {"latched", "frozen", "goal"}

\* aim is the thread's copy of the target (in use from Exchange to WriteOnce), dq the
\* measured speed it published, speed the one it last commanded.
\* The last three are history: the speed at which motion_finished was declared (-1: it
\* was not), the cycles begun between the last look of stop() at the speed and its event
\* (TopSpeed: that many or more), and whether stop() gave up waiting for rest. They are
\* kept while the thread runs, and only if reads do not outlast the join.
Objects == [pc     : ThreadPcs,
            mode   : {"ro", "live"},
            err    : BOOLEAN,
            stop   : BOOLEAN,
            target : Targets,
            aim    : Targets,
            dq     : 0..TopSpeed,
            speed  : 0..TopSpeed,
            finAt  : -1..TopSpeed,
            late   : 0..TopSpeed,
            gaveUp : BOOLEAN]

NewObject(mode) ==
  [pc |-> IF mode = "ro" THEN "poll" ELSE "engage", mode |-> mode,
   err |-> FALSE, stop |-> FALSE, target |-> "latched", aim |-> "latched", dq |-> 0,
   speed |-> 0, finAt |-> -1, late |-> 0, gaveUp |-> FALSE]

NoObject == [NewObject("ro") EXCEPT !.pc = "none"]

\* Objects nothing refers to any more: not the node, not a running thread.
Unused == {r \in Runtimes \ {runtime} : obj[r].pc \in {"none", "ended"}}

Init ==
  /\ slowRead \in BOOLEAN
  /\ runtime = None
  /\ main = [pc |-> "recv", op |-> "none", new |-> None, reply |-> "none"]
  /\ obj = [r \in Runtimes |-> NoObject]

Goto(pc) == main' = [main EXCEPT !.pc = pc]
Reply(outcome) ==
  main' = [pc |-> "recv", op |-> "none", new |-> None, reply |-> outcome]

-----------------------------------------------------------------------------
(* serve(): one request at a time, each answered, errors included.          *)
Receive(method) ==
  /\ main.pc = "recv"
  /\ method \in Connects => Unused # {}
  /\ main' = [pc |-> "dispatch", op |-> method, new |-> None, reply |-> "none"]
  /\ UNCHANGED <<slowRead, runtime, obj>>

GetState ==
  /\ main.pc = "dispatch" /\ main.op = "get_state"
  /\ Reply(IF runtime # None /\ ~obj[runtime].err THEN "ok" ELSE "raised")
  /\ UNCHANGED <<slowRead, runtime, obj>>

SetJointTarget ==
  /\ main.pc = "dispatch" /\ main.op = "set_joint_target"
  /\ IF runtime # None /\ obj[runtime].mode = "live"
       THEN Reply("ok") /\ obj' = [obj EXCEPT ![runtime].target = "goal"]
       ELSE Reply("raised") /\ UNCHANGED obj
  /\ UNCHANGED <<slowRead, runtime>>

-----------------------------------------------------------------------------
(* FR3Runtime.stop(), as every closing method calls it.                     *)
NothingToStop ==
  /\ main.pc = "dispatch" /\ main.op \in Closing /\ runtime = None
  /\ Goto("closed")
  /\ UNCHANGED <<slowRead, runtime, obj>>

\* Slips: connect() opens a runtime beside the old one; stop() waits for the robot
\* to slow down without freezing its target; it does not wait at all.
ConnectKeepsOld ==
  /\ main.pc = "dispatch" /\ main.op \in Closing /\ runtime # None
  /\ Goto(IF main.op \in Connects THEN "closed" ELSE "set_stop")
  /\ UNCHANGED <<slowRead, runtime, obj>>

BeginUnfrozen ==
  /\ main.pc = "dispatch" /\ main.op \in Closing /\ runtime # None
  /\ Goto(IF obj[runtime].mode = "live" /\ ~obj[runtime].err THEN "decel" ELSE "set_stop")
  /\ UNCHANGED <<slowRead, runtime, obj>>

BeginUnslowed ==
  /\ main.pc = "dispatch" /\ main.op \in Closing /\ runtime # None
  /\ obj' = [obj EXCEPT ![runtime].target = "frozen"]
  /\ Goto("set_stop")
  /\ UNCHANGED <<slowRead, runtime>>

\* Freeze the target, if there is motion to slow down.
BeginStop ==
  /\ main.pc = "dispatch" /\ main.op \in Closing /\ runtime # None
  /\ IF obj[runtime].mode = "live" /\ ~obj[runtime].err
       THEN Goto("decel") /\ obj' = [obj EXCEPT ![runtime].target = "frozen"]
       ELSE Goto("set_stop") /\ UNCHANGED obj
  /\ UNCHANGED <<slowRead, runtime>>

\* The measured speed is below the tolerance, or the loop is dead.
SlowedDown ==
  /\ main.pc = "decel" /\ (obj[runtime].dq = 0 \/ obj[runtime].err)
  /\ Goto("set_stop")
  /\ UNCHANGED <<slowRead, runtime, obj>>

\* decel_timeout: 3 s have passed.
GiveUp ==
  /\ main.pc = "decel" /\ obj[runtime].dq # 0
  /\ obj' = [obj EXCEPT ![runtime].gaveUp = ~slowRead]
  /\ Goto("set_stop")
  /\ UNCHANGED <<slowRead, runtime>>

SetStop ==
  /\ main.pc = "set_stop"
  /\ obj' = [obj EXCEPT ![runtime].stop = TRUE]
  /\ Goto("join")
  /\ UNCHANGED <<slowRead, runtime>>

\* Slip: stop() does not wait for the thread.
NotJoined ==
  /\ main.pc = "join"
  /\ Goto("closed")
  /\ UNCHANGED <<slowRead, runtime, obj>>

\* join(timeout=2.0), then robot.stop(), whose errors are ignored.
Joined ==
  /\ main.pc = "join" /\ (obj[runtime].pc = "ended" \/ slowRead)
  /\ Goto("closed")
  /\ UNCHANGED <<slowRead, runtime, obj>>

-----------------------------------------------------------------------------
(* What the closing methods do after the stop.                              *)
StopDone ==
  /\ main.pc = "closed" /\ main.op = "stop"
  /\ Reply("ok")
  /\ UNCHANGED <<slowRead, runtime, obj>>

Disconnect ==
  /\ main.pc = "closed" /\ main.op = "disconnect"
  /\ runtime' = None
  /\ Reply("ok")
  /\ UNCHANGED <<slowRead, obj>>

\* FR3Runtime() connects, reads the robot once, starts its thread. A read-only one
\* is returned at once, a live one after 0.2 s if its thread has not failed by then.
Construct ==
  /\ main.pc = "closed" /\ main.op \in Connects
  /\ \E r \in Unused :
       /\ obj' = [obj EXCEPT ![r] = NewObject(ModeOf(main.op))]
       /\ IF main.op = "connect_ro"
            THEN runtime' = r /\ Reply("ok")
            ELSE /\ main' = [main EXCEPT !.pc = "latch_wait", !.new = r]
                 /\ UNCHANGED runtime
  /\ UNCHANGED slowRead

ConstructRaised ==
  /\ main.pc = "closed" /\ main.op \in Connects
  /\ Reply("raised")
  /\ UNCHANGED <<slowRead, runtime, obj>>

\* Slip: the constructor does not look whether the loop failed to start.
LiveUnchecked ==
  /\ main.pc = "latch_wait"
  /\ Reply("ok") /\ runtime' = main.new
  /\ UNCHANGED <<slowRead, obj>>

LiveChecked ==
  /\ main.pc = "latch_wait"
  /\ IF obj[main.new].err
       THEN Reply("raised") /\ UNCHANGED runtime
       ELSE Reply("ok") /\ runtime' = main.new
  /\ UNCHANGED <<slowRead, obj>>

-----------------------------------------------------------------------------
(* The background threads.                                                  *)
At(r, pc) == obj[r].pc = pc
Write(r, new) == obj' = [obj EXCEPT ![r] = new] /\ UNCHANGED <<slowRead, runtime, main>>

\* A thread that ends takes the motion with it, and its locals and history.
Ended(r) == [obj[r] EXCEPT !.pc = "ended", !.speed = 0, !.aim = "latched",
                           !.finAt = -1, !.late = 0, !.gaveUp = FALSE]

\* _read_only_loop() reads until it is told to stop.
PollEnd(r) ==
  /\ At(r, "poll") /\ obj[r].stop
  /\ Write(r, Ended(r))

\* _control_loop(): start the motion, latch to the robot's own desired pose, whatever
\* the target has become since the object was made.
Engage(r) ==
  /\ At(r, "engage")
  /\ Write(r, [obj[r] EXCEPT !.target = "latched", !.pc = "top"])

TestStop(r) ==
  /\ At(r, "top")
  /\ Write(r, IF obj[r].stop THEN Ended(r) ELSE [obj[r] EXCEPT !.pc = "cycle"])

\* readOnce(), and the exchange of state and target under the lock. Cycles may begin
\* between the last look of stop() at the speed and its event: nothing excludes them.
Exchange(r) ==
  /\ At(r, "cycle")
  /\ LET isLate == ~slowRead /\ r = runtime /\ main.pc = "set_stop"
     IN Write(r, [obj[r] EXCEPT !.dq = obj[r].speed, !.aim = obj[r].target, !.pc = "write",
                                !.late = IF isLate /\ @ < TopSpeed THEN @ + 1 ELSE @])

\* The speeds the reference filter may command next. It was reset to the latched pose
\* and rests there; any other pose, the frozen one included, it reaches by way of an
\* overshoot, so one cycle may add to the speed.
FilterSteps(r) ==
  IF obj[r].aim = "latched" /\ obj[r].speed = 0
    THEN {0}
    ELSE {v \in 0..TopSpeed : obj[r].speed - 1 <= v /\ v <= obj[r].speed + 1}

\* The command is motion_finished if stop() has set the event by now.
WriteOnce(r) ==
  /\ At(r, "write")
  /\ \E v \in FilterSteps(r) :
       Write(r, [obj[r] EXCEPT !.speed = v, !.aim = "latched", !.pc = "top",
                               !.finAt = IF obj[r].stop /\ ~slowRead THEN v ELSE @])

\* readOnce(), writeOnce() or the latch raises: a reflex, lost communication.
ThreadRaised(r) ==
  /\ obj[r].pc \in {"poll", "engage", "cycle", "write"}
  /\ Write(r, [Ended(r) EXCEPT !.err = TRUE])

-----------------------------------------------------------------------------
MainStep ==
  \/ GetState \/ SetJointTarget
  \/ NothingToStop \/ BeginStop \/ SlowedDown \/ GiveUp \/ SetStop \/ Joined
  \/ StopDone \/ Disconnect \/ Construct \/ ConstructRaised \/ LiveChecked

ThreadStep(r) ==
  \/ PollEnd(r) \/ Engage(r) \/ TestStop(r) \/ Exchange(r) \/ WriteOnce(r)
  \/ ThreadRaised(r)

Next ==
  \/ \E method \in Methods : Receive(method)
  \/ MainStep
  \/ \E r \in Runtimes : ThreadStep(r)

Spec == Init /\ [][Next]_vars

\* The waits of stop() and of the constructor have deadlines, a read of the robot
\* returns or raises. Nobody is obliged to call.
FairSpec ==
  /\ Spec
  /\ WF_vars(MainStep)
  /\ \A r \in Runtimes : WF_vars(ThreadStep(r))

-----------------------------------------------------------------------------
TypeOK ==
  /\ slowRead \in BOOLEAN
  /\ runtime \in Runtimes \cup {None}
  /\ main \in Mains
  /\ obj \in [Runtimes -> Objects]

\* A thread that holds the robot's one control connection and may command it.
Controls(r) == obj[r].pc \in {"engage", "top", "cycle", "write"}

\* The FCI admits one client: unless reads outlast the join, never do two runtimes
\* run a control loop at once, whatever fails during connect().
OneMotion ==
  ~slowRead => \A r1, r2 \in Runtimes : Controls(r1) /\ Controls(r2) => r1 = r2

\* Unless reads outlast the join, an answered call that leaves no running runtime,
\* a stop, a disconnect or a failed connect, leaves no thread that commands the robot.
QuietWhenStopped ==
  ~slowRead /\ main.pc = "recv" /\ (runtime = None \/ obj[runtime].stop) =>
    \A r \in Runtimes : ~Controls(r)

\* motion_finished is declared at a speed at most two cycles away from rest, and one
\* more for every cycle begun between the last look of stop() and its event, unless
\* stop() gave up waiting or the thread outlived the join (fr3_runtime.py, docstring of
\* stop()). The event reaches the thread anywhere in its cycle, and the speed that
\* stop() saw is stale by then.
FinishedSlow ==
  ~slowRead => \A r \in Runtimes : obj[r].finAt > 2 + obj[r].late => obj[r].gaveUp

\* While stop() slows a control loop down, the loop goes to the frozen pose. A loop that
\* had not started when the stop began latches over it, but then the robot rests where
\* it latched: no target sent before the stop, and no latch, moves it on
\* (fr3_runtime.py, stop() against _control_loop()).
StopsUnderControl ==
  main.pc \in {"decel", "set_stop", "join"} /\ Controls(runtime) =>
    \/ obj[runtime].target = "frozen"
    \/ obj[runtime].target = "latched" /\ obj[runtime].speed = 0

\* The node as the app sees it: a runtime is stopped from the moment its event is
\* set, and has failed from the moment its thread recorded an error.
NodeView ==
  IF runtime = None THEN [mode |-> "none", health |-> "stopped"]
  ELSE [mode   |-> obj[runtime].mode,
        health |-> IF obj[runtime].err THEN "error"
                   ELSE IF obj[runtime].stop THEN "stopped" ELSE "running"]

Contract == INSTANCE NodeContract WITH
  node <- NodeView,
  call <- main.op,
  reply <- main.reply

\* The node keeps the contract the app relies on, the promise to answer every call
\* included (serve(): "must always reply, REQ/REP hangs forever otherwise").
KeepsContract == Contract!Spec

=============================================================================
