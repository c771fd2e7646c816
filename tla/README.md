# A TLA+ model of franka-deploy

franka-deploy runs a learned policy on a Franka FR3 arm. An operator works through a web
dashboard: connect, detect the format of the policy's answers, confirm it, start, stop,
E-STOP. A background thread asks a policy server for chunks of actions and sends joint
targets to a robot node, whose own thread drives the arm at 1 kHz.

This directory holds TLA+ modules that model the parts of the program where threads,
processes and time meet, TLC configurations that check them on small instances, and
proofs that TLAPS checks for every value of the constants.

## 1. The system

| Part | Code | State | Operations |
|---|---|---|---|
| Control routes and lifecycle | `api/routes_control.py`, `control_loop.py`, `api/state.py` | `APP_STATE.loop`; per `ControlLoop`: `state`, `adapter`, `runtime`, `_stop_evt`, `_thread`, `telemetry` | `/connect`, `/detect`, `/confirm`, `/start`, `/stop`, `/estop`, `/disconnect` |
| Policy thread | `control_loop.py` `_run()` | current chunk, row, observation time, pending prediction, `t_next` | swap, prefetch, execute a row, sleep |
| RPC client | `robot/zmq_client.py` | a REQ socket, cached `read_only` | one call: send, wait 5 s, decode |
| Robot node | `robot/robot_node.py` | the current runtime | `connect`, `get_state`, `set_joint_target`, `stop`, `disconnect`, `read_only` |
| FR3 runtime | `robot/fr3_runtime.py` | latest state, target, error, stop event, thread | construct, read-only loop, control loop, `stop()` |
| Reference filter | `robot/reference_filter.py` | position, velocity, acceleration | `reset`, `step` |
| Policy client | `schema/client.py` | session id, sequence number | `reset`, `predict` |
| Format detection, adapter | `schema/` | the detected and confirmed format | detect, decode a row |
| Safety | `safety/` | limits, EMA, watchdog window, workspace fence | check or clamp a target |
| Fence file | `api/persist.py` | a JSON file | save, load |
| Gripper | `robot/gripper_runtime.py` | trigger, closed or not, last change | decide, grasp, move, stop |
| Cameras | `cameras/` | a worker and a latest frame per camera | attach, detach, read |
| Configuration, status | `api/routes_config.py`, `api/routes_status.py` | the configuration of `APP_STATE` | get, set |
| Kinematics | `kinematics/` | none | forward, inverse, Jacobian |

How they meet. Each HTTP request runs on a thread of the server's pool, so two of them can
work on one `ControlLoop` at once. `start()` spawns a policy thread, which shares the
fields of the loop with the requests, without a lock, and the RPC stub as well. The stub
calls the node over a REQ/REP socket and gives up after 5 s, whether or not the node goes
on. The node answers one call at a time; a runtime has a thread that shares state and
target with the `serve()` loop under a lock, and a stop event without one. Policy requests
take up to 60 s, `stop()` waits for its thread for 5 s, the runtime's `stop()` for 3 s
(slowing down) and 2 s (join).

What is hard. Requests that overlap; a thread that outlives a join and comes back to life;
an exception at any blocking call; a call that gave up and is executed nevertheless; a
runtime that dies between two calls; a stop event that arrives anywhere in a control
cycle; chunks that arrive late or are shorter than expected.

What makes the parts correct:

- *Control session*: no motion before a confirmation; at most one thread commands the
  robot; the state shown is the truth about motion; stop and E-STOP silence every thread;
  errors stay visible; every request is answered.
- *Policy thread*: the row executed exists and is neither stale nor ahead of its time; the
  server gets the lead it was promised; the loop keeps replanning.
- *Node and runtime*: one control loop at a time; nothing commands the robot after an
  answered stop; a stop takes a motion to the frozen pose, or leaves it at rest where it
  latched, and finishes it at most two cycles from rest, and one more for each cycle since
  the stop last looked; every call is answered.
- *Policy client*: within a session the server sees 0, 1, 2, ..., whatever failed, was given
  up or came late.
- *Format and adapter*: what is proposed for an unknown answer can be applied to it, and
  does not begin with a leap.
- *Targets*: whatever the policy asks for, the command stays within the joint limits and
  below the limits of speed and acceleration, and of jerk except where the speed limit
  cuts; sustained vibration stops the loop, noise does not.
- *Fence*: what is sent lies within it, however it is changed meanwhile; a restart never
  loses it silently.
- *Configuration*: what is shown is what the session runs with, but for cameras that ran
  before it, which it keeps.
- *Gripper*: no chatter, and no trigger is forgotten.
- *Cameras*: no device is opened while a reader has it, and no reader is lost; a pipeline
  that no worker has was opened by a call that failed, and waits for Python's collector;
  the first observation has its frame or its error, unless the wait of 5 s for it was
  given up.

`PROJECT.json` lists under "hazards" what can go wrong in this code and which property
watches it.

## 2. Modules

    MCControlSession   MCSessionStorm   MCEstop    instances for TLC, a history variable
            \            /
           ControlSession                     app process
                 .  (its variable "node")
           NodeContract                       abstract: what the node promises
                 ^  implemented by
             RobotNode                        serve() and the FR3Runtime threads

           CallContract                       abstract: what one call comes to
                 ^  implemented by
            RpcChannel                        REQ and REP sockets, timeouts

           ChunkScheduler                     inside of the policy thread: timing

    MCMotion  =  ActionFormat   Watchdog   MotionPath   WorkspaceFence
                                                  a row's way to the robot
    MCPeripherals  =  PolicyClient   Gripper   Cameras   AppConfig
                                                  what surrounds the thread

    proofs: ControlSessionProofs  RobotNodeProofs  RpcChannelProofs
            PolicyThreadProofs (ChunkScheduler, Watchdog, ActionFormat)  MotionPathProofs
            AppStateProofs  PeripheralsProofs  Extrema (facts on minima and maxima)

The modules of the last two MC modules share no state with each other: the program lets
them meet only through the policy thread, which uses one after the other, and through
requests. Each of these MC modules is therefore a sum and not a product: a variable
(`part`) chooses at the start which of them moves, and the others rest. AppConfig keeps of
the cameras only which configuration of them runs; Cameras has the rest.

**ControlSession** is the app process. `job[h]` is what server thread `h` is doing (its
request, the session it got from `_ensure_loop`, and the point it has reached), `sess[l]`
the shared fields of a `ControlLoop`, `thr[t]` a policy thread and its owner, `cur` is
`APP_STATE.loop`, `node` the runtime at the other end of the RPC. A step is the code
between two points where another thread can be observed: a blocking call, a lock, a write
of a shared field. So `start()` is `RouteStart`, `ResetDone`, `ConnectAnswered`,
`MarkConnected`, `Settled`, `Launch` (clear the event, spawn) and `MarkRunning`, in that
order, as in the code. Every blocking call has a second action for the exception, e.g.
`ConnectRaised`, which leaves the node as it was, stopped, or open in the new mode,
because a call that timed out may have been executed. The policy thread's `_run()` is
`FirstPredict`, `TestStop`, `Work`, `Send`, and for the except clause `Raise`,
`ReportTelemetry`, `ReportState`, `HaltRobot`, with `ShutPool` at the end. `NodeFault` is
the node's loop dying by itself.

**ChunkScheduler** is the arithmetic of `_run()`: chunk swap with a finished, a running or
no prefetch (`SwapPrefetched`, `SwapSync`), the row to start with (`FreshRow`, with
Python's round-half-to-even), the firing rule (`MustFire`), the pacing with its
resynchronisation (`Execute`). Only differences of clock readings occur in the code, so
the state holds ages.

**RobotNode** is the node process: the `serve()` loop (`main`), which is at some point of
one method, and the `FR3Runtime` objects (`obj`), each with the locals of its thread.
`FR3Runtime.stop()` is `BeginStop` (freeze), `SlowedDown` or `GiveUp`, `SetStop`,
`Joined`; the threads are `PollEnd` (read-only loop) and `Engage`, `TestStop`, `Exchange`,
`WriteOnce` (control loop), any of which `ThreadRaised` may end. Speeds are counted in
steps of what one control cycle may add. A target is the latched pose, the frozen one or a
goal elsewhere: the latch of `Engage` overwrites a target frozen before it, as in the code.
Nothing excludes cycles between the last look of `stop()` at the speed and its event; the
history `late` counts them.

**NodeContract** is what the app may assume of the node: one call at a time, each
answered; `connect` stops the old runtime before it opens a new one; a failed `connect`
leaves the stopped one; a stopped live runtime still accepts targets; a runtime may die at
any time. The variable `node` of ControlSession moves by these rules: `ConnectAnswered` is
`Halt` and `Connected`, `ConnectRaised` covers `NotConnected` and a late `Connected`,
`NodeStopAnswered` is `Halt` and `Stopped`, `NodeFault` is `Fault`. `RobotNode` implements
the contract under the mapping `NodeView` (property `KeepsContract`).

**RpcChannel** is the RPC client and the socket of `serve()`. `caller[c]` is where a thread
is in `_call()`, `req` the state of the client's REQ socket, `reply` an answer that has
arrived on it, `call` the requests in progress, `waiting` those in the pipes of the REP
socket, `serving` the one being executed. A socket is closed after a timeout; it lives on
only in the requests it left at the node (orphans) and in the threads that had already
taken it (stale). Threads share the client without a lock: a send while another thread's
call is under way, or on a closed socket, raises (`SendRaised`), which `_call()` does not
catch. Requests of different sockets are taken in any order. The node may take any time,
hang, or die and come back.

**CallContract** is what one call comes to, with the sockets forgotten: it is executed at
most once, the answer comes from that execution, a call that was given up may still be
executed once at any later time. `RpcChannel` implements it under the mapping `CallView`
(property `KeepsCallContract`). In ControlSession a call is one step, and `ConnectRaised`
and `NodeStopRaised` let the late execution happen at the moment the caller gives up.

**ActionFormat** is `schema/response_detect.py` and the columns that `schema/apply.py`
reads, as operators: `ScoreJoint`, `ScoreEE` and `GripperConvention` with the thresholds of
the code, `Candidates` in the order of the code, `DetectActionSpace` with its stable sort,
and `MotionColumns` and `GripperColumns` for the adapter's side.

**Watchdog** is `safety/watchdog.py`: the window of samples, the pairs outside the dead
zone, sign changes, ratio and trip count. A sample keeps direction and dead zone, since
those are all that the code looks at.

**MotionPath** follows one joint. `Tick` is what `_run()` does with a row: decode, smooth
(`Smoothed`), clamp the step around the *measured* joint (`ClampStep`), clip to the limits
less their margin. `FilterStep` is one step of the robot node's filter: demand, cut to the
acceleration limit, cut to the jerk limit, cut to the speed limit with feedback into the
remembered acceleration. `Connect` latches, `Freeze` and `StopControl` are the runtime's
`stop()`. Rows, the measured joint (off by up to `Lag`) and the answer of the inverse
kinematics are free. Any number of filter steps may lie between two ticks.

**WorkspaceFence** has the four routes that change the fence (`Change`, then the save), the
save as the code makes it: `json.dumps` gets the list itself and goes through it by index
(`Dump`, `ReadMargin`, `ReadPoint`) while other routes append to it, delete from it or
replace it, then the file is emptied and written (`Truncate`, `Write`); a crash at any
point, the restart that reads the file or ends, and the policy thread's
`check()` as its separate unlocked reads (`AskEnabled`, `ReadPoints`, `ReadLow`,
`Compare`), first for the position aimed at, then for the measured one. Two writers of one
file may leave either version or neither.

**AppConfig** is `set_config()` part by part (`AssignPart`, where a part that cannot be
converted ends the request), its save, the restart, and `_ensure_loop()` (`EnsureLoop`),
which gives a session the configuration but for the cameras: it starts those configured
only if none run, and otherwise keeps the ones of a preview or of an earlier session
(`streams`), which `StartStreams` and `StopStreams` change too.

**PolicyClient** is the session id and the sequence number, with a strict server at the
other end (`Serve`): an answer, a failure before, after or without the request being
served, a request that arrives later, a body that cannot be built and took a number or
did not, and a prefetch whose answer `stop()` drops.

**Gripper** is the thread of `gripper_runtime.py`: `Decide` (dwell, then hysteresis, the
belief changed before the stroke), the blocking command, the sleep, `stop()`.

**Cameras** is the manager: `AskWorker` and `StopCamera` for each worker in turn (the
pipeline is stopped even if the join gives up), `Forget`, `Open`, `Assign`, `Wait` for
first frames, `GiveUpWait` after 5 s; the readers (`Read`) run beside it, those that
outlived a stop too. When a camera fails to open (`OpenFails`), nothing releases the ones
opened before it: the exception of `RealSenseCamera.__init__` and its `last_err` refer to
each other through their frames, one of which has the cameras. They stay open as
`leftover`, and a later `Open` may find its device taken by them, until Python's collector
finds the cycle (`Collect`).

In the modules, a comment that begins with "Slip" marks definitions that are not the
code: each is a plausible mistake of the definition after it, and `PROJECT.json`
("mutants") says which property notices it.

## 3. Runs

| Run | Instance | What it shows |
|---|---|---|
| `session_operator` | 1 server thread, 2 sessions, 2 policy threads, every request in the documented order, joins succeed, fairness | types; one commander; motion implies that the current session says running; commanders are on a live stub; an answered E-STOP silences; an error stays in the telemetry; every request is answered |
| `session_storm` | 2 server threads, any order, 1 policy thread; every route on 1 session, joins may time out; or 2 sessions made in a race, without stops | no motion before a confirmation, no session stranded in "detecting" |
| `chunk_scheduler` | half ticks; horizon 5; chunks of 3 and 6; lead 0, 1, 3; latency to 4.5 ticks; 1.5 ticks of work | the index is in range; no row more than 2.5 ticks early; the lead is given; replanning goes on |
| `robot_node` | 2 runtime objects, speeds to 4 steps, fairness | one control loop; quiet stops; slow finishes, at the frozen pose or the latched one; the contract |
| `rpc_channel` | 2 threads, 1 of which connects, 3 calls in progress, fairness of the callers only | answers match their calls; the cached `read_only` is the node's mode; the client recovers from any timeout; at most one execution per call |
| `motion` | 3072 answers of 4 to 11 columns at two postures; 2 joints under a window of 3 and 2 trips; a joint with limits of 8, speeds to 3; a fence of 3 points with 2 server threads that save, or 1 beside the policy thread | a proposed format fits its rows and does not start with a leap; vibration stops the loop and noise does not; the command stays within the joint limits and is smooth, where the speed limit cuts excepted; the fence is honoured while it changes, and survives restarts |
| `peripherals` | 3 sessions of 3 numbers; triggers around both thresholds, dwell 3; 2 cameras, 4 workers; a configuration of 3 parts and 1 server thread; fairness | numbers in order; no chatter, no trigger forgotten; no camera lost, first frames there or given up, readers end; a session has the configuration shown, or cameras that ran before it |
| `stop_too_slow`, `estop_during_start`, `start_after_estop`, `failed_start` | ControlSession as above, one property each | counterexamples: see section 6 |
| `jerk_limit` | a joint from 0 to 120, speeds to 8, targets at 0, 8 and 120 | counterexample: see section 6 |

Why the bounds are enough. Sessions: in `session_operator` the second one is made after
disconnecting from the first, in `session_storm` by two requests that race in
`_ensure_loop`; two show the old and the new. The race and the stops do not fit into one
run, so `scope` chooses between them. Policy threads: the hazard is an old one beside a
new one, which `session_operator` has; what `session_storm` checks is about one thread and
its own session. Server threads: every hazard listed is a race of two. `LoopLeft` and `ThreadLeft`
admit a request only while an object it may need is left, so that running out of objects
never blocks one on its way. Chunks: one shorter than the horizon, one longer; latencies
from nothing to beyond the longest chunk's lead; ages stop growing at 8 ticks, more than
the horizon. Runtimes: the current one, and the one under construction or a thread that
outlived its join; an object is reused once nothing refers to it. `TopSpeed` 4 is the least
value at which a motion finished too fast differs from one finished after one late cycle.
Calls: one waiting, one in the hands of the other thread, one orphan; ids are reused when a
call is over, so behaviours have any length.

Watchdog: a window of 3 is the least with two pairs, and two trips the least that makes
windows overlap. MotionPath: the numbers are not to scale; what they keep is the order of
the limits (a jerk step below the acceleration limit, that below the speed limit), a margin
the filter's overshoot needs, and a gain whose demand exceeds the acceleration limit, so
that every cut happens. At the defaults (a step of 0.5 rad, a gain of 100, 4 rad/s2) the
demand may be 50 rad/s2, so it is cut there as well. The rows lie beyond both
limits (-20 and 20); the pose kinds aim anywhere between. `jerk_limit` has numbers of its own, in which a target reaches the
speed limit with full acceleration. `MaxUnsaved` (3) bounds the changes since the last
undisturbed save: one before, one during and one after it (the run beside the policy thread
has one change less); `MaxPoints` 3 gives a disabled fence, an enabled one and one more
point. Three sessions of the client are an old one, the present one and one that a late
reset opens. Four workers are two in use and two that outlived their stop. Dwell 3 leaves
room for a trigger to flip twice within it.

Two constants of ControlSession are assumptions and not sizes. `FollowsGuide` restricts
requests to the order README and GUIDE describe (confirm after a detection, no reconnect
during a run). `JoinMayTimeOut` says whether a policy request may outlast the 5 s of
`stop()`. `session_operator` needs both; without them `SingleCommander` and
`MotionMeansRunning` do not hold, which is the subject of the findings. In RobotNode the
same role is played by `slowRead` (a read of the robot outlasts the 2 s join), a variable
that never changes and is chosen at the start, so both cases are in one run.

Three of the other modules rest on an assumption of the same kind. AppConfig (in its run)
and Cameras take requests one at a time, as one operator's dashboard sends them: `/config`
beside `/connect`, or `/cameras/start` beside itself, break their properties at once, since
neither route has a lock (`ConfigFrozen` states it as a hypothesis, `OneOperator`). In
PolicyClient one thread calls the server at a time, so it excludes the thread that outlives
`stop()`, which is the subject of `stop_too_slow`.

Deadlock is not checked where the system may rest: with no request, or with every object
used up. ChunkScheduler checks it.

## 4. Fairness

`FairSpec` of ControlSession gives each running thread weak fairness: HTTP requests end
after 60 s, RPC and join after 5 s, none of these calls blocks for ever, and the policy
thread's pool waits for a request that ends. Nothing obliges a request to arrive or a
fault to happen. RobotNode: the waits of `stop()` and of the constructor have deadlines,
and a read of the robot returns or raises; `Receive` is not fair. RpcChannel: only the
callers are fair, since their waits have timeouts; the node owes nothing.
ChunkScheduler: one thread, nothing to wait for but calls that end. MCPeripherals: the
gripper's thread and time go on, and its blocking commands return; a camera's read returns
within its timeout, and the manager's calls have deadlines of their own. `FairPathSpec` of
MotionPath: the 1 kHz thread steps its filter while it lives. No fairness is asked of
routes, policies, triggers, failures or Python's collector.

`RequestsAnswered` is checked with joins that do not time out, so it rests on the policy
thread obeying the event, which is what it is meant to show; with the timeout it would be
trivial.

## 5. Proofs

Assumptions on constants: `None` is no session, thread, runtime or call; the sets are finite
where they are counted; ticks, horizon and chunk lengths are positive; bounds are numbers;
answers are non-empty sequences of rows of whole numbers and a posture has seven joints and
three coordinates (`AnswerAssumption`). TLC evaluates all of them. Three theorems of the
motion path have a hypothesis on the filter's gains as well, `GainsFit`, discussed below.

| Theorem | Statement |
|---|---|
| `TypeCorrect` | `Spec => []TypeOK` for ControlSession |
| `ConfirmedMotion` | no commanding thread on an unconfirmed session, for any number of requests in any order |
| `DetectingIsAttended` | a session detects only while a request does |
| `ShownStateIsMotion`, `OneCommander` | under `Disciplined` |
| `CommandsAreLive`, `EstopIsSilence`, `ErrorIsShown` | under `Disciplined`: `CommanderIsLive`, `EstopSilences`, `ErrorStaysVisible` |
| `SchedulerTypeCorrect`, `IndexAlwaysInRange`, `RowsNeverEarly`, `LeadIsGiven` | the scheduler, for every tick, horizon, lead and latency |
| `NodeTypeCorrect` | types of RobotNode |
| `StopIsControlled` | while `stop()` waits, the loop goes to the frozen pose or rests where it latched |
| `OneControlLoop`, `StoppedIsQuiet`, `FinishIsSlow` | the node, for every set of runtimes and top speed |
| `NodeImplementsContract` | `Spec => Contract!Init /\ [][Contract!Next]_(Contract!vars)` |
| `ChannelTypeCorrect`, `RepliesMatch`, `CachedModeIsTrue` | the channel, for every number of threads and calls |
| `ChannelKeepsContract` | `Spec => Contract!Init /\ [][Contract!Next]_(Contract!vars)` |
| `PathTypeCorrect`, `CommandBounded`, `CommandIsSmooth` | MotionPath, for every limit, gain and margin; jerk with the exception at the speed limit |
| `OvershootBounded` | `GainsFit`: between any walls that all targets keep to, the command stays within `KpInv` of them |
| `CommandNearLimits` | `GainsFit`: the command leaves the joint limits by `KpInv` at most, whatever the targets |
| `CommandWithinLimits` | `GainsFit`, and targets that keep `KpInv` away from the limits: `WithinLimits` |
| `VibrationStops`, `NoFalseTrip` | the watchdog, for every number of joints, window and trip count |
| `ProposalsSound` | `FormatSpec => []ProposalSound`, for every answer and posture |
| `FenceSurvives` | `FenceSpec => RestartKeepsFence`, for every number of server threads, points and changes |
| `ConfigFrozen` | the configuration of a session, cameras that ran before it excepted, under one operator |
| `FenceIsHonoured` | `FenceSpec => []FenceHonoured`, for every number of server threads, points and margins |
| `GripperDoesNotChatter` | for every threshold and dwell |
| `SessionsInOrder` | for every number of sessions and requests |
| `NoCameraLost`, `FirstFramesAreThere` | what failed calls left behind, and waits given up, included, for every number of cameras and workers |

*Control session.* `TypeInv` adds to the types that a request past its arrival has a
session and a spawned thread an owner (`Linked`), without which no field access is
justified. `NoMotionBeforeConfirm` is not inductive: a thread is spawned by a `start()`
that checked the adapter several steps earlier. `ConfirmInv` says that every `start()`
past its check, and every thread it spawned, is on a confirmed session; it is preserved
because nothing withdraws a confirmation. `NeverStrandedDetecting` is inductive as it
stands. `MotionMeansRunning` and `SingleCommander` need `Disciplined`: one server thread
(`h1 = h2`), documented order, joins that succeed. Their invariant `SequentialInv` says
where the request can be while a policy thread is active, that the active thread is the
one the current session remembers, and that a join waits for that one. Three more rest on
it: `LiveInv` (past the switch of `start()` the stub is live), `SilentInv` (a live runtime
only behind the stub of the current session, so that a stop without an RPC, for want of a
stub, has nothing to stop) and `VisibleInv` (the thread a session remembers is its own, so
no other thread's telemetry overwrites its error).

*Scheduler.* `IndexInRange` follows from the type invariant and the fact that a chunk is
not exhausted at "lead" and "exec"; the arithmetic is a lemma on `FreshRow`. `NeverAhead`
and `LeadTimeGiven` are one argument (`PaceInv`) about two clocks, the chunk's and the
prefetch's: the loop is either at most half a tick (or not at all) ahead of the clock, or
so far ahead only of what `t_next` still allows. Sleeping and catching up leave the
distance to `t_next` alone, a resynchronisation shrinks it (`TickPaced`), and a swap starts
within half a tick because rounding does (`RoundHalfTick`).

*Node.* `MadeInv` and `MainInv` say where `serve()` is with which object, `ThreadInv` that
a thread runs the loop of its mode and none after an error, `LoneThread` that (unless
reads outlast the join) the only thread that runs is the node's or the one being made,
`StopInv` when the event is set, `SpeedInv` how stale the published speed can be: by a
cycle, and from the last look of `stop()` to its event by one more for every late cycle;
two more pass before the thread tests the event and sends `motion_finished`. `LatchInv`
says that a loop whose target is still the latched one has never moved, which is why a
latch that overwrites the frozen target leaves the robot at rest (`StopIsControlled`). One
control loop, quiet stops and slow finishes follow from these. The refinement proof takes
the actions one by one: `SetStop` is the contract's `Halt`, the replies are its answers,
`ThreadRaised` is its `Fault` if it hits the node's runtime, everything else stutters.

*Channel.* `OwnReply` is not inductive: nothing in it says that an answer on its way
cannot meet another caller. `ChannelInv` says that the cycle of the socket belongs to one
thread (`SocketInv`), that a call under way is one thread's own and no orphan (`HoldInv`),
that every request at the node is an orphan or somebody waits for it (`NodeInv`), and that
an answer that has arrived is for the one who waits (`ReplyInv`). `CacheInv` adds what the
mode is between the execution of a connect and its caller remembering it; it needs
`ConnectorsAssumption` (one thread connects at a time: two that race can store their
answers in the wrong order). The refinement follows call by call: a step changes the view
of one call only (`ViewOfOne`).

*Motion path.* The speed limit and the bound on the acceleration are inductive together:
the velocity clamp changes the acceleration that is remembered, so the bound on `acc` rests
on the old speed being within its limit. The jerk bound is a step of the filter by itself:
where the velocity clamp does not cut, it is the filter's own limit; where it does, the
speed is at its limit and what is left of the acceleration has the sign it had.

*Overshoot.* `reference_filter.py:44` says "critical damping -> no overshoot by
construction", which is a fact about the linear filter; the code saturates it three times.
`OvershootBounded` is what remains true of it: within any walls `lo` and `hi` that the
targets keep to, the command stays in `lo - KpInv .. hi + KpInv`, the zone in which the
demand is rounded to nothing. The inductive invariant (`Walled`, for both sides by
symmetry) ties the speed toward a wall to the room that is left. At moderate speeds the
room is at least `Root` steps' way (`Root` is 1 over the natural frequency, in steps);
beyond `Root * AMax`, where the braking demand is cut at the acceleration limit, it is the
longer way to stop at `AMax` (`Room`). The remembered acceleration must also be such that
the next step can brake: since the jerk limit lets it follow what the demand changes by in
a step, it never lags behind (`Brake`, `CanStop`). That is `GainsFit`: the speed
limit can be braked away (`VMax <= (3 * Root - 2) * AMax`), and the jerk limit is not the
bottleneck (`VMax + 2 * Root * AMax <= JMax * KpInv`). `DefaultGainsFit` proves that
the defaults of `limits.py:32-35`, in microradians and milliseconds, satisfy it: 1000, 4, 3
and 10000 (a natural frequency of 10 rad/s). `CommandNearLimits` takes the joint limits as
the walls, which no action can cross with a target, `Freeze` and `Connect` included. For
`WithinLimits` itself the targets must keep `KpInv` off the limits: policy targets do, by
far (`clip_to_joint_limits` leaves 0.05 rad, 50000 microradians, `KpInv` being 10000), but a
measured pose that is frozen or latched may lie on a limit, so the hypothesis stays. The
instance of the run has a jerk limit below `GainsFit`, on purpose, since every cut is to
happen there; on it `WithinLimits` is what TLC found and not an instance of the theorem.

*Response detection.* Every candidate that detection tries is in `Fitting`: its columns
are those of the row, each read once, and more confidence than the floor means a small
first move by the same measure the adapter applies (`JointScore`, `HandScore`, which show
that rounding and clamping of a score cannot lift a far answer over 30). `CandidatesFit`
carries this through the concatenation, `DetectionSound` through the choice of the best.

*Watchdog.* `AlternationInv` says that the last samples in which a joint turned back at
every step are in the window, and that all but the first `Window - 1` of them have been
counted as trips; `TripInv` that a count stands for a full window in which some joint
oscillates. `VibrationSeen` and `ReversalSeen` connect the counts of pairs, which are
cardinalities, with the samples.

*App state.* What a save reads from the live list may be no version of the fence, so the
invariant `KeepInv` speaks of what it is made of: the parts a save has read, or may still
read, are those of promised versions (`FromVersions`), and so is what the file may hold,
unless it is torn (`FileInv`). An undisturbed save is one of the present fence (`SavesIt`),
while no other is under way (`AloneInv`); only then may `Write` forget the older promises.
As long as one version only is promised, every save is one of it, so a restart finds that
one. `FrozenInv` of the configuration adds that no request changes it while there is a
session; a session made keeps the cameras that run, and cameras started later are those
shown. `FenceHonoured` says nothing of a check half done. `CheckInv` does: the
box in force is covered by the hull of the versions seen during the tick, a position that
has passed is inside the hull, and a corner read from an older version is still within it
when the comparison comes, although the routes have changed the fence since. The hull only
grows, so what was covered stays so (`Covered`).

*Extrema.* The minima and maxima of the code (corners of the recorded points, the largest
deviation of a joint, the best candidate) exist because the sets are finite. The library
states this through induction on an operator, which the provers cannot instantiate;
`LeastNatural` instead takes the least counterexample from the library's theorem on
well-founded relations, and the rest is proved from it: for sets of integers with a bound,
and for the values of a sequence of any length (`ExtremaOfValues`).

*Peripherals.* The gripper's dwell clock runs with the time since its last stroke and its
belief is that stroke (`GripInv`). In the client, every request that may still arrive is
one the server would accept (`Fits`), and a caller's session has none on its way that was
given up (`InSession`): a caller that failed always resets before it predicts again. For
the cameras, `OpenInv` says that opening starts from an empty map and that what is held
meanwhile is what was opened or left behind by a failed call, `ReaderInv` that a reader not
asked to end has its pipeline, so that a stop cannot forget one, `LeftInv` that no worker
of the map has a camera left behind, and `WaitInv` that only a wait given up leaves the
first frames out.

Only model-checked: liveness, which is beyond the prover (`RequestsAnswered`,
`KeepsReplanning`, `ClientRecovers`, `TriggerObeyed`, `ReadersEnd`, and that every call of
NodeContract is answered, a part of `KeepsContract`; CallContract promises no such thing).
Every invariant a passing run checks is
the subject of a theorem, `WithinLimits` under the hypotheses stated above.

## 6. What the violations show

1. `stop_too_slow`: a tick that waits for the policy server for more than 5 s outlives the
   join of `stop()`. `/stop` has answered, the state says "stopped"; then the server
   answers, and the tick, which tested the stop event before it waited, executes its row
   and sends one more target.
2. `estop_during_start`: an E-STOP answered while `start()` is between its checks and
   `_stop_evt.clear()` is undone: `start()` connects live and spawns the thread.
3. `start_after_estop`: after an E-STOP, "stopped" is accepted by `/start`, and the stub's
   cached `read_only` still says live, so nothing reconnects: the dashboard says running,
   targets are accepted, and the runtime that was stopped ignores them.
4. `failed_start`: the thread is spawned before the state is set, so the error of a thread
   that fails at once is overwritten by "running".
5. `jerk_limit`: the reference filter clamps the speed after it has limited the jerk. In the
   step after the command has reached its top speed with full acceleration, the acceleration
   drops to nothing: 4000 rad/s3 with the default limits, where 3000 is the jerk limit
   ("saturated in jerk/accel/velocity", `reference_filter.py:25`). A target of 0.005 rad for
   one step and of 2 rad afterwards does it; the single target of the test
   `test_jerk_never_exceeds_j_max` happens to reach the speed limit in a step that needs a
   quarter of the acceleration. `SmoothCommand` states what remains true.

## 7. Abstractions, and what is left out

- Poses, images and answers are not in the model. `Work` of ControlSession stands for
  decoding, smoothing, limits, watchdog and fence, each of which may raise.
- In ControlSession an RPC is one step with its outcomes. A call executed after a later
  one was answered is in RpcChannel, not in ControlSession, so `EstopSilences` speaks of
  E-STOPs that no such call follows.
- RpcChannel has one client. A ZeroMQ socket used by two threads at once is a data race
  inside the library; its outcomes are taken to be an error for the second thread and a
  timeout for the first. That calls other than `connect` are told apart by nothing is
  enough for its properties.
- RobotNode: the reference filter is reduced to its bound: one cycle changes the speed by
  one step at most. `stop()` run
  again from `__del__`, `movej()`, which nothing calls, and the query `read_only`, which
  the app never sends, are left out.
- ControlSession: the workspace routes, which touch none of its state, are in
  WorkspaceFence.
- ActionFormat: distances are rounded down to hundredths, so an answer within half a
  hundredth of a threshold is not told apart. What a server's answer may be is sampled, not
  exhausted. A NaN, which passes every clamp and comparison of the code, is not a number of
  the models.
- Watchdog: a single reversal trips it when the joint barely moves otherwise, because the
  windows of successive ticks overlap; `TripNeedsReversal` therefore promises no more.
- MotionPath has one joint and ideal whole-number arithmetic; the pose kinds aim anywhere
  the inverse kinematics may answer with.
- WorkspaceFence has one coordinate. `FenceHonoured` speaks of the hull of the fence's
  versions during a tick, since `check()` may mix two of them.
- Gripper: the measured width, which only the policy reads, homing, and whether a stroke
  succeeded, which the code does not look at either.
- AppConfig: with two operators at once, a `/connect` between the test of `/config` and its
  assignments makes a session of half a configuration; checked and proved is the case of
  one. That a session may run with the cameras of a preview while `GET /api/config` shows
  others is the code's behaviour ("Reuse the shared CameraManager", `routes_control.py:24`),
  and `SessionConfigFrozen` allows it.
- Cameras: images and device enumeration. When the collector finds what a failed call left
  open is CPython's affair: until then a retry may fail on a device that the app itself
  holds, and the answer of `/cameras/start` asks whether another app has it
  (`routes_cameras.py:42`). How old a later frame may be is promised nowhere.
- These parts and those of MCMotion are not composed with ControlSession: what they share
  with it
  is an exception that ends the policy thread, which its `Work` and `Raise` have.
- Not modelled: kinematics (real-valued geometry), the inside of camera drivers and the
  dashboard (pure I/O), the development servers under `scripts/`, encoding and
  serialisation (layout of data without state; that building a body may raise is in
  PolicyClient), the status routes and the application's setup, which only read.

## 8. Plan

What is left, in this order:

1. The remaining distance between `WithinLimits` and the code: a measured pose that is
   frozen or latched at a limit. A bound on how far `Freeze` may put the target from the
   command would make the hypothesis on targets one on `Lag`.
2. The compositions: that the rows ChunkScheduler executes are the ticks of MotionPath is
   said in section 2 and is not a theorem.
