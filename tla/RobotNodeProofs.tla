-------------------------- MODULE RobotNodeProofs --------------------------
(***************************************************************************)
(* Type correctness of RobotNode and, for every set of runtimes and every  *)
(* top speed, that one control loop at a time runs, that a stopping loop   *)
(* goes to the frozen pose or rests, that a stop leaves no loop, that      *)
(* motion_finished is declared slowly, and that every step of the node is  *)
(* one of NodeContract.                                                    *)
(***************************************************************************)
EXTENDS RobotNode, TLAPS

\* The threads that still run, and those of control loops.
Alive(r) == obj[r].pc \notin {"none", "ended"}

\* Where the serve() loop works on which object.
MainInv ==
  /\ main.pc \in {"decel", "set_stop", "join"} => runtime # None
  /\ main.pc \in {"decel", "set_stop", "join", "closed"} => main.op \in Closing
  /\ main.pc = "latch_wait" =>
       main.new # None /\ main.new # runtime /\ main.op = "connect_live"

\* A thread runs the loop of its object's mode, and none after it recorded an error.
ThreadInv ==
  \A r \in Runtimes : Alive(r) =>
    /\ ~obj[r].err
    /\ obj[r].mode = IF Controls(r) THEN "live" ELSE "ro"

\* At most the thread of the node's runtime, or of the one being made, runs.
LoneThread ==
  \A r \in Runtimes : Alive(r) =>
    IF main.pc = "latch_wait" THEN r = main.new
    ELSE r = runtime /\ main.pc # "closed"

\* The event is set only while stop() waits for the thread, or after it ended.
StopInv ==
  \A r \in Runtimes : Alive(r) /\ obj[r].stop => main.pc = "join"

\* A loop whose target is still the latched one has never moved.
LatchInv ==
  \A r \in Runtimes : Controls(r) =>
    /\ obj[r].pc = "engage" => obj[r].speed = 0 /\ obj[r].aim = "latched"
    /\ obj[r].target = "latched" => obj[r].speed = 0 /\ obj[r].aim = "latched"

\* What the thread and stop() know of the speed: the published one is at most one
\* cycle old, and from the last look of stop() to the end every late cycle and two
\* more add to it.
SpeedInv ==
  \A r \in Runtimes : Controls(r) =>
    /\ obj[r].pc = "engage" => obj[r].speed = 0 /\ obj[r].dq = 0
    /\ obj[r].pc = "write" => obj[r].speed = obj[r].dq
    /\ obj[r].speed <= obj[r].dq + 1
    /\ obj[r].finAt # -1 => obj[r].stop /\ obj[r].pc = "top"
    /\ main.pc = "set_stop" => obj[r].dq <= obj[r].late \/ obj[r].gaveUp
    /\ main.pc = "join" => obj[r].stop
    /\ main.pc = "join" /\ obj[r].finAt = -1 =>
         obj[r].speed <= obj[r].late + 1 \/ obj[r].gaveUp

PlaceInv == MainInv /\ ThreadInv /\ LatchInv /\ StopsUnderControl

OrderInv == LoneThread /\ StopInv /\ SpeedInv

-----------------------------------------------------------------------------
(* Types.                                                                   *)
\* A new object is one, and so is any object after a step of its thread.
LEMMA NewObjectType ==
  ASSUME NEW method \in Methods
  PROVE  NewObject(ModeOf(method)) \in Objects
<1>1. ModeOf(method) \in {"ro", "live"}
  BY DEF ModeOf
<1>2. 0 \in 0..TopSpeed /\ -1 \in -1..TopSpeed
  BY SpeedAssumption
<1>. QED
  BY <1>1, <1>2 DEF NewObject, Objects, ThreadPcs, Targets

\* What the steps write of one object is an object again.
LEMMA WrittenType ==
  ASSUME NEW o \in Objects
  PROVE  /\ \A gave \in BOOLEAN : [o EXCEPT !.gaveUp = gave] \in Objects
         /\ [o EXCEPT !.stop = TRUE] \in Objects
         /\ [o EXCEPT !.err = TRUE] \in Objects
         /\ [o EXCEPT !.pc = "cycle"] \in Objects
         /\ [o EXCEPT !.target = "latched", !.pc = "top"] \in Objects
         /\ \A late \in 0..TopSpeed :
              [o EXCEPT !.dq = o.speed, !.aim = o.target, !.pc = "write",
                        !.late = late] \in Objects
<1>1. /\ \A gave \in BOOLEAN : [o EXCEPT !.gaveUp = gave] \in Objects
      /\ [o EXCEPT !.stop = TRUE] \in Objects
      /\ [o EXCEPT !.err = TRUE] \in Objects
  BY DEF Objects
<1>2. /\ [o EXCEPT !.pc = "cycle"] \in Objects
      /\ [o EXCEPT !.target = "latched", !.pc = "top"] \in Objects
  BY DEF Objects, ThreadPcs, Targets
<1>3. \A late \in 0..TopSpeed :
        [o EXCEPT !.dq = o.speed, !.aim = o.target, !.pc = "write",
                  !.late = late] \in Objects
  BY DEF Objects, ThreadPcs
<1>. QED
  BY <1>1, <1>2, <1>3

LEMMA EndedType ==
  ASSUME NEW r, obj[r] \in Objects
  PROVE  Ended(r) \in Objects
<1>1. 0 \in 0..TopSpeed /\ -1 \in -1..TopSpeed
  BY SpeedAssumption
<1>. QED
  BY <1>1 DEF Ended, Objects, ThreadPcs, Targets

\* An object replaced by an object leaves objects.
LEMMA ReplacedType ==
  ASSUME TypeOK, NEW x, NEW o, x \in Runtimes => o \in Objects,
         obj' = [obj EXCEPT ![x] = o]
  PROVE  obj' \in [Runtimes -> Objects]
BY DEF TypeOK

LEMMA NextType ==
  ASSUME TypeOK, [Next]_vars
  PROVE  TypeOK'
<1>. USE DEF TypeOK, Mains, MainPcs, Objects, ThreadPcs, Targets, Methods, Closing, Connects
<1>1. ASSUME NEW method \in Methods, Receive(method) PROVE TypeOK'
  BY <1>1 DEF Receive
<1>2. CASE GetState
  BY <1>2 DEF GetState, Reply
<1>3. CASE SetJointTarget
  BY <1>3 DEF SetJointTarget, Reply
<1>4. CASE NothingToStop
  BY <1>4 DEF NothingToStop, Goto
<1>5. CASE BeginStop
  BY <1>5 DEF BeginStop, Goto
<1>6. CASE SlowedDown
  BY <1>6 DEF SlowedDown, Goto
<1>7. CASE GiveUp
  <2>1. obj' = [obj EXCEPT ![runtime] = [obj[runtime] EXCEPT !.gaveUp = ~slowRead]]
    BY <1>7 DEF GiveUp, Goto
  <2>2. runtime \in Runtimes => [obj[runtime] EXCEPT !.gaveUp = ~slowRead] \in Objects
    <3>. HIDE DEF Objects
    <3>. QED BY WrittenType, EndedType
  <2>3. obj' \in [Runtimes -> Objects]
    <3>. HIDE DEF Objects, TypeOK
    <3>. QED BY <2>1, <2>2, ReplacedType
  <2>4. main' \in Mains /\ runtime' = runtime /\ slowRead' = slowRead
    BY <1>7 DEF GiveUp, Goto
  <2>. QED
    BY <2>3, <2>4
<1>8. CASE SetStop
  <2>1. obj' = [obj EXCEPT ![runtime] = [obj[runtime] EXCEPT !.stop = TRUE]]
    BY <1>8 DEF SetStop, Goto
  <2>2. runtime \in Runtimes => [obj[runtime] EXCEPT !.stop = TRUE] \in Objects
    <3>. HIDE DEF Objects
    <3>. QED BY WrittenType, EndedType
  <2>3. obj' \in [Runtimes -> Objects]
    <3>. HIDE DEF Objects, TypeOK
    <3>. QED BY <2>1, <2>2, ReplacedType
  <2>4. main' \in Mains /\ runtime' = runtime /\ slowRead' = slowRead
    BY <1>8 DEF SetStop, Goto
  <2>. QED
    BY <2>3, <2>4
<1>9. CASE Joined
  BY <1>9 DEF Joined, Goto
<1>10. CASE StopDone
  BY <1>10 DEF StopDone, Reply
<1>11. CASE Disconnect
  BY <1>11 DEF Disconnect, Reply
<1>12. CASE Construct
  <2>1. PICK r \in Unused : obj' = [obj EXCEPT ![r] = NewObject(ModeOf(main.op))]
    BY <1>12 DEF Construct
  <2>2. NewObject(ModeOf(main.op)) \in Objects
    BY <1>12, NewObjectType DEF Construct
  <2>3. obj' \in [Runtimes -> Objects]
    <3>. HIDE DEF Objects
    <3>. QED BY <2>1, <2>2
  <2>4. slowRead' \in BOOLEAN
    BY <1>12 DEF Construct
  <2>5. main' \in Mains /\ runtime' \in Runtimes \cup {None}
    <3>. HIDE DEF Objects
    <3>1. PICK q \in Runtimes :
            IF main.op = "connect_ro"
              THEN runtime' = q /\ Reply("ok")
              ELSE main' = [main EXCEPT !.pc = "latch_wait", !.new = q] /\ UNCHANGED runtime
      BY <1>12 DEF Construct, Unused
    <3>2. CASE main.op = "connect_ro"
      BY <3>1, <3>2 DEF Reply
    <3>3. CASE main.op # "connect_ro"
      BY <3>1, <3>3
    <3>. QED
      BY <3>2, <3>3
  <2>. QED
    BY <2>3, <2>4, <2>5
<1>13. CASE ConstructRaised
  BY <1>13 DEF ConstructRaised, Reply
<1>14. CASE LiveChecked
  BY <1>14, RuntimesAssumption DEF LiveChecked, Reply
<1>15. ASSUME NEW r \in Runtimes, PollEnd(r) PROVE TypeOK'
  <2>1. obj' = [obj EXCEPT ![r] = Ended(r)]
    BY <1>15 DEF PollEnd, Write
  <2>2. r \in Runtimes => Ended(r) \in Objects
    <3>. HIDE DEF Objects
    <3>. QED BY WrittenType, EndedType
  <2>3. obj' \in [Runtimes -> Objects]
    <3>. HIDE DEF Objects, TypeOK
    <3>. QED BY <2>1, <2>2, ReplacedType
  <2>4. main' \in Mains /\ runtime' = runtime /\ slowRead' = slowRead
    BY <1>15 DEF PollEnd, Write
  <2>. QED
    BY <2>3, <2>4
<1>16. ASSUME NEW r \in Runtimes, Engage(r) PROVE TypeOK'
  <2>1. obj' = [obj EXCEPT ![r] = [obj[r] EXCEPT !.target = "latched", !.pc = "top"]]
    BY <1>16 DEF Engage, Write
  <2>2. r \in Runtimes => [obj[r] EXCEPT !.target = "latched", !.pc = "top"] \in Objects
    <3>. HIDE DEF Objects
    <3>. QED BY WrittenType, EndedType
  <2>3. obj' \in [Runtimes -> Objects]
    <3>. HIDE DEF Objects, TypeOK
    <3>. QED BY <2>1, <2>2, ReplacedType
  <2>4. main' \in Mains /\ runtime' = runtime /\ slowRead' = slowRead
    BY <1>16 DEF Engage, Write
  <2>. QED
    BY <2>3, <2>4
<1>17. ASSUME NEW r \in Runtimes, TestStop(r) PROVE TypeOK'
  <2>1. obj' = [obj EXCEPT ![r] = (IF obj[r].stop THEN Ended(r) ELSE [obj[r] EXCEPT !.pc = "cycle"])]
    BY <1>17 DEF TestStop, Write
  <2>2. r \in Runtimes => (IF obj[r].stop THEN Ended(r) ELSE [obj[r] EXCEPT !.pc = "cycle"]) \in Objects
    <3>. HIDE DEF Objects
    <3>. QED BY WrittenType, EndedType
  <2>3. obj' \in [Runtimes -> Objects]
    <3>. HIDE DEF Objects, TypeOK
    <3>. QED BY <2>1, <2>2, ReplacedType
  <2>4. main' \in Mains /\ runtime' = runtime /\ slowRead' = slowRead
    BY <1>17 DEF TestStop, Write
  <2>. QED
    BY <2>3, <2>4
<1>18. ASSUME NEW r \in Runtimes, Exchange(r) PROVE TypeOK'
  <2>. DEFINE isLate == ~slowRead /\ r = runtime /\ main.pc = "set_stop"
              late == IF isLate /\ obj[r].late < TopSpeed
                        THEN obj[r].late + 1 ELSE obj[r].late
  <2>1. obj' = [obj EXCEPT ![r] = [obj[r] EXCEPT !.dq = obj[r].speed,
                  !.aim = obj[r].target, !.pc = "write", !.late = late]]
    BY <1>18 DEF Exchange, Write
  <2>2. late \in 0..TopSpeed
    BY SpeedAssumption
  <2>. HIDE DEF late
  <2>3. [obj[r] EXCEPT !.dq = obj[r].speed, !.aim = obj[r].target, !.pc = "write",
                       !.late = late] \in Objects
    <3>1. obj[r] \in Objects
      OBVIOUS
    <3>. HIDE DEF Objects, TypeOK
    <3>. QED BY <2>2, <3>1, WrittenType
  <2>4. obj' \in [Runtimes -> Objects]
    <3>. HIDE DEF Objects, TypeOK
    <3>. QED BY <2>1, <2>3, ReplacedType
  <2>5. main' \in Mains /\ runtime' = runtime /\ slowRead' = slowRead
    BY <1>18 DEF Exchange, Write
  <2>. QED
    BY <2>4, <2>5
<1>19. ASSUME NEW r \in Runtimes, WriteOnce(r) PROVE TypeOK'
  <2>1. PICK v \in FilterSteps(r) :
          obj' = [obj EXCEPT ![r] = [obj[r] EXCEPT !.speed = v, !.aim = "latched",
                    !.pc = "top", !.finAt = IF obj[r].stop /\ ~slowRead THEN v ELSE @]]
    BY <1>19 DEF WriteOnce, Write
  <2>2. obj[r].speed \in 0..TopSpeed
    OBVIOUS
  <2>3. v \in 0..TopSpeed /\ v \in -1..TopSpeed
    <3>. HIDE DEF TypeOK
    <3>. QED
      BY <2>2, SpeedAssumption DEF FilterSteps
  <2>4. [obj[r] EXCEPT !.speed = v, !.aim = "latched", !.pc = "top",
                       !.finAt = IF obj[r].stop /\ ~slowRead THEN v ELSE @] \in Objects
    <3>1. /\ obj[r] \in Objects
          /\ (IF obj[r].stop /\ ~slowRead THEN v ELSE obj[r].finAt) \in -1..TopSpeed
      BY <2>3
    <3>. HIDE DEF TypeOK
    <3>. QED
      BY <2>3, <3>1, Zenon DEF Objects, ThreadPcs, Targets
  <2>5. obj' \in [Runtimes -> Objects]
    <3>. HIDE DEF Objects, TypeOK
    <3>. QED BY <2>1, <2>4, ReplacedType
  <2>. QED
    BY <1>19, <2>5 DEF WriteOnce, Write
<1>20. ASSUME NEW r \in Runtimes, ThreadRaised(r) PROVE TypeOK'
  <2>1. obj' = [obj EXCEPT ![r] = [Ended(r) EXCEPT !.err = TRUE]]
    BY <1>20 DEF ThreadRaised, Write
  <2>2. r \in Runtimes => [Ended(r) EXCEPT !.err = TRUE] \in Objects
    <3>. HIDE DEF Objects
    <3>. QED BY WrittenType, EndedType
  <2>3. obj' \in [Runtimes -> Objects]
    <3>. HIDE DEF Objects, TypeOK
    <3>. QED BY <2>1, <2>2, ReplacedType
  <2>4. main' \in Mains /\ runtime' = runtime /\ slowRead' = slowRead
    BY <1>20 DEF ThreadRaised, Write
  <2>. QED
    BY <2>3, <2>4
<1>21. CASE UNCHANGED vars
  BY <1>21 DEF vars
<1>. QED
  BY <1>1, <1>2, <1>3, <1>4, <1>5, <1>6, <1>7, <1>8, <1>9, <1>10, <1>11, <1>12, <1>13,
      <1>14, <1>15, <1>16, <1>17, <1>18, <1>19, <1>20, <1>21
  DEF Next, MainStep, ThreadStep

\* Every variable of the node keeps its type.
THEOREM NodeTypeCorrect == Spec => []TypeOK
<1>1. Init => TypeOK
  <2>1. NoObject \in Objects
    <3>1. 0 \in 0..TopSpeed /\ -1 \in -1..TopSpeed
      BY SpeedAssumption
    <3>. QED
      BY <3>1 DEF NoObject, NewObject, Objects, ThreadPcs, Targets
  <2>. QED
    BY <2>1 DEF Init, TypeOK, Mains, MainPcs
<1>. QED
  BY <1>1, NextType, PTL DEF Spec

-----------------------------------------------------------------------------
(* Places.                                                                  *)

LEMMA NextPlace ==
  ASSUME TypeOK, TypeOK', PlaceInv, [Next]_vars
  PROVE  PlaceInv'
<1>. USE RuntimesAssumption DEF PlaceInv, Alive, Controls
<1>1. ASSUME NEW method \in Methods, Receive(method) PROVE PlaceInv'
  <2>1. MainInv'
    BY <1>1 DEF Receive, MainInv
  <2>2. ThreadInv'
    BY <1>1 DEF Receive, ThreadInv
  <2>3. LatchInv' /\ StopsUnderControl'
    BY <1>1 DEF Receive, LatchInv, StopsUnderControl, MainInv, ThreadInv
  <2>. QED
    BY <2>1, <2>2, <2>3
<1>2. CASE GetState
  <2>1. MainInv'
    BY <1>2 DEF GetState, Reply, MainInv
  <2>2. ThreadInv'
    BY <1>2 DEF GetState, Reply, ThreadInv
  <2>3. LatchInv' /\ StopsUnderControl'
    BY <1>2 DEF GetState, Reply, LatchInv, StopsUnderControl, MainInv, ThreadInv
  <2>. QED
    BY <2>1, <2>2, <2>3
<1>3. CASE SetJointTarget
  <2>1. MainInv'
    BY <1>3 DEF SetJointTarget, Reply, MainInv
  <2>2. ThreadInv'
    BY <1>3 DEF SetJointTarget, Reply, ThreadInv, TypeOK, Mains, Objects
  <2>3. LatchInv' /\ StopsUnderControl'
    BY <1>3
    DEF SetJointTarget, Reply, LatchInv, StopsUnderControl, MainInv, ThreadInv, TypeOK,
        Mains, Objects
  <2>. QED
    BY <2>1, <2>2, <2>3
<1>4. CASE NothingToStop
  <2>1. MainInv'
    BY <1>4 DEF NothingToStop, Goto, MainInv
  <2>2. ThreadInv'
    BY <1>4 DEF NothingToStop, Goto, ThreadInv
  <2>3. LatchInv' /\ StopsUnderControl'
    BY <1>4 DEF NothingToStop, Goto, LatchInv, StopsUnderControl, MainInv, ThreadInv
  <2>. QED
    BY <2>1, <2>2, <2>3
<1>5. CASE BeginStop
  <2>1. MainInv'
    BY <1>5 DEF BeginStop, Goto, MainInv, TypeOK, Mains
  <2>2. ThreadInv'
    BY <1>5 DEF BeginStop, Goto, ThreadInv, TypeOK, Mains, Objects
  <2>3. LatchInv' /\ StopsUnderControl'
    BY <1>5
    DEF BeginStop, Goto, LatchInv, StopsUnderControl, MainInv, ThreadInv, TypeOK, Mains, Objects
  <2>. QED
    BY <2>1, <2>2, <2>3
<1>6. CASE SlowedDown
  <2>1. MainInv'
    BY <1>6 DEF SlowedDown, Goto, MainInv
  <2>2. ThreadInv'
    BY <1>6 DEF SlowedDown, Goto, ThreadInv
  <2>3. LatchInv' /\ StopsUnderControl'
    BY <1>6 DEF SlowedDown, Goto, LatchInv, StopsUnderControl, MainInv, ThreadInv
  <2>. QED
    BY <2>1, <2>2, <2>3
<1>7. CASE GiveUp
  <2>1. MainInv'
    BY <1>7 DEF GiveUp, Goto, MainInv
  <2>2. ThreadInv'
    BY <1>7 DEF GiveUp, Goto, ThreadInv
  <2>3. LatchInv' /\ StopsUnderControl'
    BY <1>7 DEF GiveUp, Goto, LatchInv, StopsUnderControl, MainInv, ThreadInv
  <2>. QED
    BY <2>1, <2>2, <2>3
<1>8. CASE SetStop
  <2>1. MainInv'
    BY <1>8 DEF SetStop, Goto, MainInv
  <2>2. ThreadInv'
    BY <1>8 DEF SetStop, Goto, ThreadInv
  <2>3. LatchInv' /\ StopsUnderControl'
    BY <1>8 DEF SetStop, Goto, LatchInv, StopsUnderControl, MainInv, ThreadInv
  <2>. QED
    BY <2>1, <2>2, <2>3
<1>9. CASE Joined
  <2>1. MainInv'
    BY <1>9 DEF Joined, Goto, MainInv
  <2>2. ThreadInv'
    BY <1>9 DEF Joined, Goto, ThreadInv
  <2>3. LatchInv' /\ StopsUnderControl'
    BY <1>9 DEF Joined, Goto, LatchInv, StopsUnderControl, MainInv, ThreadInv
  <2>. QED
    BY <2>1, <2>2, <2>3
<1>10. CASE StopDone
  <2>1. MainInv'
    BY <1>10 DEF StopDone, Reply, MainInv
  <2>2. ThreadInv'
    BY <1>10 DEF StopDone, Reply, ThreadInv
  <2>3. LatchInv' /\ StopsUnderControl'
    BY <1>10 DEF StopDone, Reply, LatchInv, StopsUnderControl, MainInv, ThreadInv
  <2>. QED
    BY <2>1, <2>2, <2>3
<1>11. CASE Disconnect
  <2>1. MainInv'
    BY <1>11 DEF Disconnect, Reply, MainInv
  <2>2. ThreadInv'
    BY <1>11 DEF Disconnect, Reply, ThreadInv
  <2>3. LatchInv' /\ StopsUnderControl'
    BY <1>11 DEF Disconnect, Reply, LatchInv, StopsUnderControl, MainInv, ThreadInv
  <2>. QED
    BY <2>1, <2>2, <2>3
<1>12. CASE Construct
  <2>. DEFINE new == NewObject(ModeOf(main.op))
  <2>1. PICK r \in Runtimes :
          /\ r # runtime /\ ~Alive(r)
          /\ obj' = [obj EXCEPT ![r] = new]
          /\ IF main.op = "connect_ro"
               THEN runtime' = r /\ Reply("ok")
               ELSE main' = [main EXCEPT !.pc = "latch_wait", !.new = r] /\ UNCHANGED runtime
    BY <1>12 DEF Construct, Unused
  <2>2. main.pc = "closed" /\ main.op \in Connects
    BY <1>12 DEF Construct
  <2>4. /\ obj'[r] = new
        /\ \A q \in Runtimes \ {r} : obj'[q] = obj[q]
    BY <2>1 DEF TypeOK
  <2>5. /\ ~new.err /\ ~new.stop /\ new.speed = 0 /\ new.dq = 0 /\ new.finAt = -1
        /\ new.aim = "latched"
        /\ new.pc = IF main.op = "connect_ro" THEN "poll" ELSE "engage"
        /\ new.mode = IF main.op = "connect_ro" THEN "ro" ELSE "live"
    BY <2>2 DEF NewObject, ModeOf, Connects
  <2>6. IF main.op = "connect_ro" THEN runtime' = r /\ main'.pc = "recv"
        ELSE main'.pc = "latch_wait" /\ main'.new = r /\ main'.op = "connect_live" /\ runtime' = runtime
    <3>1. CASE main.op = "connect_ro"
      BY <2>1, <3>1 DEF Reply
    <3>2. CASE main.op = "connect_live"
      BY <2>1, <3>2 DEF TypeOK, Mains
    <3>. QED
      BY <2>2, <3>1, <3>2 DEF Connects
  <2>7. r # None /\ r # runtime
    BY <2>1
  <2>. HIDE DEF new
  <2>8. MainInv' /\ ThreadInv'
    BY <2>4, <2>5, <2>6, <2>7 DEF MainInv, ThreadInv, Closing
  <2>9. LatchInv' /\ StopsUnderControl'
    BY <2>4, <2>5, <2>6 DEF LatchInv, StopsUnderControl
  <2>. QED
    BY <2>8, <2>9
<1>13. CASE ConstructRaised
  <2>1. MainInv'
    BY <1>13 DEF ConstructRaised, Reply, MainInv
  <2>2. ThreadInv'
    BY <1>13 DEF ConstructRaised, Reply, ThreadInv
  <2>3. LatchInv' /\ StopsUnderControl'
    BY <1>13 DEF ConstructRaised, Reply, LatchInv, StopsUnderControl, MainInv, ThreadInv
  <2>. QED
    BY <2>1, <2>2, <2>3
<1>14. CASE LiveChecked
  <2>1. MainInv'
    BY <1>14 DEF LiveChecked, Reply, MainInv
  <2>2. ThreadInv'
    BY <1>14 DEF LiveChecked, Reply, ThreadInv
  <2>3. LatchInv' /\ StopsUnderControl'
    BY <1>14 DEF LiveChecked, Reply, LatchInv, StopsUnderControl, MainInv, ThreadInv
  <2>. QED
    BY <2>1, <2>2, <2>3
<1>15. ASSUME NEW r \in Runtimes, PollEnd(r) PROVE PlaceInv'
  <2>1. MainInv'
    BY <1>15 DEF PollEnd, At, Write, Ended, MainInv
  <2>2. ThreadInv'
    BY <1>15 DEF PollEnd, At, Write, Ended, ThreadInv
  <2>3. LatchInv' /\ StopsUnderControl'
    BY <1>15 DEF PollEnd, At, Write, Ended, LatchInv, StopsUnderControl, MainInv, ThreadInv
  <2>. QED
    BY <2>1, <2>2, <2>3
<1>16. ASSUME NEW r \in Runtimes, Engage(r) PROVE PlaceInv'
  <2>1. MainInv'
    BY <1>16 DEF Engage, At, Write, MainInv
  <2>2. ThreadInv'
    BY <1>16 DEF Engage, At, Write, ThreadInv
  <2>3. LatchInv' /\ StopsUnderControl'
    BY <1>16 DEF Engage, At, Write, LatchInv, StopsUnderControl, MainInv, ThreadInv
  <2>. QED
    BY <2>1, <2>2, <2>3
<1>17. ASSUME NEW r \in Runtimes, TestStop(r) PROVE PlaceInv'
  <2>1. MainInv'
    BY <1>17 DEF TestStop, At, Write, Ended, MainInv
  <2>2. ThreadInv'
    BY <1>17 DEF TestStop, At, Write, Ended, ThreadInv
  <2>3. LatchInv' /\ StopsUnderControl'
    BY <1>17 DEF TestStop, At, Write, Ended, LatchInv, StopsUnderControl, MainInv, ThreadInv
  <2>. QED
    BY <2>1, <2>2, <2>3
<1>18. ASSUME NEW r \in Runtimes, Exchange(r) PROVE PlaceInv'
  <2>1. MainInv'
    BY <1>18 DEF Exchange, At, Write, MainInv
  <2>2. ThreadInv'
    BY <1>18 DEF Exchange, At, Write, ThreadInv
  <2>3. LatchInv' /\ StopsUnderControl'
    BY <1>18 DEF Exchange, At, Write, LatchInv, StopsUnderControl, MainInv, ThreadInv
  <2>. QED
    BY <2>1, <2>2, <2>3
<1>19. ASSUME NEW r \in Runtimes, WriteOnce(r) PROVE PlaceInv'
  <2>1. MainInv'
    BY <1>19 DEF WriteOnce, At, Write, FilterSteps, MainInv
  <2>2. ThreadInv'
    BY <1>19 DEF WriteOnce, At, Write, FilterSteps, ThreadInv
  <2>3. LatchInv' /\ StopsUnderControl'
    BY <1>19 DEF WriteOnce, At, Write, FilterSteps, LatchInv, StopsUnderControl, MainInv, ThreadInv
  <2>. QED
    BY <2>1, <2>2, <2>3
<1>20. ASSUME NEW r \in Runtimes, ThreadRaised(r) PROVE PlaceInv'
  <2>1. MainInv'
    BY <1>20 DEF ThreadRaised, Write, Ended, MainInv
  <2>2. ThreadInv'
    BY <1>20 DEF ThreadRaised, Write, Ended, ThreadInv
  <2>3. LatchInv' /\ StopsUnderControl'
    BY <1>20 DEF ThreadRaised, Write, Ended, LatchInv, StopsUnderControl, MainInv, ThreadInv
  <2>. QED
    BY <2>1, <2>2, <2>3
<1>21. CASE UNCHANGED vars
  BY <1>21 DEF vars, MainInv, ThreadInv, LatchInv, StopsUnderControl
<1>. QED
  BY <1>1, <1>2, <1>3, <1>4, <1>5, <1>6, <1>7, <1>8, <1>9, <1>10, <1>11, <1>12, <1>13,
      <1>14, <1>15, <1>16, <1>17, <1>18, <1>19, <1>20, <1>21
  DEF Next, MainStep, ThreadStep

\* Where the serve() loop and the threads are, and the frozen target.
LEMMA PlaceInvariant == Spec => []PlaceInv
<1>1. Init => PlaceInv
  BY RuntimesAssumption
  DEF Init, PlaceInv, MainInv, ThreadInv, LatchInv, StopsUnderControl, Alive, Controls,
      NoObject, NewObject
<1>. QED
  BY <1>1, NextPlace, NodeTypeCorrect, PTL DEF Spec

\* While stop() slows a control loop down the loop goes to the frozen pose, or rests
\* where it latched after the freeze, for every set of runtimes and top speed and however
\* long reads of the robot take (fr3_runtime.py, stop() against _control_loop()).
THEOREM StopIsControlled == Spec => []StopsUnderControl
<1>1. PlaceInv => StopsUnderControl
  BY DEF PlaceInv
<1>. QED
  BY <1>1, PlaceInvariant, PTL

-----------------------------------------------------------------------------
(* Order, unless reads outlast the join.                                    *)

LEMMA NextOrder ==
  ASSUME TypeOK, TypeOK', ~slowRead, PlaceInv, OrderInv, FinishedSlow, [Next]_vars
  PROVE  OrderInv' /\ FinishedSlow'
<1>. USE SpeedAssumption, RuntimesAssumption DEF PlaceInv, OrderInv, Alive, Controls
<1>0. \A q \in Runtimes :
        /\ obj[q].late \in Nat /\ obj[q].dq \in Nat /\ obj[q].speed \in Nat
        /\ obj[q].finAt \in Int /\ obj[q].dq <= TopSpeed
  BY DEF TypeOK, Objects
<1>1. ASSUME NEW method \in Methods, Receive(method) PROVE OrderInv' /\ FinishedSlow'
  <2>1. LoneThread'
    BY <1>1 DEF Receive, LoneThread, MainInv
  <2>2. StopInv'
    BY <1>1 DEF Receive, StopInv, LoneThread, MainInv
  <2>3. SpeedInv'
    BY <1>1 DEF Receive, SpeedInv, LoneThread, MainInv, ThreadInv, StopInv
  <2>4. FinishedSlow'
    BY <1>1 DEF Receive, FinishedSlow, SpeedInv, StopInv, LoneThread, ThreadInv, MainInv
  <2>. QED
    BY <2>1, <2>2, <2>3, <2>4
<1>2. CASE GetState
  <2>1. LoneThread'
    BY <1>2 DEF GetState, Reply, LoneThread, MainInv
  <2>2. StopInv'
    BY <1>2 DEF GetState, Reply, StopInv, LoneThread, MainInv
  <2>3. SpeedInv'
    BY <1>2 DEF GetState, Reply, SpeedInv, LoneThread, MainInv, ThreadInv, StopInv
  <2>4. FinishedSlow'
    BY <1>2
    DEF GetState, Reply, FinishedSlow, SpeedInv, StopInv, LoneThread, ThreadInv, MainInv
  <2>. QED
    BY <2>1, <2>2, <2>3, <2>4
<1>3. CASE SetJointTarget
  <2>1. main.pc = "dispatch" /\ main'.pc = "recv" /\ runtime' = runtime
    BY <1>3 DEF SetJointTarget, Reply
  <2>2. \A q \in Runtimes :
          /\ obj'[q].pc = obj[q].pc /\ obj'[q].dq = obj[q].dq
          /\ obj'[q].speed = obj[q].speed /\ obj'[q].finAt = obj[q].finAt
          /\ obj'[q].stop = obj[q].stop /\ obj'[q].late = obj[q].late
          /\ obj'[q].gaveUp = obj[q].gaveUp
    BY <1>3 DEF SetJointTarget, TypeOK, Objects
  <2>3. LoneThread'
    BY <2>1, <2>2 DEF LoneThread
  <2>4. StopInv'
    BY <2>1, <2>2 DEF StopInv
  <2>5. SpeedInv'
    BY <2>1, <2>2 DEF SpeedInv
  <2>6. FinishedSlow'
    BY <2>2 DEF FinishedSlow
  <2>. QED
    BY <2>3, <2>4, <2>5, <2>6
<1>4. CASE NothingToStop
  <2>1. LoneThread'
    BY <1>4 DEF NothingToStop, Goto, LoneThread, MainInv
  <2>2. StopInv'
    BY <1>4 DEF NothingToStop, Goto, StopInv, LoneThread, MainInv
  <2>3. SpeedInv'
    BY <1>4 DEF NothingToStop, Goto, SpeedInv, LoneThread, MainInv, ThreadInv, StopInv
  <2>4. FinishedSlow'
    BY <1>4
    DEF NothingToStop, Goto, FinishedSlow, SpeedInv, StopInv, LoneThread, ThreadInv,
        MainInv
  <2>. QED
    BY <2>1, <2>2, <2>3, <2>4
<1>5. CASE BeginStop
  <2>1. LoneThread'
    BY <1>5 DEF BeginStop, Goto, LoneThread, MainInv, TypeOK, Mains
  <2>2. StopInv'
    BY <1>5 DEF BeginStop, Goto, StopInv, LoneThread, MainInv, TypeOK, Mains, Objects
  <2>3. SpeedInv'
    BY <1>5
    DEF BeginStop, Goto, SpeedInv, LoneThread, MainInv, ThreadInv, StopInv, TypeOK,
        Mains, Objects
  <2>4. FinishedSlow'
    BY <1>5
    DEF BeginStop, Goto, FinishedSlow, SpeedInv, StopInv, LoneThread, ThreadInv, MainInv,
        TypeOK, Mains, MainPcs, Objects, ThreadPcs, Methods, Closing, Connects
  <2>. QED
    BY <2>1, <2>2, <2>3, <2>4
<1>6. CASE SlowedDown
  <2>1. LoneThread'
    BY <1>6 DEF SlowedDown, Goto, LoneThread, MainInv
  <2>2. StopInv'
    BY <1>6 DEF SlowedDown, Goto, StopInv, LoneThread, MainInv
  <2>3. SpeedInv'
    BY <1>0, <1>6 DEF SlowedDown, Goto, SpeedInv, LoneThread, MainInv, ThreadInv, StopInv
  <2>4. FinishedSlow'
    BY <1>6
    DEF SlowedDown, Goto, FinishedSlow, SpeedInv, StopInv, LoneThread, ThreadInv, MainInv
  <2>. QED
    BY <2>1, <2>2, <2>3, <2>4
<1>7. CASE GiveUp
  <2>1. LoneThread'
    BY <1>7 DEF GiveUp, Goto, LoneThread, MainInv
  <2>2. StopInv'
    BY <1>7 DEF GiveUp, Goto, StopInv, LoneThread, MainInv
  <2>3. /\ main.pc = "decel" /\ main'.pc = "set_stop" /\ runtime' = runtime
        /\ runtime \in Runtimes /\ obj'[runtime].gaveUp
        /\ \A q \in Runtimes :
             /\ obj'[q].pc = obj[q].pc /\ obj'[q].dq = obj[q].dq
             /\ obj'[q].speed = obj[q].speed /\ obj'[q].stop = obj[q].stop
             /\ obj'[q].finAt = obj[q].finAt /\ obj'[q].late = obj[q].late
             /\ q # runtime => obj'[q] = obj[q]
    BY <1>7 DEF GiveUp, Goto, MainInv, TypeOK, Mains, Objects
  <2>4. SpeedInv'
    BY <1>0, <2>3 DEF SpeedInv, LoneThread
  <2>5. FinishedSlow'
    BY <1>0, <2>3 DEF FinishedSlow
  <2>. QED
    BY <2>1, <2>2, <2>4, <2>5
<1>8. CASE SetStop
  <2>1. LoneThread'
    BY <1>8 DEF SetStop, Goto, LoneThread, MainInv
  <2>2. StopInv'
    BY <1>8 DEF SetStop, Goto, StopInv, LoneThread, MainInv
  <2>3. SpeedInv'
    BY <1>0, <1>8 DEF SetStop, Goto, SpeedInv, LoneThread, MainInv, ThreadInv, StopInv, TypeOK
  <2>4. FinishedSlow'
    BY <1>8
    DEF SetStop, Goto, FinishedSlow, SpeedInv, StopInv, LoneThread, ThreadInv, MainInv
  <2>. QED
    BY <2>1, <2>2, <2>3, <2>4
<1>9. CASE Joined
  <2>1. LoneThread'
    BY <1>9 DEF Joined, Goto, LoneThread, MainInv
  <2>2. StopInv'
    BY <1>9 DEF Joined, Goto, StopInv, LoneThread, MainInv
  <2>3. SpeedInv'
    BY <1>9 DEF Joined, Goto, SpeedInv, LoneThread, MainInv, ThreadInv, StopInv
  <2>4. FinishedSlow'
    BY <1>9
    DEF Joined, Goto, FinishedSlow, SpeedInv, StopInv, LoneThread, ThreadInv, MainInv
  <2>. QED
    BY <2>1, <2>2, <2>3, <2>4
<1>10. CASE StopDone
  <2>1. LoneThread'
    BY <1>10 DEF StopDone, Reply, LoneThread, MainInv
  <2>2. StopInv'
    BY <1>10 DEF StopDone, Reply, StopInv, LoneThread, MainInv
  <2>3. SpeedInv'
    BY <1>10 DEF StopDone, Reply, SpeedInv, LoneThread, MainInv, ThreadInv, StopInv
  <2>4. FinishedSlow'
    BY <1>10
    DEF StopDone, Reply, FinishedSlow, SpeedInv, StopInv, LoneThread, ThreadInv, MainInv
  <2>. QED
    BY <2>1, <2>2, <2>3, <2>4
<1>11. CASE Disconnect
  <2>1. LoneThread'
    BY <1>11 DEF Disconnect, Reply, LoneThread, MainInv
  <2>2. StopInv'
    BY <1>11 DEF Disconnect, Reply, StopInv, LoneThread, MainInv
  <2>3. SpeedInv'
    BY <1>11 DEF Disconnect, Reply, SpeedInv, LoneThread, MainInv, ThreadInv, StopInv
  <2>4. FinishedSlow'
    BY <1>11
    DEF Disconnect, Reply, FinishedSlow, SpeedInv, StopInv, LoneThread, ThreadInv,
        MainInv
  <2>. QED
    BY <2>1, <2>2, <2>3, <2>4
<1>12. CASE Construct
  <2>. DEFINE new == NewObject(ModeOf(main.op))
  <2>1. PICK r \in Runtimes :
          /\ r # runtime /\ ~Alive(r)
          /\ obj' = [obj EXCEPT ![r] = new]
          /\ IF main.op = "connect_ro"
               THEN runtime' = r /\ Reply("ok")
               ELSE main' = [main EXCEPT !.pc = "latch_wait", !.new = r] /\ UNCHANGED runtime
    BY <1>12 DEF Construct, Unused
  <2>2. main.pc = "closed" /\ main.op \in Connects
    BY <1>12 DEF Construct
  <2>4. /\ obj'[r] = new
        /\ \A q \in Runtimes \ {r} : obj'[q] = obj[q]
    BY <2>1 DEF TypeOK
  <2>5. /\ ~new.err /\ ~new.stop /\ new.speed = 0 /\ new.dq = 0 /\ new.finAt = -1
        /\ new.aim = "latched"
        /\ new.pc = IF main.op = "connect_ro" THEN "poll" ELSE "engage"
        /\ new.mode = IF main.op = "connect_ro" THEN "ro" ELSE "live"
    BY <2>2 DEF NewObject, ModeOf, Connects
  <2>6. IF main.op = "connect_ro" THEN runtime' = r /\ main'.pc = "recv"
        ELSE main'.pc = "latch_wait" /\ main'.new = r /\ main'.op = "connect_live" /\ runtime' = runtime
    <3>1. CASE main.op = "connect_ro"
      BY <2>1, <3>1 DEF Reply
    <3>2. CASE main.op = "connect_live"
      BY <2>1, <3>2 DEF TypeOK, Mains
    <3>. QED
      BY <2>2, <3>1, <3>2 DEF Connects
  <2>7. r # None /\ r # runtime
    BY <2>1
  <2>. HIDE DEF new
  <2>8. \A q \in Runtimes : ~Alive(q)
    BY <2>2 DEF LoneThread
  <2>9. LoneThread'
    BY <2>4, <2>5, <2>6, <2>8 DEF LoneThread
  <2>10. StopInv' /\ SpeedInv'
    BY <2>4, <2>5, <2>6, <2>8 DEF StopInv, SpeedInv
  <2>11. FinishedSlow'
    <3>1. obj'[r].finAt = -1
      BY <2>4, <2>5
    <3>2. new.late \in Nat
      BY DEF new, NewObject
    <3>. QED
      BY <2>4, <3>1, <3>2 DEF FinishedSlow
  <2>. QED
    BY <2>9, <2>10, <2>11
<1>13. CASE ConstructRaised
  <2>1. LoneThread'
    BY <1>13 DEF ConstructRaised, Reply, LoneThread, MainInv
  <2>2. StopInv'
    BY <1>13 DEF ConstructRaised, Reply, StopInv, LoneThread, MainInv
  <2>3. SpeedInv'
    BY <1>13 DEF ConstructRaised, Reply, SpeedInv, LoneThread, MainInv, ThreadInv, StopInv
  <2>4. FinishedSlow'
    BY <1>13
    DEF ConstructRaised, Reply, FinishedSlow, SpeedInv, StopInv, LoneThread, ThreadInv,
        MainInv
  <2>. QED
    BY <2>1, <2>2, <2>3, <2>4
<1>14. CASE LiveChecked
  <2>1. LoneThread'
    BY <1>14 DEF LiveChecked, Reply, LoneThread, ThreadInv
  <2>2. StopInv'
    BY <1>14 DEF LiveChecked, Reply, StopInv, LoneThread, MainInv
  <2>3. SpeedInv'
    BY <1>14 DEF LiveChecked, Reply, SpeedInv, LoneThread, MainInv, ThreadInv, StopInv
  <2>4. FinishedSlow'
    BY <1>14
    DEF LiveChecked, Reply, FinishedSlow, SpeedInv, StopInv, LoneThread, ThreadInv,
        MainInv
  <2>. QED
    BY <2>1, <2>2, <2>3, <2>4
<1>15. ASSUME NEW r \in Runtimes, PollEnd(r) PROVE OrderInv' /\ FinishedSlow'
  <2>1. LoneThread'
    BY <1>15 DEF PollEnd, At, Write, Ended, LoneThread, MainInv
  <2>2. StopInv'
    BY <1>15 DEF PollEnd, At, Write, Ended, StopInv, LoneThread, MainInv
  <2>3. SpeedInv'
    BY <1>15
    DEF PollEnd, At, Write, Ended, SpeedInv, LoneThread, MainInv, ThreadInv, StopInv
  <2>4. FinishedSlow'
    BY <1>15
    DEF PollEnd, At, Write, Ended, FinishedSlow, SpeedInv, StopInv, LoneThread,
        ThreadInv, MainInv
  <2>. QED
    BY <2>1, <2>2, <2>3, <2>4
<1>16. ASSUME NEW r \in Runtimes, Engage(r) PROVE OrderInv' /\ FinishedSlow'
  <2>1. LoneThread'
    BY <1>16 DEF Engage, At, Write, LoneThread, MainInv
  <2>2. StopInv'
    BY <1>16 DEF Engage, At, Write, StopInv, LoneThread, MainInv
  <2>3. SpeedInv'
    BY <1>16 DEF Engage, At, Write, SpeedInv, LoneThread, MainInv, ThreadInv, StopInv
  <2>4. FinishedSlow'
    BY <1>16
    DEF Engage, At, Write, FinishedSlow, SpeedInv, StopInv, LoneThread, ThreadInv,
        MainInv
  <2>. QED
    BY <2>1, <2>2, <2>3, <2>4
<1>17. ASSUME NEW r \in Runtimes, TestStop(r) PROVE OrderInv' /\ FinishedSlow'
  <2>1. LoneThread'
    BY <1>17 DEF TestStop, At, Write, Ended, LoneThread, MainInv
  <2>2. StopInv'
    BY <1>17 DEF TestStop, At, Write, Ended, StopInv, LoneThread, MainInv
  <2>3. SpeedInv'
    BY <1>17
    DEF TestStop, At, Write, Ended, SpeedInv, LoneThread, MainInv, ThreadInv, StopInv
  <2>4. FinishedSlow'
    BY <1>17
    DEF TestStop, At, Write, Ended, FinishedSlow, SpeedInv, StopInv, LoneThread,
        ThreadInv, MainInv
  <2>. QED
    BY <2>1, <2>2, <2>3, <2>4
<1>18. ASSUME NEW r \in Runtimes, Exchange(r) PROVE OrderInv' /\ FinishedSlow'
  <2>1. LoneThread'
    BY <1>18 DEF Exchange, At, Write, LoneThread, MainInv
  <2>2. StopInv'
    BY <1>18 DEF Exchange, At, Write, StopInv, LoneThread, MainInv
  <2>3. /\ obj'[r].dq = obj[r].speed /\ obj'[r].speed = obj[r].speed
        /\ obj'[r].pc = "write" /\ obj'[r].stop = obj[r].stop
        /\ obj'[r].finAt = obj[r].finAt /\ obj'[r].gaveUp = obj[r].gaveUp
    BY <1>18 DEF Exchange, At, Write, TypeOK, Objects
  <2>4. /\ obj'[r].late \in Nat /\ obj'[r].late >= obj[r].late
        /\ r = runtime /\ main.pc = "set_stop" =>
             obj'[r].late = obj[r].late + 1 \/ obj'[r].late >= TopSpeed
    BY <1>0, <1>18 DEF Exchange, At, Write, TypeOK, Objects
  <2>5. main' = main /\ \A q \in Runtimes \ {r} : obj'[q] = obj[q]
    BY <1>18 DEF Exchange, At, Write, TypeOK
  <2>6. SpeedInv'
    <3>1. Controls(r) /\ main.pc = "set_stop" => r = runtime
      BY DEF LoneThread
    <3>2. obj[r].pc = "cycle" /\ obj[r].finAt = -1
      BY <1>18 DEF Exchange, At, SpeedInv
    <3>3. obj[r].speed <= TopSpeed
      BY DEF TypeOK, Objects
    <3>. QED
      BY <1>0, <2>3, <2>4, <2>5, <3>1, <3>2, <3>3 DEF SpeedInv
  <2>7. FinishedSlow'
    BY <1>0, <2>3, <2>4, <2>5, ~slowRead DEF FinishedSlow
  <2>. QED
    BY <2>1, <2>2, <2>6, <2>7
<1>19. ASSUME NEW r \in Runtimes, WriteOnce(r) PROVE OrderInv' /\ FinishedSlow'
  <2>1. LoneThread'
    BY <1>19 DEF WriteOnce, At, Write, FilterSteps, LoneThread, MainInv
  <2>2. StopInv'
    BY <1>19 DEF WriteOnce, At, Write, FilterSteps, StopInv, LoneThread, MainInv
  <2>3. SpeedInv'
    BY <1>19
    DEF WriteOnce, At, Write, FilterSteps, SpeedInv, LoneThread, MainInv, ThreadInv,
        StopInv
  <2>4. FinishedSlow'
    BY <1>19
    DEF WriteOnce, At, Write, FilterSteps, FinishedSlow, SpeedInv, StopInv, LoneThread,
        ThreadInv, MainInv, TypeOK, Mains, Objects
  <2>. QED
    BY <2>1, <2>2, <2>3, <2>4
<1>20. ASSUME NEW r \in Runtimes, ThreadRaised(r) PROVE OrderInv' /\ FinishedSlow'
  <2>1. LoneThread'
    BY <1>20 DEF ThreadRaised, Write, Ended, LoneThread, MainInv
  <2>2. StopInv'
    BY <1>20 DEF ThreadRaised, Write, Ended, StopInv, LoneThread, MainInv
  <2>3. SpeedInv'
    BY <1>20
    DEF ThreadRaised, Write, Ended, SpeedInv, LoneThread, MainInv, ThreadInv, StopInv
  <2>4. FinishedSlow'
    BY <1>20
    DEF ThreadRaised, Write, Ended, FinishedSlow, SpeedInv, StopInv, LoneThread,
        ThreadInv, MainInv
  <2>. QED
    BY <2>1, <2>2, <2>3, <2>4
<1>21. CASE UNCHANGED vars
  BY <1>21 DEF vars, LoneThread, MainInv, StopInv, SpeedInv, ThreadInv, FinishedSlow
<1>. QED
  BY <1>1, <1>2, <1>3, <1>4, <1>5, <1>6, <1>7, <1>8, <1>9, <1>10, <1>11, <1>12, <1>13,
      <1>14, <1>15, <1>16, <1>17, <1>18, <1>19, <1>20, <1>21
  DEF Next, MainStep, ThreadStep

LEMMA NodeInvariant == Spec => [](~slowRead => OrderInv /\ FinishedSlow)
<1>. DEFINE Inv == ~slowRead => OrderInv /\ FinishedSlow
<1>1. Init => Inv
  BY RuntimesAssumption, SpeedAssumption
  DEF Init, OrderInv, LoneThread, StopInv, SpeedInv, FinishedSlow,
      Alive, Controls, NoObject, NewObject
<1>2. [Next]_vars => slowRead' = slowRead
  BY DEF Next, MainStep, ThreadStep, vars, Receive, GetState, SetJointTarget,
    NothingToStop, BeginStop, SlowedDown, GiveUp, SetStop, Joined, StopDone, Disconnect,
    Construct, ConstructRaised, LiveChecked, PollEnd, Engage, TestStop, Exchange,
    WriteOnce, ThreadRaised, Write
<1>3. TypeOK /\ TypeOK' /\ PlaceInv /\ Inv /\ [Next]_vars => Inv'
  BY <1>2, NextOrder
<1>. QED
  BY <1>1, <1>3, NodeTypeCorrect, PlaceInvariant, PTL DEF Spec

\* For every set of runtimes: unless reads outlast the join of stop(), two control
\* loops never run at once, whatever fails during connect() (fr3_runtime.py, one
\* client of the FCI at a time).
THEOREM OneControlLoop == Spec => []OneMotion
<1>1. TypeOK /\ (~slowRead => OrderInv /\ FinishedSlow) => OneMotion
  BY DEF OneMotion, OrderInv, LoneThread, Alive, Controls
<1>. QED
  BY <1>1, NodeTypeCorrect, NodeInvariant, PTL

\* After an answered stop, disconnect or failed connect no thread commands the robot
\* (robot_node.py, FR3Runtime.stop()).
THEOREM StoppedIsQuiet == Spec => []QuietWhenStopped
<1>1. TypeOK /\ (~slowRead => OrderInv /\ FinishedSlow) => QuietWhenStopped
  BY RuntimesAssumption DEF QuietWhenStopped, OrderInv, LoneThread, StopInv, Alive, Controls
<1>. QED
  BY <1>1, NodeTypeCorrect, NodeInvariant, PTL

\* motion_finished is declared at most two cycles away from rest, and one for every late
\* cycle, unless stop() gave up waiting, for every top speed (fr3_runtime.py, docstring
\* of stop()).
THEOREM FinishIsSlow == Spec => []FinishedSlow
<1>1. (~slowRead => OrderInv /\ FinishedSlow) => FinishedSlow
  BY DEF FinishedSlow
<1>. QED
  BY <1>1, NodeInvariant, PTL

-----------------------------------------------------------------------------
(* The contract: the safety half of KeepsContract.                          *)

\* No method runs while the node waits for a call. Past the stop the runtime is a
\* stopped one; the one being made is not.
MadeInv ==
  /\ main.pc = "recv" => main.op = "none"
  /\ main.pc \in {"join", "closed", "latch_wait"} /\ runtime # None => obj[runtime].stop
  /\ main.pc = "latch_wait" => obj[main.new].mode = "live" /\ ~obj[main.new].stop

LEMMA NextMade ==
  ASSUME TypeOK, TypeOK', PlaceInv, MadeInv, [Next]_vars
  PROVE  MadeInv'
<1>. USE RuntimesAssumption DEF PlaceInv, MainInv, MadeInv, Alive
<1>1. ASSUME NEW method \in Methods, Receive(method) PROVE MadeInv'
  BY <1>1 DEF Receive
<1>2. CASE GetState
  BY <1>2 DEF GetState, Reply
<1>3. CASE SetJointTarget
  BY <1>3 DEF SetJointTarget, Reply
<1>4. CASE NothingToStop
  BY <1>4 DEF NothingToStop, Goto
<1>5. CASE BeginStop
  BY <1>5 DEF BeginStop, Goto, TypeOK, Mains
<1>6. CASE SlowedDown
  BY <1>6 DEF SlowedDown, Goto
<1>7. CASE GiveUp
  BY <1>7 DEF GiveUp, Goto
<1>8. CASE SetStop
  BY <1>8 DEF SetStop, Goto, TypeOK
<1>9. CASE Joined
  BY <1>9 DEF Joined, Goto
<1>10. CASE StopDone
  BY <1>10 DEF StopDone, Reply
<1>11. CASE Disconnect
  BY <1>11 DEF Disconnect, Reply
<1>12. CASE Construct
  <2>. DEFINE new == NewObject(ModeOf(main.op))
  <2>1. PICK r \in Runtimes :
          /\ r # runtime /\ ~Alive(r)
          /\ obj' = [obj EXCEPT ![r] = new]
          /\ IF main.op = "connect_ro"
               THEN runtime' = r /\ Reply("ok")
               ELSE main' = [main EXCEPT !.pc = "latch_wait", !.new = r] /\ UNCHANGED runtime
    BY <1>12 DEF Construct, Unused
  <2>2. main.pc = "closed" /\ main.op \in Connects
    BY <1>12 DEF Construct
  <2>4. /\ obj'[r] = new
        /\ \A q \in Runtimes \ {r} : obj'[q] = obj[q]
    BY <2>1 DEF TypeOK
  <2>5. /\ ~new.err /\ ~new.stop /\ new.speed = 0 /\ new.dq = 0 /\ new.finAt = -1
        /\ new.aim = "latched"
        /\ new.pc = IF main.op = "connect_ro" THEN "poll" ELSE "engage"
        /\ new.mode = IF main.op = "connect_ro" THEN "ro" ELSE "live"
    BY <2>2 DEF NewObject, ModeOf, Connects
  <2>6. IF main.op = "connect_ro" THEN runtime' = r /\ main'.pc = "recv"
        ELSE main'.pc = "latch_wait" /\ main'.new = r /\ main'.op = "connect_live" /\ runtime' = runtime
    <3>1. CASE main.op = "connect_ro"
      BY <2>1, <3>1 DEF Reply
    <3>2. CASE main.op = "connect_live"
      BY <2>1, <3>2 DEF TypeOK, Mains
    <3>. QED
      BY <2>2, <3>1, <3>2 DEF Connects
  <2>7. r # None /\ r # runtime
    BY <2>1
  <2>. HIDE DEF new
  <2>8. runtime \in Runtimes => obj'[runtime] = obj[runtime]
    BY <2>4, <2>7
  <2>9. main.op = "connect_ro" => main'.op = "none"
    BY <2>1 DEF Reply
  <2>. QED
    BY <2>2, <2>4, <2>5, <2>6, <2>8, <2>9 DEF TypeOK, Connects
<1>13. CASE ConstructRaised
  BY <1>13 DEF ConstructRaised, Reply
<1>14. CASE LiveChecked
  BY <1>14 DEF LiveChecked, Reply
<1>15. ASSUME NEW r \in Runtimes, PollEnd(r) PROVE MadeInv'
  BY <1>15 DEF PollEnd, At, Write, Ended
<1>16. ASSUME NEW r \in Runtimes, Engage(r) PROVE MadeInv'
  BY <1>16 DEF Engage, At, Write
<1>17. ASSUME NEW r \in Runtimes, TestStop(r) PROVE MadeInv'
  BY <1>17 DEF TestStop, At, Write, Ended
<1>18. ASSUME NEW r \in Runtimes, Exchange(r) PROVE MadeInv'
  BY <1>18 DEF Exchange, At, Write
<1>19. ASSUME NEW r \in Runtimes, WriteOnce(r) PROVE MadeInv'
  BY <1>19 DEF WriteOnce, At, Write, FilterSteps
<1>20. ASSUME NEW r \in Runtimes, ThreadRaised(r) PROVE MadeInv'
  BY <1>20 DEF ThreadRaised, Write, Ended
<1>21. CASE UNCHANGED vars
  BY <1>21 DEF vars
<1>. QED
  BY <1>1, <1>2, <1>3, <1>4, <1>5, <1>6, <1>7, <1>8, <1>9, <1>10, <1>11, <1>12, <1>13,
      <1>14, <1>15, <1>16, <1>17, <1>18, <1>19, <1>20, <1>21
  DEF Next, MainStep, ThreadStep

LEMMA NextContract ==
  ASSUME TypeOK, TypeOK', PlaceInv, MadeInv, [Next]_vars
  PROVE  [Contract!Next]_(Contract!vars)
<1>. USE RuntimesAssumption DEF PlaceInv, MainInv, MadeInv, Alive, Contract!Next, Contract!vars
<1>1. ASSUME NEW method \in Methods, Receive(method) PROVE [Contract!Next]_(Contract!vars)
  BY <1>1
  DEF Receive, Contract!Receive, NodeView, Contract!Methods, Contract!Closing,
      Contract!Connects, TypeOK, Mains, MainPcs, Objects, ThreadPcs, Methods, Closing,
      Connects
<1>2. CASE GetState
  BY <1>2
  DEF GetState, Reply, NodeView, Contract!Methods, Contract!Closing, Contract!Connects,
      TypeOK, Mains, Objects, Contract!StateRead, Contract!Readable, Contract!Answer,
      Alive, Controls
<1>3. CASE SetJointTarget
  BY <1>3
  DEF SetJointTarget, Reply, NodeView, Contract!Methods, Contract!Closing,
      Contract!Connects, TypeOK, Mains, Objects, Contract!TargetSet, Contract!Answer
<1>4. CASE NothingToStop
  BY <1>4
  DEF NothingToStop, Goto, NodeView, Contract!Methods, Contract!Closing,
      Contract!Connects
<1>5. CASE BeginStop
  BY <1>5
  DEF BeginStop, Goto, NodeView, Contract!Methods, Contract!Closing, Contract!Connects,
      TypeOK, Mains, Objects
<1>6. CASE SlowedDown
  BY <1>6
  DEF SlowedDown, Goto, NodeView, Contract!Methods, Contract!Closing, Contract!Connects
<1>7. CASE GiveUp
  BY <1>7 DEF GiveUp, Goto, NodeView, Contract!Methods, Contract!Closing, Contract!Connects
<1>8. CASE SetStop
  BY <1>8
  DEF SetStop, Goto, NodeView, Contract!Methods, Contract!Closing, Contract!Connects,
      TypeOK, Mains, Closing, Connects, Contract!Halt
<1>9. CASE Joined
  BY <1>9 DEF Joined, Goto, NodeView, Contract!Methods, Contract!Closing, Contract!Connects
<1>10. CASE StopDone
  BY <1>10
  DEF StopDone, Reply, NodeView, Contract!Methods, Contract!Closing, Contract!Connects,
      Contract!Stopped, Contract!Answer
<1>11. CASE Disconnect
  BY <1>11
  DEF Disconnect, Reply, NodeView, Contract!Methods, Contract!Closing, Contract!Connects,
      Contract!Disconnected, Contract!NoRuntime, Contract!Answer
<1>12. CASE Construct
  <2>. DEFINE new == NewObject(ModeOf(main.op))
  <2>1. PICK r \in Runtimes :
          /\ r # runtime /\ ~Alive(r)
          /\ obj' = [obj EXCEPT ![r] = new]
          /\ IF main.op = "connect_ro"
               THEN runtime' = r /\ Reply("ok")
               ELSE main' = [main EXCEPT !.pc = "latch_wait", !.new = r] /\ UNCHANGED runtime
    BY <1>12 DEF Construct, Unused
  <2>2. main.pc = "closed" /\ main.op \in Connects
    BY <1>12 DEF Construct
  <2>4. /\ obj'[r] = new
        /\ \A q \in Runtimes \ {r} : obj'[q] = obj[q]
    BY <2>1 DEF TypeOK
  <2>5. /\ ~new.err /\ ~new.stop /\ new.speed = 0 /\ new.dq = 0 /\ new.finAt = -1
        /\ new.aim = "latched"
        /\ new.pc = IF main.op = "connect_ro" THEN "poll" ELSE "engage"
        /\ new.mode = IF main.op = "connect_ro" THEN "ro" ELSE "live"
    BY <2>2 DEF NewObject, ModeOf, Connects
  <2>6. IF main.op = "connect_ro" THEN runtime' = r /\ main'.pc = "recv"
        ELSE main'.pc = "latch_wait" /\ main'.new = r /\ main'.op = "connect_live" /\ runtime' = runtime
    <3>1. CASE main.op = "connect_ro"
      BY <2>1, <3>1 DEF Reply
    <3>2. CASE main.op = "connect_live"
      BY <2>1, <3>2 DEF TypeOK, Mains
    <3>. QED
      BY <2>2, <3>1, <3>2 DEF Connects
  <2>7. r # None /\ r # runtime
    BY <2>1
  <2>. HIDE DEF new
  <2>8. runtime \in Runtimes => obj'[runtime] = obj[runtime]
    BY <2>4, <2>7
  <2>9. CASE main.op = "connect_live"
    BY <2>1, <2>6, <2>8, <2>9 DEF NodeView, TypeOK, Mains
  <2>10. CASE main.op = "connect_ro"
    <3>1. NodeView' = Contract!Opened("ro")
      BY <2>4, <2>5, <2>6, <2>7, <2>10 DEF NodeView, Contract!Opened
    <3>2. NodeView.health # "running"
      BY <2>2 DEF NodeView
    <3>3. main'.op = "none" /\ main'.reply = "ok"
      BY <2>1, <2>10 DEF Reply
    <3>. QED
      BY <2>10, <3>1, <3>2, <3>3
      DEF Contract!Connected, Contract!Connects, Contract!ModeOf, Contract!Answer
  <2>. QED
    BY <2>2, <2>9, <2>10 DEF Connects
<1>13. CASE ConstructRaised
  BY <1>13
  DEF ConstructRaised, Reply, NodeView, Contract!Methods, Contract!Closing,
      Contract!Connects, TypeOK, Mains, Closing, Connects, Contract!NotConnected,
      Contract!Answer
<1>14. CASE LiveChecked
  BY <1>14
  DEF LiveChecked, Reply, NodeView, Contract!Methods, Contract!Closing,
      Contract!Connects, Contract!Connected, Contract!NotConnected, Contract!Opened,
      Contract!ModeOf, Contract!Answer
<1>15. ASSUME NEW r \in Runtimes, PollEnd(r) PROVE [Contract!Next]_(Contract!vars)
  BY <1>15 DEF PollEnd, At, Write, Ended, NodeView
<1>16. ASSUME NEW r \in Runtimes, Engage(r) PROVE [Contract!Next]_(Contract!vars)
  BY <1>16 DEF Engage, At, Write, NodeView
<1>17. ASSUME NEW r \in Runtimes, TestStop(r) PROVE [Contract!Next]_(Contract!vars)
  BY <1>17 DEF TestStop, At, Write, Ended, NodeView
<1>18. ASSUME NEW r \in Runtimes, Exchange(r) PROVE [Contract!Next]_(Contract!vars)
  BY <1>18 DEF Exchange, At, Write, NodeView
<1>19. ASSUME NEW r \in Runtimes, WriteOnce(r) PROVE [Contract!Next]_(Contract!vars)
  BY <1>19 DEF WriteOnce, At, Write, FilterSteps, NodeView
<1>20. ASSUME NEW r \in Runtimes, ThreadRaised(r) PROVE [Contract!Next]_(Contract!vars)
  BY <1>20
  DEF ThreadRaised, Write, Ended, NodeView, Contract!Fault, ThreadInv, Alive, Controls
<1>21. CASE UNCHANGED vars
  BY <1>21 DEF vars, NodeView
<1>. QED
  BY <1>1, <1>2, <1>3, <1>4, <1>5, <1>6, <1>7, <1>8, <1>9, <1>10, <1>11, <1>12, <1>13,
      <1>14, <1>15, <1>16, <1>17, <1>18, <1>19, <1>20, <1>21
  DEF Next, MainStep, ThreadStep

\* The node implements the contract the app is written against: for every set of
\* runtimes each of its steps is a step of the contract or invisible to the app. That
\* every call is answered is left to the run (robot_node.py, serve()).
THEOREM NodeImplementsContract ==
  Spec => Contract!Init /\ [][Contract!Next]_(Contract!vars)
<1>1. Init => Contract!Init /\ MadeInv
  BY RuntimesAssumption DEF Init, Contract!Init, Contract!NoRuntime, NodeView, MadeInv
<1>. QED
  BY <1>1, NextMade, NextContract, NodeTypeCorrect, PlaceInvariant, PTL DEF Spec

=============================================================================
