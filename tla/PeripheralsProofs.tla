-------------------------- MODULE PeripheralsProofs --------------------------
(***************************************************************************)
(* The gripper's thread, the client of the policy server and the cameras,  *)
(* for every number of sessions, thresholds, cameras and workers.          *)
(***************************************************************************)
EXTENDS PolicyClient, Gripper, Cameras, FiniteSetTheorems, TLAPS

-----------------------------------------------------------------------------
(* The gripper. *)

\* The dwell that decide() measures is the hand's, and the belief is the last stroke.
GripInv ==
  /\ age \in 0..Dwell /\ since = age
  /\ closed \in BOOLEAN
  /\ closed <=> sent = "grasp"

LEMMA GripInitial == GripInit => GripInv
<1> SUFFICES ASSUME GripInit PROVE GripInv
  OBVIOUS
<1>1. age \in 0..Dwell /\ since = age
  BY GripperAssumption DEF GripInit
<1>2. closed = FALSE /\ sent # "grasp"
  BY DEF GripInit
<1> QED BY <1>1, <1>2, Zenon DEF GripInv

\* A stroke waits for the dwell and is never the last one again.
LEMMA StrokeFits ==
  ASSUME GripInv, [GripNext]_gripVars
  PROVE  GripInv' /\ (closed' # closed => since >= Dwell /\ sent' # sent)
<1>1. CASE Decide
  <2>1. CASE MustClose
    <3>1. /\ ~closed /\ ~(age < Dwell) /\ closed' = ~closed /\ age' = 0 /\ since' = 0
          /\ sent' = "grasp"
      BY <1>1, <2>1 DEF Decide, MustClose, Dwelling
    <3>2. 0 \in 0..Dwell /\ since >= Dwell
      BY <3>1, GripperAssumption DEF GripInv
    <3> QED BY <3>1, <3>2, Zenon DEF GripInv
  <2>2. CASE ~MustClose /\ MustOpen
    <3>1. /\ closed /\ ~(age < Dwell) /\ closed' = ~closed /\ age' = 0 /\ since' = 0
          /\ sent' = "move"
      BY <1>1, <2>2 DEF Decide, MustOpen, Dwelling
    <3>2. 0 \in 0..Dwell /\ since >= Dwell /\ "move" # "grasp"
      BY <3>1, GripperAssumption DEF GripInv
    <3> QED BY <3>1, <3>2, Zenon DEF GripInv
  <2>3. CASE ~MustClose /\ ~MustOpen
    <3>1. closed' = closed /\ age' = age /\ sent' = sent /\ since' = since
      BY <1>1, <2>3 DEF Decide
    <3> QED BY <3>1 DEF GripInv
  <2> QED BY <2>1, <2>2, <2>3
<1>2. CASE Pass
  <2>1. age' = Later(age) /\ since' = Later(since) /\ closed' = closed /\ sent' = sent
    BY <1>2 DEF Pass
  <2>2. Later(age) \in 0..Dwell
    BY GripperAssumption DEF GripInv, Later
  <2> QED BY <2>1, <2>2 DEF GripInv
<1>3. CASE SetTarget \/ Returned \/ Wake \/ EndLoop \/ StopGripper \/ UNCHANGED gripVars
  <2>1. closed' = closed /\ age' = age /\ sent' = sent /\ since' = since
    BY <1>3 DEF SetTarget, Returned, Wake, EndLoop, StopGripper, gripVars
  <2> QED BY <2>1 DEF GripInv
<1> QED BY <1>1, <1>2, <1>3 DEF GripNext, Loop

\* No stroke is commanded twice in a row, nor two within the dwell, for every
\* threshold and dwell.
THEOREM GripperDoesNotChatter == GripSpec => NoChatter
<1>1. GripInv /\ [GripNext]_gripVars => GripInv'
  BY StrokeFits
<1>2. GripInv /\ [GripNext]_gripVars
        => [closed' # closed => since >= Dwell /\ sent' # sent]_gripVars
  BY StrokeFits
<1> QED BY <1>1, <1>2, GripInitial, PTL DEF GripSpec, NoChatter

-----------------------------------------------------------------------------
(* The client of the policy server. *)

\* A request the server accepts now: the next number of a session that is open.
Fits(r) ==
  /\ r \in [id : Opened, number : Int]
  /\ r.number = last[r.id] + 1

ServerInv ==
  /\ Cardinality(Opened) \in Nat
  /\ Opened = 1..Cardinality(Opened)
  /\ last \in [Opened -> Int]
  /\ ~disorder
  /\ \A r \in late : r = ResetCall \/ Fits(r)

\* Between its requests the caller holds the number that the server expects, and no
\* request of its session is still on its way.
InSession ==
  /\ sessionId \in Opened
  /\ \A r \in late : r.id # sessionId
  /\ call = {} => sequence = last[sessionId] + 1
  /\ call # {} => /\ call = {[id |-> sessionId, number |-> last[sessionId] + 1]}
                  /\ sequence = last[sessionId] + 2

CallerInv ==
  /\ caller \in {"idle", "detect", "start", "once", "run"}
  /\ caller = "idle" => call = {}
  /\ caller \in {"detect", "start"} => call = {ResetCall} /\ sequence = 0
  /\ caller \in {"once", "run"} => InSession

ClientInv == ServerInv /\ CallerInv

LEMMA ClientInitial == ClientInit => ClientInv
<1> SUFFICES ASSUME ClientInit PROVE ClientInv
  OBVIOUS
<1>1. Opened = {} /\ Cardinality({}) = 0 /\ {} = 1..0
  BY FS_EmptySet DEF ClientInit, Opened
<1> QED BY <1>1 DEF ClientInit, ClientInv, ServerInv, CallerInv

LEMMA NotReset ==
  ASSUME ServerInv, NEW r, Fits(r)
  PROVE  r # ResetCall
BY DEF ServerInv, Fits, ResetCall

\* A reset opens one more session and disturbs none.
LEMMA ServesReset ==
  ASSUME ServerInv, Serve(ResetCall)
  PROVE  /\ Cardinality(Opened)' = Cardinality(Opened) + 1
         /\ Opened' = 1..(Cardinality(Opened) + 1) /\ Opened \subseteq Opened'
         /\ last' \in [Opened' -> Int]
         /\ last'[Cardinality(Opened) + 1] = -1
         /\ \A s \in Opened : last'[s] = last[s]
         /\ ~disorder'
         /\ \A q : Fits(q) => Fits(q)'
<1> DEFINE n == Cardinality(Opened)
<1>1. n \in Nat /\ Opened = 1..n /\ last \in [Opened -> Int] /\ ~disorder
  BY DEF ServerInv
<1>2. /\ last' = [s \in 1..(n + 1) |-> IF s \in Opened THEN last[s] ELSE -1]
      /\ disorder' = disorder
  BY DEF Serve
<1> HIDE DEF n
<1>3. Opened' = 1..(n + 1)
  BY <1>2 DEF Opened
<1>4. Cardinality(1..(n + 1)) = n + 1
  BY <1>1, FS_Interval
<1>5. /\ last' \in [Opened' -> Int] /\ Opened \subseteq Opened' /\ last'[n + 1] = -1
      /\ \A s \in Opened : last'[s] = last[s]
  BY <1>1, <1>2, <1>3
<1>6. \A q : Fits(q) => Fits(q)'
  BY <1>5 DEF Fits
<1> QED BY <1>1, <1>2, <1>3, <1>4, <1>5, <1>6 DEF n

\* The next number of a session: every other request that fits still does.
LEMMA ServesPredict ==
  ASSUME ServerInv, NEW r, Fits(r), Serve(r)
  PROVE  /\ Opened' = Opened /\ last' \in [Opened -> Int] /\ ~disorder'
         /\ last'[r.id] = r.number
         /\ \A s \in Opened : s # r.id => last'[s] = last[s]
         /\ \A q : Fits(q) /\ q # r => Fits(q)' /\ q.id # r.id
<1>1. r # ResetCall /\ r \in [id : Opened, number : Int] /\ r.number = last[r.id] + 1
  BY NotReset DEF Fits
<1>2. /\ last' = [s \in Opened |-> IF s = r.id THEN r.number ELSE last[s]]
      /\ disorder' = (disorder \/ r.id \notin Opened \/ r.number # last[r.id] + 1)
  BY <1>1 DEF Serve
<1>3. ~disorder'
  BY <1>1, <1>2, Zenon DEF ServerInv
<1>4. Opened' = Opened
  BY <1>2 DEF Opened
<1>5. /\ last' \in [Opened -> Int] /\ last'[r.id] = r.number
      /\ \A s \in Opened : s # r.id => last'[s] = last[s]
  BY <1>1, <1>2 DEF ServerInv
<1>6. ASSUME NEW q, Fits(q), q # r PROVE Fits(q)' /\ q.id # r.id
  <2>1. q \in [id : Opened, number : Int] /\ q.number = last[q.id] + 1
    BY <1>6 DEF Fits
  <2>2. q.id # r.id
    <3>1. q = [id |-> q.id, number |-> q.number] /\ r = [id |-> r.id, number |-> r.number]
      BY <1>1, <2>1
    <3> QED BY <1>1, <1>6, <2>1, <3>1
  <2> QED BY <1>4, <1>5, <2>1, <2>2 DEF Fits
<1> QED BY <1>3, <1>4, <1>5, <1>6

\* What the server gets, whichever request arrives.
LEMMA ServesAny ==
  ASSUME ServerInv, NEW r, r = ResetCall \/ Fits(r), Serve(r), NEW rest,
         \A q \in rest : q # r /\ (q = ResetCall \/ Fits(q)), late' = rest
  PROVE  ServerInv' /\ Opened \subseteq Opened'
<1>1. CASE r = ResetCall
  <2>1. /\ Cardinality(Opened)' \in Nat /\ Opened' = 1..Cardinality(Opened)'
        /\ Opened \subseteq Opened' /\ last' \in [Opened' -> Int] /\ ~disorder'
        /\ \A q : Fits(q) => Fits(q)'
    BY <1>1, ServesReset DEF ServerInv
  <2> QED BY <2>1 DEF ServerInv, ResetCall
<1>2. CASE Fits(r)
  <2>1. /\ Opened' = Opened /\ last' \in [Opened -> Int] /\ ~disorder'
        /\ \A q : Fits(q) /\ q # r => Fits(q)'
    BY <1>2, ServesPredict
  <2>2. Cardinality(Opened)' = Cardinality(Opened)
    BY <2>1
  <2> QED BY <2>1, <2>2 DEF ServerInv, ResetCall
<1> QED BY <1>1, <1>2

\* Every request under way is one the server accepts.
LEMMA CallFits ==
  ASSUME ClientInv, NEW r \in call
  PROVE  /\ r = ResetCall \/ Fits(r)
         /\ caller \in {"once", "run"} => call = {r} /\ Fits(r) /\ r.id = sessionId /\ r \notin late
         /\ caller \in {"detect", "start"} => r = ResetCall
<1>1. caller \in {"detect", "start", "once", "run"}
  BY DEF ClientInv, CallerInv
<1>2. CASE caller \in {"once", "run"}
  <2>1. /\ call = {r} /\ r = [id |-> sessionId, number |-> last[sessionId] + 1]
        /\ sessionId \in Opened /\ \A q \in late : q.id # sessionId
    BY <1>2 DEF ClientInv, CallerInv, InSession
  <2>2. last[sessionId] + 1 \in Int
    BY <2>1 DEF ClientInv, ServerInv
  <2> QED BY <1>2, <2>1, <2>2 DEF Fits
<1> QED BY <1>1, <1>2 DEF ClientInv, CallerInv

LEMMA LateFits ==
  ASSUME ClientInv, NEW r \in late
  PROVE  r = ResetCall \/ Fits(r)
BY DEF ClientInv, ServerInv

\* The steps that leave the server alone and end with no caller.
LEMMA CallerLeaves ==
  ASSUME ClientInv, caller' = "idle", call' = {}, UNCHANGED <<last, disorder>>,
         late' \subseteq late \cup call
  PROVE  ClientInv'
<1>1. Opened' = Opened /\ \A r : Fits(r) => Fits(r)'
  BY DEF Opened, Fits
<1>2. \A r \in late' : r = ResetCall \/ Fits(r)
  BY CallFits, LateFits
<1>3. ServerInv'
  BY <1>1, <1>2 DEF ClientInv, ServerInv, ResetCall
<1> QED BY <1>3 DEF ClientInv, CallerInv

LEMMA ResetKeepsInv ==
  ASSUME ClientInv, NEW route \in {"detect", "start"},
         Reset(route)
  PROVE  ClientInv'
<1>1. /\ UNCHANGED <<last, late, disorder>> /\ caller' = route /\ sequence' = 0
      /\ call' = {ResetCall}
  BY DEF Reset
<1>2. Opened' = Opened /\ \A r : Fits(r) => Fits(r)'
  BY <1>1 DEF Opened, Fits
<1>3. ServerInv'
  BY <1>1, <1>2 DEF ClientInv, ServerInv, ResetCall
<1> QED BY <1>1, <1>3 DEF ClientInv, CallerInv, ResetCall

LEMMA ResetAnsweredKeepsInv == ClientInv /\ ResetAnswered => ClientInv'
<1> SUFFICES ASSUME ClientInv, ResetAnswered PROVE ClientInv'
  OBVIOUS
<1>0. ServerInv
  BY DEF ClientInv
<1>1. /\ Serve(ResetCall) /\ sessionId' = Cardinality(Opened) + 1 /\ late' = late
      /\ caller' \in {"once", "run"} /\ call' = {} /\ sequence' = sequence /\ sequence = 0
  BY DEF ResetAnswered, ClientInv, CallerInv
<1>2. /\ Cardinality(Opened)' \in Nat /\ Opened' = 1..Cardinality(Opened)'
      /\ last' \in [Opened' -> Int] /\ ~disorder'
      /\ last'[sessionId'] = -1 /\ sessionId' \in Opened' /\ sessionId' \notin Opened
      /\ \A q : Fits(q) => Fits(q)'
  BY <1>0, <1>1, ServesReset DEF ServerInv
<1>3. ServerInv'
  BY <1>1, <1>2 DEF ClientInv, ServerInv, ResetCall
<1>4. \A r \in late' : r.id # sessionId'
  <2>1. ASSUME NEW r \in late PROVE r.id # sessionId'
    <3>1. r.id = 0 \/ r.id \in Opened
      BY LateFits DEF ResetCall, Fits
    <3> QED BY <1>1, <1>2, <3>1
  <2> QED BY <1>1, <2>1
<1>5. InSession'
  BY <1>1, <1>2, <1>4 DEF InSession
<1> QED BY <1>1, <1>3, <1>5 DEF ClientInv, CallerInv

LEMMA PredictKeepsInv == ClientInv /\ Predict => ClientInv'
<1> SUFFICES ASSUME ClientInv, Predict PROVE ClientInv'
  OBVIOUS
<1>1. /\ caller \in {"once", "run"} /\ caller' = caller /\ call = {}
      /\ call' = {[id |-> sessionId, number |-> sequence]} /\ sequence' = sequence + 1
      /\ UNCHANGED <<sessionId, late, last, disorder>>
  BY DEF Predict
<1>2. Opened' = Opened /\ \A r : Fits(r) => Fits(r)'
  BY <1>1 DEF Opened, Fits
<1>3. ServerInv'
  BY <1>1, <1>2 DEF ClientInv, ServerInv, ResetCall
<1>4. InSession
  BY <1>1 DEF ClientInv, CallerInv
<1>5. last[sessionId] \in Int
  BY <1>4 DEF ClientInv, ServerInv, InSession
<1>6. InSession'
  <2>1. sequence = last[sessionId] + 1 /\ sequence' = last[sessionId] + 2
    BY <1>1, <1>4, <1>5 DEF InSession
  <2>2. call' = {[id |-> sessionId', number |-> last'[sessionId'] + 1]} /\ call' # {}
    BY <1>1, <2>1
  <2> QED BY <1>1, <1>2, <1>4, <2>1, <2>2 DEF InSession
<1> QED BY <1>1, <1>3, <1>6 DEF ClientInv, CallerInv

LEMMA PredictAnsweredKeepsInv == ClientInv /\ PredictAnswered => ClientInv'
<1> SUFFICES ASSUME ClientInv, PredictAnswered PROVE ClientInv'
  OBVIOUS
<1>1. PICK r \in call : Serve(r)
  BY DEF PredictAnswered
<1>2. /\ caller \in {"once", "run"} /\ call' = {} /\ caller' \in {"idle", "run"}
      /\ UNCHANGED <<sessionId, sequence, late>>
  BY DEF PredictAnswered
<1>3. Fits(r) /\ r.id = sessionId /\ r \notin late
  BY <1>2, CallFits
<1>4. ServerInv
  BY DEF ClientInv
<1>5. ServerInv' /\ Opened \subseteq Opened'
  <2>1. \A q \in late : q # r /\ (q = ResetCall \/ Fits(q))
    BY <1>3, LateFits
  <2> QED BY <1>1, <1>2, <1>3, <1>4, <2>1, ServesAny
<1>6. last'[sessionId] = r.number
  BY <1>1, <1>3, <1>4, ServesPredict
<1>7. InSession /\ r = [id |-> sessionId, number |-> last[sessionId] + 1]
  BY <1>2 DEF ClientInv, CallerInv, InSession
<1>8. sequence = r.number + 1
  <2>1. last[sessionId] \in Int
    BY <1>4, <1>7 DEF ServerInv, InSession
  <2> QED BY <1>7, <2>1 DEF InSession
<1>9. InSession'
  BY <1>2, <1>5, <1>6, <1>7, <1>8 DEF InSession
<1> QED BY <1>2, <1>5, <1>9 DEF ClientInv, CallerInv

LEMMA CallFailsKeepsInv == ClientInv /\ CallFails => ClientInv'
<1> SUFFICES ASSUME ClientInv, CallFails PROVE ClientInv'
  OBVIOUS
<1>1. PICK r \in call : \/ Serve(r) /\ UNCHANGED late
                        \/ UNCHANGED <<last, disorder, late>>
                        \/ late' = late \cup {r} /\ UNCHANGED <<last, disorder>>
  BY DEF CallFails
<1>2. call' = {} /\ caller' = "idle"
  BY DEF CallFails
<1>3. CASE Serve(r) /\ late' = late
  <2>1. ServerInv
    BY DEF ClientInv
  <2>2. CASE r \notin late
    <3>1. ServerInv'
      BY <1>3, <2>1, <2>2, CallFits, LateFits, ServesAny
    <3> QED BY <1>2, <3>1 DEF ClientInv, CallerInv
  <2>3. CASE r \in late
    <3>1. r = ResetCall
      BY <2>3, CallFits DEF ClientInv, CallerInv
    <3>2. /\ Cardinality(Opened)' \in Nat /\ Opened' = 1..Cardinality(Opened)'
          /\ last' \in [Opened' -> Int] /\ ~disorder' /\ \A q : Fits(q) => Fits(q)'
      BY <1>3, <2>1, <3>1, ServesReset DEF ServerInv
    <3>3. ServerInv'
      BY <1>3, <3>2, LateFits DEF ServerInv, ResetCall
    <3> QED BY <1>2, <3>3 DEF ClientInv, CallerInv
  <2> QED BY <2>2, <2>3
<1>4. CASE late' \subseteq late \cup call /\ UNCHANGED <<last, disorder>>
  BY <1>2, <1>4, CallerLeaves
<1> QED BY <1>1, <1>3, <1>4

LEMMA LateKeepsInv == ClientInv /\ LateArrives => ClientInv'
<1> SUFFICES ASSUME ClientInv, LateArrives PROVE ClientInv'
  OBVIOUS
<1>0. ServerInv
  BY DEF ClientInv
<1>1. PICK r \in late : Serve(r) /\ late' = late \ {r}
  BY DEF LateArrives
<1>2. UNCHANGED <<sessionId, sequence, caller, call>>
  BY DEF LateArrives
<1>3. r = ResetCall \/ Fits(r)
  BY LateFits
<1>4. ServerInv' /\ Opened \subseteq Opened'
  BY <1>0, <1>1, <1>3, LateFits, ServesAny
<1>5. ASSUME InSession PROVE InSession'
  <2>1. r.id # sessionId /\ sessionId \in Opened
    BY <1>5 DEF InSession
  <2>2. last'[sessionId] = last[sessionId]
    BY <1>0, <1>1, <1>3, <2>1, ServesReset, ServesPredict
  <2> QED BY <1>1, <1>2, <1>4, <1>5, <2>2 DEF InSession
<1> QED BY <1>2, <1>4, <1>5 DEF ClientInv, CallerInv, ResetCall

LEMMA ClientInductive == ClientInv /\ [ClientNext]_clientVars => ClientInv'
<1> SUFFICES ASSUME ClientInv, [ClientNext]_clientVars PROVE ClientInv'
  OBVIOUS
<1>1. CASE ResetBodyFails \/ PredictBodyFails \/ StopRun
  <2>1. /\ caller' = "idle" /\ call' = {} /\ UNCHANGED <<last, disorder>>
        /\ late' \subseteq late \cup call
    BY <1>1 DEF ResetBodyFails, PredictBodyFails, StopRun, ClientInv, CallerInv
  <2> QED BY <2>1, CallerLeaves
<1>2. CASE UNCHANGED clientVars
  <2>1. UNCHANGED <<sessionId, sequence, caller, call, late, last, disorder>>
    BY <1>2 DEF clientVars
  <2> QED BY <2>1 DEF ClientInv, ServerInv, CallerInv, InSession, Fits, Opened, ResetCall
<1> QED BY <1>1, <1>2, ResetKeepsInv, ResetAnsweredKeepsInv, PredictKeepsInv,
           PredictAnsweredKeepsInv, CallFailsKeepsInv, LateKeepsInv DEF ClientNext

\* Whatever fails or arrives late, the server sees every session's numbers without a
\* gap, for every number of sessions and requests.
THEOREM SessionsInOrder == ClientSpec => []NumbersInOrder
<1>1. ClientInv => NumbersInOrder
  BY DEF ClientInv, ServerInv, NumbersInOrder
<1> QED BY <1>1, ClientInitial, ClientInductive, PTL DEF ClientSpec

-----------------------------------------------------------------------------
(* The cameras. *)

CamTypes ==
  /\ workers \in [Roles -> Workers \cup {None}]
  /\ thread \in [Workers -> {"none", "reading", "asked"}]
  /\ pipeline \in [Roles -> Workers \cup {None}]
  /\ request \in [step : {"idle", "stop", "open", "wait", "made"},
                  then : {"done", "start", "session"}, built : SUBSET (Roles \X Workers)]
  /\ leftover \in SUBSET Workers /\ gaveUp \in BOOLEAN

\* Cameras are opened with an empty map; what has been opened so far holds its device,
\* and nothing else does but what a failed call left behind.
OpenInv ==
  /\ request.step = "open" => Used = {}
  /\ request.step = "open" => \A r \in Roles : pipeline[r] # None =>
       <<r, pipeline[r]>> \in request.built \/ pipeline[r] \in leftover
  /\ request.step # "open" => request.built = {}
  /\ \A r \in Roles, w \in Workers : <<r, w>> \in request.built =>
       pipeline[r] = w /\ w \notin leftover

\* A reader that was not asked to end has its pipeline, ...
ReaderInv ==
  \A w \in Workers : thread[w] = "reading" =>
    /\ w \in Used
    /\ \A r \in Roles : workers[r] = w => pipeline[r] = w

\* ... and a camera left behind has no reader.
LeftInv == Used \cap leftover = {}

HeldInv ==
  \A r \in Roles : pipeline[r] # None =>
    pipeline[r] \in Used \cup leftover \/ <<r, pipeline[r]>> \in request.built

WaitInv == request.step # "wait" => Ready \/ gaveUp

CamInv == CamTypes /\ OpenInv /\ ReaderInv /\ LeftInv /\ HeldInv /\ WaitInv /\ ~collided

USE DEF history

LEMMA CamInitial == CamInit => CamInv
<1> SUFFICES ASSUME CamInit PROVE CamInv
  OBVIOUS
<1>1. Used = {}
  BY DEF CamInit, Used
<1>2. CamTypes
  BY DEF CamInit, CamTypes, NoRequest
<1>3. OpenInv /\ ReaderInv /\ LeftInv /\ HeldInv /\ WaitInv /\ ~collided
  BY <1>1 DEF CamInit, OpenInv, ReaderInv, LeftInv, HeldInv, WaitInv, Ready, NoRequest
<1> QED BY <1>2, <1>3 DEF CamInv

\* The steps of a request that touch neither the cameras nor their workers.
LEMMA RequestMoves ==
  ASSUME CamInv, UNCHANGED <<workers, thread, pipeline, latest, error, leftover, collided>>,
         CamTypes', request.step # "open", request'.step # "open", request'.built = {},
         gaveUp => gaveUp', request.step = "wait" => Ready \/ gaveUp'
  PROVE  CamInv'
<1>1. Used' = Used
  BY DEF Used
<1>2. OpenInv'
  BY <1>1 DEF OpenInv
<1>3. ReaderInv'
  BY <1>1 DEF CamInv, ReaderInv
<1>4. HeldInv' /\ LeftInv'
  BY <1>1 DEF CamInv, HeldInv, LeftInv, OpenInv
<1>5. WaitInv'
  BY <1>1 DEF CamInv, WaitInv, Ready
<1> QED BY <1>2, <1>3, <1>4, <1>5 DEF CamInv

LEMMA RequestsKeepInv ==
  ASSUME CamInv, StartPreview \/ StopPreview \/ MakeSession \/ Disconnect \/ Wait
                   \/ GiveUpWait \/ SessionMade
  PROVE  CamInv'
<1> USE DEF StartPreview, StopPreview, MakeSession, Disconnect, Wait, GiveUpWait, SessionMade
<1>1. UNCHANGED <<workers, thread, pipeline, latest, error, leftover, collided>>
  OBVIOUS
<1>2. /\ request.step \in {"idle", "wait", "made"} /\ request.built = {}
      /\ gaveUp' \in BOOLEAN /\ gaveUp => gaveUp'
      /\ request.step = "wait" => Ready \/ gaveUp'
  <2>1. request.step \in {"idle", "wait", "made"} /\ request.built = {} /\ gaveUp \in BOOLEAN
    BY DEF CamInv, CamTypes, OpenInv
  <2>2. CASE GiveUpWait
    BY <2>1, <2>2
  <2>3. CASE ~GiveUpWait
    <3>1. gaveUp' = gaveUp /\ (request.step = "wait" => Ready)
      BY <2>3
    <3> QED BY <2>1, <3>1
  <2> QED BY <2>2, <2>3
<1>3. /\ request' \in [step : {"idle", "stop", "open", "wait", "made"},
                       then : {"done", "start", "session"}, built : SUBSET (Roles \X Workers)]
      /\ request'.built = {} /\ request'.step # "open"
  <2>1. request \in [step : {"idle", "stop", "open", "wait", "made"},
                     then : {"done", "start", "session"}, built : SUBSET (Roles \X Workers)]
    BY DEF CamInv, CamTypes
  <2>2. CASE StartPreview \/ StopPreview
    BY <1>2, <2>1, <2>2
  <2>3. CASE MakeSession
    BY <1>2, <2>1, <2>3
  <2>4. CASE Disconnect \/ Wait \/ GiveUpWait \/ SessionMade
    BY <1>2, <2>1, <2>4 DEF NoRequest
  <2> QED BY <2>2, <2>3, <2>4
<1>4. CamTypes'
  BY <1>1, <1>2, <1>3 DEF CamInv, CamTypes
<1> QED BY <1>1, <1>2, <1>3, <1>4, RequestMoves

LEMMA ReadKeepsInv ==
  ASSUME CamInv, NEW w \in Workers, Read(w)
  PROVE  CamInv'
<1>1. /\ UNCHANGED <<workers, pipeline, request, leftover, gaveUp, collided>>
      /\ thread' = [thread EXCEPT ![w] = IF @ = "asked" THEN "none" ELSE @]
      /\ Used \cap (latest \cup error) \subseteq latest' \cup error'
  BY DEF Read
<1>2. Used' = Used
  BY <1>1 DEF Used
<1>3. \A v \in Workers : thread'[v] = "reading" => thread[v] = "reading"
  BY <1>1 DEF CamInv, CamTypes
<1>4. CamTypes'
  BY <1>1 DEF CamInv, CamTypes
<1>5. OpenInv' /\ LeftInv' /\ HeldInv'
  BY <1>1, <1>2 DEF CamInv, OpenInv, LeftInv, HeldInv
<1>6. ReaderInv'
  BY <1>1, <1>2, <1>3 DEF CamInv, ReaderInv
<1>7. WaitInv'
  BY <1>1, <1>2 DEF CamInv, WaitInv, Ready
<1> QED BY <1>1, <1>4, <1>5, <1>6, <1>7 DEF CamInv

LEMMA AskKeepsInv == CamInv /\ AskWorker => CamInv'
<1> SUFFICES ASSUME CamInv, AskWorker PROVE CamInv'
  OBVIOUS
<1>1. PICK w \in Used : thread' = [thread EXCEPT ![w] = "asked"]
  BY DEF AskWorker
<1>2. UNCHANGED <<workers, pipeline, latest, error, request, leftover, gaveUp, collided>>
  BY DEF AskWorker
<1>3. Used' = Used /\ Used \subseteq Workers
  BY <1>2 DEF Used, CamInv, CamTypes
<1>4. \A v \in Workers : thread'[v] = "reading" => thread[v] = "reading"
  BY <1>1 DEF CamInv, CamTypes
<1>5. CamTypes'
  BY <1>1, <1>2, <1>3 DEF CamInv, CamTypes
<1>6. OpenInv' /\ LeftInv' /\ HeldInv' /\ WaitInv'
  BY <1>2, <1>3 DEF CamInv, OpenInv, LeftInv, HeldInv, WaitInv, Ready
<1>7. ReaderInv'
  BY <1>2, <1>3, <1>4 DEF CamInv, ReaderInv
<1> QED BY <1>2, <1>5, <1>6, <1>7 DEF CamInv

LEMMA StopCameraKeepsInv == CamInv /\ StopCamera => CamInv'
<1> SUFFICES ASSUME CamInv, StopCamera PROVE CamInv'
  OBVIOUS
<1>1. PICK w \in Used :
        /\ thread[w] # "reading"
        /\ pipeline' = [r \in Roles |-> IF pipeline[r] = w THEN None ELSE pipeline[r]]
  BY DEF StopCamera
<1>2. /\ UNCHANGED <<workers, thread, latest, error, request, leftover, gaveUp, collided>>
      /\ request.step = "stop"
  BY DEF StopCamera
<1>3. Used' = Used
  BY <1>2 DEF Used
<1>4. CamTypes'
  BY <1>1, <1>2 DEF CamInv, CamTypes
<1>5. OpenInv'
  BY <1>2 DEF CamInv, OpenInv
<1>6. LeftInv' /\ HeldInv' /\ WaitInv'
  BY <1>1, <1>2, <1>3 DEF CamInv, LeftInv, HeldInv, WaitInv, Ready
<1>7. ReaderInv'
  BY <1>1, <1>2, <1>3 DEF CamInv, ReaderInv
<1> QED BY <1>2, <1>4, <1>5, <1>6, <1>7 DEF CamInv

LEMMA ForgetKeepsInv == CamInv /\ Forget => CamInv'
<1> SUFFICES ASSUME CamInv, Forget PROVE CamInv'
  OBVIOUS
<1>1. /\ request.step = "stop" /\ \A w \in Used : Held(w) = {}
      /\ workers' = [r \in Roles |-> None]
      /\ request' = NoRequest \/ request' = [request EXCEPT !.step = "open"]
      /\ UNCHANGED <<thread, pipeline, leftover, collided>> /\ gaveUp' = FALSE
  BY DEF Forget
<1>2. Used' = {} /\ request.built = {}
  BY <1>1 DEF Used, CamInv, OpenInv
<1>3. \A r \in Roles : pipeline[r] # None => pipeline[r] \in leftover
  BY <1>1, <1>2 DEF CamInv, HeldInv, Held
<1>4. \A w \in Workers : thread[w] # "reading"
  BY <1>1 DEF CamInv, ReaderInv, Used, Held
<1>5. request'.built = {} /\ CamTypes'
  <2>1. /\ request'.built = {}
        /\ request' \in [step : {"idle", "stop", "open", "wait", "made"},
                         then : {"done", "start", "session"}, built : SUBSET (Roles \X Workers)]
    BY <1>1, <1>2 DEF CamInv, CamTypes, NoRequest
  <2> QED BY <1>1, <2>1 DEF CamInv, CamTypes
<1>6. OpenInv' /\ HeldInv' /\ ReaderInv' /\ LeftInv' /\ WaitInv'
  BY <1>1, <1>2, <1>3, <1>4, <1>5 DEF OpenInv, HeldInv, ReaderInv, LeftInv, WaitInv, Ready
<1> QED BY <1>1, <1>5, <1>6 DEF CamInv

LEMMA OpenKeepsInv == CamInv /\ Open => CamInv'
<1> SUFFICES ASSUME CamInv, Open PROVE CamInv'
  OBVIOUS
<1>1. PICK r \in Unbuilt : pipeline[r] \notin leftover \cup {None} \/ \E w \in Free :
        /\ pipeline[r] = None
        /\ pipeline' = [pipeline EXCEPT ![r] = w]
        /\ request' = [request EXCEPT !.built = @ \cup {<<r, w>>}]
        /\ UNCHANGED collided
  BY DEF Open
<1>2. UNCHANGED <<workers, thread, latest, error, leftover, gaveUp>> /\ request.step = "open"
  BY DEF Open
<1>3. r \in Roles /\ \A w \in Workers : <<r, w>> \notin request.built
  BY <1>1 DEF Unbuilt
<1>4. pipeline[r] \in leftover \cup {None}
  BY <1>2, <1>3 DEF CamInv, CamTypes, OpenInv
<1>5. PICK w \in Workers \ leftover :
        /\ pipeline' = [pipeline EXCEPT ![r] = w]
        /\ request' = [request EXCEPT !.built = @ \cup {<<r, w>>}]
        /\ UNCHANGED collided
  BY <1>1, <1>4 DEF Free
<1>6. Used = {} /\ Used' = Used
  BY <1>2 DEF CamInv, OpenInv, Used
<1>7. CamTypes' /\ request'.step = "open" /\ request'.built = request.built \cup {<<r, w>>}
  BY <1>2, <1>3, <1>5 DEF CamInv, CamTypes
<1>8. \A s \in Roles : pipeline'[s] = IF s = r THEN w ELSE pipeline[s]
  BY <1>3, <1>5 DEF CamInv, CamTypes
<1>9. OpenInv'
  BY <1>2, <1>3, <1>5, <1>6, <1>7, <1>8 DEF CamInv, OpenInv
<1>10. HeldInv'
  BY <1>2, <1>7, <1>9 DEF HeldInv, OpenInv
<1>11. ReaderInv' /\ LeftInv' /\ WaitInv'
  BY <1>2, <1>6 DEF CamInv, ReaderInv, LeftInv, WaitInv, Ready
<1> QED BY <1>5, <1>7, <1>9, <1>10, <1>11 DEF CamInv

LEMMA OpenFailsKeepsInv == CamInv /\ OpenFails => CamInv'
<1> SUFFICES ASSUME CamInv, OpenFails PROVE CamInv'
  OBVIOUS
<1>1. /\ request.step = "open" /\ request' = NoRequest
      /\ leftover' = leftover \cup {b[2] : b \in request.built}
      /\ UNCHANGED <<workers, thread, pipeline, latest, error, gaveUp, collided>>
  BY DEF OpenFails
<1>2. Used = {} /\ Used' = {}
  BY <1>1 DEF CamInv, OpenInv, Used
<1>3. ASSUME NEW r \in Roles, pipeline[r] # None PROVE pipeline[r] \in leftover'
  <2>1. CASE <<r, pipeline[r]>> \in request.built
    <3>1. <<r, pipeline[r]>>[2] \in {b[2] : b \in request.built}
      BY <2>1
    <3> QED BY <1>1, <3>1
  <2> QED BY <1>1, <1>3, <2>1 DEF CamInv, OpenInv
<1>4. CamTypes'
  BY <1>1 DEF CamInv, CamTypes, NoRequest
<1>5. OpenInv' /\ HeldInv' /\ ReaderInv' /\ LeftInv' /\ WaitInv'
  BY <1>1, <1>2, <1>3
     DEF CamInv, OpenInv, HeldInv, ReaderInv, LeftInv, WaitInv, Ready, NoRequest
<1> QED BY <1>1, <1>4, <1>5 DEF CamInv

LEMMA CollectKeepsInv == CamInv /\ Collect => CamInv'
<1> SUFFICES ASSUME CamInv, Collect PROVE CamInv'
  OBVIOUS
<1>1. PICK w \in leftover :
        /\ leftover' = leftover \ {w}
        /\ pipeline' = [r \in Roles |-> IF pipeline[r] = w THEN None ELSE pipeline[r]]
        /\ UNCHANGED <<workers, thread, latest, error, request, gaveUp, collided>>
  BY DEF Collect
<1>2. Used' = Used /\ w \notin Used
  BY <1>1 DEF CamInv, LeftInv, Used
<1>3. CamTypes'
  BY <1>1 DEF CamInv, CamTypes
<1>4. OpenInv'
  <2>1. \A r \in Roles : pipeline'[r] # None => pipeline'[r] = pipeline[r] /\ pipeline[r] # w
    BY <1>1
  <2>2. \A r \in Roles, x \in Workers : <<r, x>> \in request.built => x # w /\ pipeline[r] = x
    BY DEF CamInv, OpenInv
  <2> QED BY <1>1, <1>2, <2>1, <2>2 DEF CamInv, OpenInv
<1>5. HeldInv' /\ LeftInv'
  BY <1>1, <1>2 DEF CamInv, HeldInv, LeftInv
<1>6. ReaderInv' /\ WaitInv'
  BY <1>1, <1>2 DEF CamInv, ReaderInv, WaitInv, Ready
<1> QED BY <1>1, <1>3, <1>4, <1>5, <1>6 DEF CamInv

LEMMA AssignKeepsInv == CamInv /\ Assign => CamInv'
<1> SUFFICES ASSUME CamInv, Assign PROVE CamInv'
  OBVIOUS
<1> DEFINE new == {b[2] : b \in request.built}
<1>1. /\ request.step = "open" /\ Unbuilt = {}
      /\ workers' = [r \in Roles |-> CHOOSE w \in Workers : <<r, w>> \in request.built]
      /\ thread' = [w \in Workers |-> IF w \in new THEN "reading" ELSE thread[w]]
      /\ request' = [request EXCEPT !.step = "wait", !.built = {}]
      /\ UNCHANGED <<pipeline, latest, error, leftover, gaveUp, collided>>
  BY DEF Assign
<1>2. ASSUME NEW r \in Roles
      PROVE  workers'[r] \in Workers /\ <<r, workers'[r]>> \in request.built
             /\ workers'[r] = pipeline[r] /\ workers'[r] \notin leftover
  <2>1. PICK b \in request.built : b[1] = r
    BY <1>1 DEF Unbuilt
  <2>2. b \in Roles \X Workers
    BY DEF CamInv, CamTypes
  <2>3. b[2] \in Workers /\ <<r, b[2]>> \in request.built
    BY <2>1, <2>2
  <2> QED BY <1>1, <2>3 DEF CamInv, OpenInv
<1>3. Used' = {pipeline[r] : r \in Roles}
  BY <1>2, WorkerAssumption DEF Used
<1>4. \A w \in Workers : thread'[w] = "reading" => \E r \in Roles : pipeline[r] = w
  <2>1. ASSUME NEW w \in Workers, thread'[w] = "reading" PROVE w \in new
    BY <1>1, <2>1 DEF CamInv, ReaderInv, OpenInv
  <2>2. ASSUME NEW w \in new PROVE \E r \in Roles : pipeline[r] = w
    BY DEF CamInv, CamTypes, OpenInv
  <2> QED BY <2>1, <2>2
<1>5. /\ request'.step = "wait" /\ request'.built = {} /\ CamTypes'
  <2>1. request' \in [step : {"idle", "stop", "open", "wait", "made"},
                      then : {"done", "start", "session"}, built : SUBSET (Roles \X Workers)]
        /\ request'.step = "wait" /\ request'.built = {}
    BY <1>1 DEF CamInv, CamTypes
  <2>2. workers' \in [Roles -> Workers \cup {None}]
    BY <1>1, <1>2
  <2> QED BY <1>1, <2>1, <2>2 DEF CamInv, CamTypes
<1>6. OpenInv' /\ WaitInv'
  BY <1>5 DEF OpenInv, WaitInv
<1>7. ReaderInv'
  <2>1. ASSUME NEW w \in Workers, thread'[w] = "reading" PROVE w \in Used'
    BY <1>3, <1>4, <2>1
  <2>2. \A r \in Roles : workers'[r] = pipeline'[r]
    BY <1>1, <1>2
  <2> QED BY <2>1, <2>2 DEF ReaderInv
<1>8. HeldInv'
  BY <1>1, <1>3 DEF HeldInv
<1>9. LeftInv'
  BY <1>1, <1>2, <1>3 DEF LeftInv
<1> QED BY <1>1, <1>5, <1>6, <1>7, <1>8, <1>9 DEF CamInv

LEMMA CamInductive == CamInv /\ [CamNext]_camVars => CamInv'
<1> SUFFICES ASSUME CamInv, [CamNext]_camVars PROVE CamInv'
  OBVIOUS
<1>1. CASE UNCHANGED camVars
  <2>1. UNCHANGED <<workers, thread, pipeline, latest, error, request, leftover, history>>
    BY <1>1 DEF camVars
  <2>2. Used' = Used
    BY <2>1 DEF Used
  <2>3. CamTypes' /\ ~collided'
    BY <2>1 DEF CamInv, CamTypes
  <2>4. OpenInv' /\ HeldInv' /\ ReaderInv' /\ LeftInv'
    BY <2>1, <2>2 DEF CamInv, OpenInv, HeldInv, ReaderInv, LeftInv
  <2>5. WaitInv'
    BY <2>1, <2>2 DEF CamInv, WaitInv, Ready
  <2> QED BY <2>3, <2>4, <2>5 DEF CamInv
<1> QED BY <1>1, RequestsKeepInv, ReadKeepsInv, AskKeepsInv, StopCameraKeepsInv,
           ForgetKeepsInv, OpenKeepsInv, OpenFailsKeepsInv, CollectKeepsInv, AssignKeepsInv
        DEF CamNext, Manage

\* No device is opened while the map holds it and no reader or pipeline is lost, for
\* every number of cameras and workers, and however long failed calls' cameras stay open.
THEOREM NoCameraLost == CamSpec => []CamerasAccounted
<1>1. CamInv => CamerasAccounted
  BY DEF CamInv, ReaderInv, LeftInv, HeldInv, CamerasAccounted
<1> QED BY <1>1, CamInitial, CamInductive, PTL DEF CamSpec

\* When no call is under way, every camera has its first frame or its error, unless the
\* call that started them gave up waiting.
THEOREM FirstFramesAreThere == CamSpec => []ReadyWhenIdle
<1>1. CamInv => ReadyWhenIdle
  BY DEF CamInv, WaitInv, ReadyWhenIdle
<1> QED BY <1>1, CamInitial, CamInductive, PTL DEF CamSpec

=============================================================================
