------------------------------- MODULE Cameras -------------------------------
(***************************************************************************)
(* cameras/manager.py: one background reader per camera, started and       *)
(* stopped by the preview routes and by the first session                  *)
(* (api/routes_cameras.py, _ensure_loop of api/routes_control.py). A       *)
(* device is opened by one pipeline at a time, ours or another program's.  *)
(* Every role has a device of its own. Requests come one at a time. A      *)
(* worker stands for its camera object too, before it has a thread.        *)
(***************************************************************************)
EXTENDS Integers

CONSTANTS
  Roles,    \* camera roles configured
  Workers,  \* _CameraWorker objects, with the camera and the thread of each
  None

ASSUME WorkerAssumption == Workers # {} /\ None \notin Workers

VARIABLES
  workers,   \* _workers: role -> worker or None
  thread,    \* per worker: "none", "reading", or "asked" to end (_stop_evt is set)
  pipeline,  \* per role: the worker whose pipeline holds the device, or None
  latest,    \* workers that have a frame
  error,     \* workers whose last read failed
  request,   \* the manager's call under way
  session,   \* APP_STATE.loop exists
  leftover,  \* cameras opened by a call that failed later, not yet collected
  gaveUp,    \* history: the wait for the first frames of this map was given up
  collided   \* history: a device was opened while a worker of the map still held it

camVars ==
  <<workers, thread, pipeline, latest, error, request, session, leftover, gaveUp, collided>>

history == <<gaveUp, collided>>

NoRequest == [step |-> "idle", then |-> "done", built |-> {}]
Used == {workers[r] : r \in Roles} \ {None}
Held(w) == {r \in Roles : pipeline[r] = w}

-----------------------------------------------------------------------------
CamInit ==
  /\ workers = [r \in Roles |-> None]
  /\ thread = [w \in Workers |-> "none"]
  /\ pipeline = [r \in Roles |-> None]
  /\ latest = {} /\ error = {}
  /\ request = NoRequest
  /\ session = FALSE
  /\ leftover = {}
  /\ gaveUp = FALSE /\ collided = FALSE

\* Slip: a reader that fails to read does not look at its event again.
ReadOn(w) ==
  /\ thread[w] \in {"reading", "asked"}
  /\ \/ /\ Held(w) # {} /\ latest' = (latest \cup {w}) \cap Used /\ error' = error \ {w}
        /\ thread' = [thread EXCEPT ![w] = IF @ = "asked" THEN "none" ELSE @]
     \/ error' = (error \cup {w}) \cap Used /\ UNCHANGED <<latest, thread>>
  /\ UNCHANGED <<workers, pipeline, request, session, leftover, history>>

\* One turn of _loop(): a frame, or an error that is kept until the next frame. A
\* pipeline that is stopped makes the read fail; wait_for_frames() has a timeout. What
\* a worker that left the map reads is seen by nobody.
Read(w) ==
  /\ thread[w] \in {"reading", "asked"}
  /\ \/ Held(w) # {} /\ latest' = (latest \cup {w}) \cap Used /\ error' = error \ {w}
     \/ error' = (error \cup {w}) \cap Used /\ UNCHANGED latest
  /\ thread' = [thread EXCEPT ![w] = IF @ = "asked" THEN "none" ELSE @]
  /\ UNCHANGED <<workers, pipeline, request, session, leftover, history>>

\* Slip: the cameras are opened before the old ones are stopped, as they once were.
StartPreviewEarly ==
  /\ request.step = "idle"
  /\ request' = [request EXCEPT !.step = "open", !.then = "start"]
  /\ UNCHANGED <<workers, thread, pipeline, latest, error, session, leftover, history>>

\* POST /api/cameras/start, at any time, a running session included.
StartPreview ==
  /\ request.step = "idle"
  /\ request' = [request EXCEPT !.step = "stop", !.then = "start"]
  /\ UNCHANGED <<workers, thread, pipeline, latest, error, session, leftover, history>>

\* POST /api/cameras/stop is refused (409) while there is a session.
StopPreview ==
  /\ request.step = "idle" /\ ~session
  /\ request' = [request EXCEPT !.step = "stop", !.then = "done"]
  /\ UNCHANGED <<workers, thread, pipeline, latest, error, session, leftover, history>>

\* _ensure_loop() starts the cameras unless the preview has.
MakeSession ==
  /\ request.step = "idle" /\ ~session
  /\ IF Used = {} THEN request' = [request EXCEPT !.step = "stop", !.then = "session"]
                       /\ UNCHANGED session
       ELSE session' = TRUE /\ UNCHANGED request
  /\ UNCHANGED <<workers, thread, pipeline, latest, error, leftover, history>>

Disconnect ==
  /\ request.step = "idle" /\ session
  /\ session' = FALSE
  /\ UNCHANGED <<workers, thread, pipeline, latest, error, request, leftover, history>>

\* CameraManager.stop(): every worker in turn is asked to end, ...
AskWorker ==
  /\ request.step = "stop"
  /\ \E w \in Used :
       /\ thread[w] = "reading"
       /\ \A v \in Used : thread[v] # "reading" => Held(v) = {}
       /\ thread' = [thread EXCEPT ![w] = "asked"]
  /\ UNCHANGED <<workers, pipeline, latest, error, request, session, leftover, history>>

\* ... joined for at most two seconds, and its pipeline is stopped either way.
StopCamera ==
  /\ request.step = "stop"
  /\ \E w \in Used :
       /\ thread[w] # "reading" /\ Held(w) # {}
       /\ pipeline' = [r \in Roles |-> IF pipeline[r] = w THEN None ELSE pipeline[r]]
  /\ UNCHANGED <<workers, thread, latest, error, request, session, leftover, history>>

Forget ==
  /\ request.step = "stop" /\ \A w \in Used : Held(w) = {}
  /\ workers' = [r \in Roles |-> None]
  /\ latest' = {} /\ error' = {} /\ gaveUp' = FALSE
  /\ request' = IF request.then = "done" THEN NoRequest ELSE [request EXCEPT !.step = "open"]
  /\ UNCHANGED <<thread, pipeline, session, leftover, collided>>

Free == {w \in Workers : thread[w] = "none" /\ Held(w) = {} /\ w \notin Used \cup leftover}

\* The cameras build_cameras() has yet to open.
Unbuilt == Roles \ {b[1] : b \in request.built}

\* build_cameras(): RealSenseCamera() opens the device, with retries as long as what a
\* failed call left behind holds it.
Open ==
  /\ request.step = "open"
  /\ \E r \in Unbuilt :
       \/ /\ pipeline[r] \notin leftover \cup {None}
          /\ collided' = TRUE
          /\ UNCHANGED <<pipeline, request>>
       \/ /\ pipeline[r] = None /\ Free # {}
          /\ LET w == CHOOSE v \in Free : TRUE
             IN  /\ pipeline' = [pipeline EXCEPT ![r] = w]
                 /\ request' = [request EXCEPT !.built = @ \cup {<<r, w>>}]
          /\ UNCHANGED collided
  /\ UNCHANGED <<workers, thread, latest, error, session, leftover, gaveUp>>

\* All retries fail (another program, or a leftover, holds the device): the request
\* fails, and no session is made. Nothing stops the cameras opened before: the frames of
\* the exception and its cause refer to them, and to each other.
OpenFails ==
  /\ request.step = "open"
  /\ Unbuilt # {}
  /\ leftover' = leftover \cup {b[2] : b \in request.built}
  /\ request' = NoRequest
  /\ UNCHANGED <<workers, thread, pipeline, latest, error, session, history>>

\* The garbage collector finds such a camera, and its pipeline closes. When it looks for
\* one is not up to this program.
Collect ==
  \E w \in leftover :
    /\ leftover' = leftover \ {w}
    /\ pipeline' = [r \in Roles |-> IF pipeline[r] = w THEN None ELSE pipeline[r]]
    /\ UNCHANGED <<workers, thread, latest, error, request, session, history>>

\* A worker with its thread for every camera.
Assign ==
  /\ request.step = "open"
  /\ Unbuilt = {}
  /\ workers' = [r \in Roles |-> CHOOSE w \in Workers : <<r, w>> \in request.built]
  /\ LET new == {b[2] : b \in request.built} IN
       thread' = [w \in Workers |-> IF w \in new THEN "reading" ELSE thread[w]]
  /\ request' = [request EXCEPT !.step = "wait", !.built = {}]
  /\ UNCHANGED <<pipeline, latest, error, session, leftover, history>>

Ready == Used \subseteq latest \cup error

\* Slip: the request does not wait for the first frames.
WaitNot ==
  /\ request.step = "wait"
  /\ request' = [NoRequest EXCEPT !.step = IF request.then = "session" THEN "made" ELSE "idle"]
  /\ UNCHANGED <<workers, thread, pipeline, latest, error, session, leftover, history>>

\* start() waits until every worker has a frame or an error, ...
Wait ==
  /\ request.step = "wait" /\ Ready
  /\ request' = [NoRequest EXCEPT !.step = IF request.then = "session" THEN "made" ELSE "idle"]
  /\ UNCHANGED <<workers, thread, pipeline, latest, error, session, leftover, history>>

\* ... for five seconds, after which it returns without saying so; a first read may take
\* as long.
GiveUpWait ==
  /\ request.step = "wait" /\ ~Ready
  /\ request' = [NoRequest EXCEPT !.step = IF request.then = "session" THEN "made" ELSE "idle"]
  /\ gaveUp' = TRUE
  /\ UNCHANGED <<workers, thread, pipeline, latest, error, session, leftover, collided>>

SessionMade ==
  /\ request.step = "made"
  /\ session' = TRUE
  /\ request' = NoRequest
  /\ UNCHANGED <<workers, thread, pipeline, latest, error, leftover, history>>

Manage ==
  \/ AskWorker \/ StopCamera \/ Forget \/ Open \/ OpenFails \/ Assign
  \/ Wait \/ GiveUpWait \/ SessionMade

CamNext ==
  \/ StartPreview \/ StopPreview \/ MakeSession \/ Disconnect
  \/ Manage \/ Collect
  \/ \E w \in Workers : Read(w)

CamSpec == CamInit /\ [][CamNext]_camVars

-----------------------------------------------------------------------------
\* A device is never opened while a worker of the map holds it (manager.py: opening
\* before the old pipeline was released "was a real, observed bug"), and no reader or
\* pipeline is lost: each belongs to the map, to the call under way, or to a call that
\* failed, whose cameras no worker ever reads. Two overlapping calls could lose one.
CamerasAccounted ==
  /\ ~collided
  /\ \A w \in Workers : thread[w] = "reading" => w \in Used \ leftover
  /\ \A r \in Roles : pipeline[r] # None =>
       pipeline[r] \in Used \cup leftover \/ <<r, pipeline[r]>> \in request.built

\* While a camera is in the map and no call is under way, its first frame or its error
\* is there, unless the wait for it was given up: but for that, the first observation of
\* a session never finds "no frame yet".
ReadyWhenIdle == request.step = "idle" => Ready \/ gaveUp

\* A reader that is asked to end does, also when stop() gave up joining it, every call
\* of the manager returns, and a camera whose wait was given up has its first frame or
\* its error in the end, unless it is stopped before.
ReadersEnd ==
  /\ \A w \in Workers : (thread[w] = "asked") ~> (thread[w] = "none")
  /\ (request.step # "idle") ~> (request.step = "idle")
  /\ gaveUp ~> (Ready \/ ~gaveUp)

=============================================================================
