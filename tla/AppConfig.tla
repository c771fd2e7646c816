------------------------------ MODULE AppConfig ------------------------------
(***************************************************************************)
(* The app's configuration: set part by part by POST /api/config when no   *)
(* session exists, saved to a file that is written in place, read back at  *)
(* the start of the app, and copied into a session when one is made        *)
(* (_ensure_loop), but for the cameras: a session reads those that the     *)
(* camera manager runs, which the preview routes start and stop as well.   *)
(* A part is one field of the request's body; only its version and whether *)
(* it can be converted matter.                                             *)
(***************************************************************************)
EXTENDS Integers, Sequences, FiniteSetsExt, SequencesExt

CONSTANTS
  Parts,      \* the parts of a configuration, in the order they are assigned
  Converted,  \* those whose conversion may fail (cameras, request_spec, loop)
  Users,      \* server threads
  Versions    \* values of a part; 0 is its default: no cameras, no request_spec

ASSUME PartsAssumption ==
  /\ Converted \subseteq ToSet(Parts) /\ {"cameras", "request_spec"} \subseteq ToSet(Parts)
  /\ 0 \in Versions

VARIABLES
  config,      \* AppConfig: the version of every part
  serving,     \* the app runs
  configFile,  \* config.json: {} if absent, {a configuration}, or {Broken}
  loop,        \* AppState.loop: {} or {its session: the parts it was given, and the
               \* cameras that ran already when it was made}
  streams,     \* camera_manager: {} or {the version of the cameras that run}
  post         \* per thread: its /api/config request

configVars == <<config, serving, configFile, loop, streams, post>>

Invalid == -1
Broken == [p \in ToSet(Parts) |-> Invalid]
Defaults == [p \in ToSet(Parts) |-> 0]
NoPost == [step |-> "idle"]

Bodies ==
  UNION {{b \in [ps -> Versions \cup {Invalid}] : \A p \in ps \ Converted : b[p] # Invalid} :
           ps \in SUBSET ToSet(Parts)}

\* What ControlLoop() is given of a configuration.
Given(c) == [p \in ToSet(Parts) \ {"cameras"} |-> c[p]]

-----------------------------------------------------------------------------
ConfigInit ==
  /\ config = Defaults
  /\ serving = TRUE
  /\ configFile = {}
  /\ loop = {} /\ streams = {}
  /\ post = [u \in Users |-> NoPost]

\* Slip: a running session is not refused.
SetConfigAlways(u) ==
  /\ serving /\ post[u].step = "idle"
  /\ \E body \in Bodies : post' = [post EXCEPT ![u] = [step |-> "assign", at |-> 1, body |-> body]]
  /\ UNCHANGED <<config, serving, configFile, loop, streams>>

\* set_config() is refused (409) as long as there is a session.
SetConfig(u) ==
  /\ serving /\ post[u].step = "idle" /\ loop = {}
  /\ \E body \in Bodies : post' = [post EXCEPT ![u] = [step |-> "assign", at |-> 1, body |-> body]]
  /\ UNCHANGED <<config, serving, configFile, loop, streams>>

\* The next part of the body, unless that is a request_spec of None; one that cannot be
\* converted ends the request, and what was assigned before stays, unsaved.
AssignPart(u) ==
  /\ post[u].step = "assign"
  /\ LET part == Parts[post[u].at]
         body == post[u].body
         given == part \in DOMAIN body /\ ~(part = "request_spec" /\ body[part] = 0)
         next == IF post[u].at = Len(Parts) THEN [step |-> "dump"]
                   ELSE [post[u] EXCEPT !.at = @ + 1]
     IN  IF given /\ body[part] = Invalid
           THEN post' = [post EXCEPT ![u] = NoPost] /\ UNCHANGED config
           ELSE /\ post' = [post EXCEPT ![u] = next]
                /\ config' = IF given THEN [config EXCEPT ![part] = body[part]] ELSE config
  /\ UNCHANGED <<serving, configFile, loop, streams>>

\* save_config()
DumpConfig(u) ==
  /\ post[u].step = "dump"
  /\ post' = [post EXCEPT ![u] = [step |-> "write", data |-> config]]
  /\ configFile' = {Broken}
  /\ UNCHANGED <<config, serving, loop, streams>>

WriteConfig(u) ==
  /\ post[u].step = "write"
  /\ configFile' = {post[u].data}
  /\ post' = [post EXCEPT ![u] = NoPost]
  /\ UNCHANGED <<config, serving, loop, streams>>

\* The outcomes of camera_manager.start(): what ran is stopped first, and the cameras
\* configured now may fail to open.
Restarted == {{config["cameras"]}, {}}

\* /api/cameras/start, during a session too, ...
StartStreams(u) ==
  /\ serving /\ post[u].step = "idle" /\ config["cameras"] # 0
  /\ streams' \in Restarted
  /\ UNCHANGED <<config, serving, configFile, loop, post>>

\* ... and /api/cameras/stop, which a session refuses (409).
StopStreams(u) ==
  /\ serving /\ post[u].step = "idle" /\ loop = {}
  /\ streams' = {}
  /\ UNCHANGED <<config, serving, configFile, loop, post>>

\* _ensure_loop(): the routes of a session make one from the configuration. Cameras that
\* run already are kept, those of an earlier configuration too; if none runs, those
\* configured are started, and without them no session is made.
EnsureLoop(u) ==
  /\ serving /\ post[u].step = "idle" /\ loop = {} /\ config["request_spec"] # 0
  /\ streams' \in IF streams = {} /\ config["cameras"] # 0 THEN Restarted ELSE {streams}
  /\ loop' = IF streams' = {} /\ config["cameras"] # 0 THEN {}
               ELSE {[given |-> Given(config), kept |-> streams]}
  /\ UNCHANGED <<config, serving, configFile, post>>

\* disconnect(): the cameras go on.
DropLoop(u) ==
  /\ serving /\ post[u].step = "idle"
  /\ loop' = {}
  /\ UNCHANGED <<config, serving, configFile, streams, post>>

Kill ==
  /\ serving
  /\ serving' = FALSE
  /\ loop' = {} /\ streams' = {}
  /\ post' = [u \in Users |-> NoPost]
  /\ UNCHANGED <<config, configFile>>

\* AppState(): load_config_into() the defaults.
LoadConfig ==
  /\ ~serving /\ configFile # {Broken}
  /\ serving' = TRUE
  /\ config' = IF configFile = {} THEN Defaults ELSE CHOOSE c \in configFile : TRUE
  /\ UNCHANGED <<configFile, loop, streams, post>>

ConfigRoutes(u) ==
  \/ SetConfig(u) \/ AssignPart(u) \/ DumpConfig(u) \/ WriteConfig(u)
  \/ StartStreams(u) \/ StopStreams(u) \/ EnsureLoop(u) \/ DropLoop(u)

ConfigNext == (\E u \in Users : ConfigRoutes(u)) \/ Kill \/ LoadConfig

ConfigSpec == ConfigInit /\ [][ConfigNext]_configVars

-----------------------------------------------------------------------------
\* What GET /api/config shows is what the session runs with, from the request that
\* made the session to its end: neither a refused configuration nor one whose parts
\* failed half way changes it (requests of one operator, one at a time). Its cameras are
\* those shown, or those that ran before it, whatever the configuration was then.
SessionConfigFrozen ==
  \A l \in loop : l.given = Given(config) /\ streams \subseteq {config["cameras"]} \cup l.kept

=============================================================================
