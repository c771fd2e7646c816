\* One operator, sequential requests in the documented order, policy requests
\* shorter than the join of stop().
SPECIFICATION FairSpec
CONSTANTS
  None = None
  Requests = {"connect_ro", "detect", "confirm", "start", "stop", "estop", "disconnect"}
  Handlers = {h1}
  Loops = {l1, l2}
  Threads = {t1, t2}
  JoinMayTimeOut = FALSE
  FollowsGuide = TRUE
INVARIANTS
  TypeOK
  SingleCommander
  MotionMeansRunning
  CommanderIsLive
  EstopSilences
  ErrorStaysVisible
PROPERTY RequestsAnswered
CHECK_DEADLOCK FALSE
