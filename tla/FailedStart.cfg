\* A policy thread that fails before start() has set its state.
SPECIFICATION Spec
CONSTANTS
  None = None
  Requests = {"connect_ro", "detect", "confirm", "start", "stop", "estop"}
  Handlers = {h1}
  Loops = {l1}
  Threads = {t1, t2}
  JoinMayTimeOut = FALSE
  FollowsGuide = TRUE
INVARIANT RunningIsAlive
CHECK_DEADLOCK FALSE
