\* Start pressed after an E-STOP.
SPECIFICATION Spec
CONSTANTS
  None = None
  Requests = {"connect_ro", "detect", "confirm", "start", "stop", "estop"}
  Handlers = {h1}
  Loops = {l1}
  Threads = {t1, t2}
  JoinMayTimeOut = FALSE
  FollowsGuide = TRUE
INVARIANT CommandsReachRobot
CHECK_DEADLOCK FALSE
