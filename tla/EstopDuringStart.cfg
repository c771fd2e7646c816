\* E-STOP pressed while start() is on its way.
SPECIFICATION HSpec
CONSTANTS
  None = None
  Requests = {"connect_ro", "detect", "confirm", "start", "stop", "estop"}
  Handlers = {h1, h2}
  Loops = {l1}
  Threads = {t1}
  JoinMayTimeOut = FALSE
  FollowsGuide = TRUE
INVARIANT EstopCancelsStart
CHECK_DEADLOCK FALSE
