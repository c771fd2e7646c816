\* Two server threads, requests in any order, policy requests of any length; the
\* second session is for the race of two requests that find none.
SPECIFICATION StormSpec
CONSTANTS
  None = None
  Requests = {"connect_ro", "connect_live", "detect", "confirm", "start", "stop", "estop", "disconnect"}
  Handlers = {h1, h2}
  Loops = {l1, l2}
  Threads = {t1}
  JoinMayTimeOut = TRUE
  FollowsGuide = FALSE
INVARIANTS
  NoMotionBeforeConfirm
  NeverStrandedDetecting
CHECK_DEADLOCK FALSE
SYMMETRY Symmetry
