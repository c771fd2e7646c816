\* A tick that outlasts the join of stop(): it waits for the policy server.
SPECIFICATION FairSpec
CONSTANTS
  None = None
  Requests = {"connect_ro", "detect", "confirm", "start", "stop", "estop"}
  Handlers = {h1}
  Loops = {l1}
  Threads = {t1, t2}
  JoinMayTimeOut = TRUE
  FollowsGuide = TRUE
PROPERTY NoTargetAfterStop
CHECK_DEADLOCK FALSE
