\* Two threads, one of which connects; up to three calls in progress, late ones included.
SPECIFICATION FairSpec
CONSTANTS
  None = None
  Callers = {c1, c2}
  Connectors = {c1}
  Calls = {k1, k2, k3}
INVARIANTS
  TypeOK
  OwnReply
  CacheIsTrue
PROPERTIES
  ClientRecovers
  KeepsCallContract
CHECK_DEADLOCK FALSE
