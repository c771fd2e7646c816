\* Two runtime objects: the current one, and the one being made or a hung one.
SPECIFICATION FairSpec
CONSTANTS
  Runtimes = {r1, r2}
  None = None
  TopSpeed = 4
INVARIANTS
  TypeOK
  OneMotion
  QuietWhenStopped
  FinishedSlow
  StopsUnderControl
PROPERTY KeepsContract
CHECK_DEADLOCK FALSE
