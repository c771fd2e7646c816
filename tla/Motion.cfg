\* One joint with limits +-8, margin 2; a filter with critical damping; two joints
\* under a watchdog of three samples and two windows; answers of 4 to 11 columns; a
\* fence of up to three points on two corners, two margins, three unsaved changes.
SPECIFICATION Spec
CONSTANTS
  Chunks <- MCChunks
  Postures <- MCPostures
  Joints = {j1, j2}
  Window = 3
  TripCount = 2
  Lower <- MCLower
  Upper = 8
  Margin = 2
  MaxStep = 12
  VMax = 3
  AMax = 2
  JMax = 1
  KpInv = 4
  Kinds = {"joint_absolute", "joint_delta", "ee_absolute"}
  Rows <- MCRows
  Lag = 1
  One = One
  Two = Two
  Handlers = {One, Two}
  Corners = {0, 4}
  Margins = {0, 1}
  DefaultMargin = 1
  Places = {0, 2, 4}
  MaxPoints = 3
  MaxUnsaved = 3
INVARIANTS
  ProposalSound
  OscillationCaught
  TripNeedsReversal
  WithinLimits
  FenceHonoured
PROPERTIES
  SmoothCommand
  RestartKeepsFence
CHECK_DEADLOCK FALSE
