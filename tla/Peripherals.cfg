\* Three sessions of up to three numbers; the default thresholds of the gripper; two
\* cameras and two more workers for those that outlive a stop; a configuration of
\* three parts that may all be invalid.
SPECIFICATION Spec
CONSTANTS
  None = None
  MaxSessions = 3
  MaxNumber = 3
  Triggers <- MCTriggers
  CloseAt = 60
  OpenAt = 20
  Dwell = 3
  Roles = {agentview, eye_in_hand}
  Workers = {w1, w2, w3, w4}
  One = One
  Parts <- MCParts
  Converted = {"cameras", "request_spec", "loop"}
  Users = {One}
  Versions = {0, 1}
INVARIANTS
  NumbersInOrder
  CamerasAccounted
  ReadyWhenIdle
  SessionConfigFrozen
PROPERTIES
  NoChatter
  TriggerObeyed
  ReadersEnd
CHECK_DEADLOCK FALSE
