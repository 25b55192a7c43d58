SPECIFICATION Spec
CONSTANTS
  N = 2
  attempt_respawn_reconnection_ = FALSE
INVARIANT AllBroughtDown
CHECK_DEADLOCK FALSE
