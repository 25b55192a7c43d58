SPECIFICATION Spec
CONSTANTS
  Counts = {0, 1}
  LateReplies = TRUE
  MaxQueue = 2
  UnsignedModulus = 16
INVARIANT PositionFresh
