SPECIFICATION FairSpec
CONSTANTS
  Counts <- BothSigns
  LateReplies = FALSE
  MaxQueue = 2
  UnsignedModulus = 16
INVARIANTS
  InStep
  PositionFresh
PROPERTY CallReturns
