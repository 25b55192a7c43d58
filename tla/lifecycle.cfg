SPECIFICATION FairSpec
CONSTANTS
  N = 2
  attempt_respawn_reconnection_ = TRUE
INVARIANTS
  ReportHolds
  OrderKept
  DiesOnlyAfterShutdown
PROPERTIES
  LossIsNoticed
  CommandEnds
CHECK_DEADLOCK FALSE
