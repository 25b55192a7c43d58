SPECIFICATION FairSpec
CONSTANTS
  MaxGoals = 4
  MaxActivations = 3
INVARIANTS
  TypeOK
  ActiveIsHeld
  OldestFirst
  PreemptAnnounced
  QuietWhenInactive
  FeedbackHasGoal
PROPERTIES
  GoalsSpec
  CallbackServes
  DeactivateReturns
CHECK_DEADLOCK FALSE
