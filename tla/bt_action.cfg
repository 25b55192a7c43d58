SPECIFICATION FairSpec
CONSTANT MaxGoals = 3
INVARIANTS
  HandleNeverNull
  ResultIsOfLastGoal
  HaltCancels
PROPERTY ResultReachesNode
CHECK_DEADLOCK FALSE
