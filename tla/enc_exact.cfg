SPECIFICATION Spec
CONSTANTS
  N = 2
  kInstancesMax = 2
  ByteBase = 4
  LongBytes = 1
  Turning = {1, 2}
  MaxPosition = 2
  MaxLag = 2
  MainOps = {}
INVARIANTS
  NoLostEdge
  CountExact
