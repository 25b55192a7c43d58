SPECIFICATION Spec
CONSTANTS
  N = 2
  kInstancesMax = 1
  ByteBase = 4
  LongBytes = 2
  Turning = {1}
  MaxPosition = 4
  MaxLag = 1
  MainOps = {"read", "reset"}
INVARIANTS
  Routing
  LowByteExact
  
