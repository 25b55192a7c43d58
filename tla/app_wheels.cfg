SPECIFICATION Spec
CONSTANTS
  Wheel = {left, right}
  MillisModulus = 4
  kPidPeriod = 0
  kAutoStopWindow = 1
  kPidRate = 2
  DefaultGains <- UnitGains
  MaxLoopTime = 1
  SetupTimeMax = 0
  AgeCap = 3
  Speeds = {0, 2}
  Pwms = {0, 1}
  Tunings <- OneField
  Counts = {0, 1}
  kMaxSpeed = 2
  kPwmMax = 2
SYMMETRY WheelSymmetry
INVARIANTS
  TypeOK
  OrderHeld
