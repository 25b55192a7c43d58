SPECIFICATION FairSpec
CONSTANTS
  Wheel = {w1}
  MillisModulus = 16
  kPidPeriod = 2
  kAutoStopWindow = 5
  kPidRate = 2
  DefaultGains <- UnitGains
  MaxLoopTime = 2
  SetupTimeMax = 3
  AgeCap = 12
  Speeds = {0, 2}
  Pwms = {0, 1}
  Tunings <- NoTunings
  Counts = {0}
  kMaxSpeed = 2
  kPwmMax = 2
INVARIANTS
  AutoStopBound
  AutoStopNotEarly
  PidCadence
PROPERTIES
  EventuallyStops
