----------------------------- MODULE AppProofs ------------------------------
(***************************************************************************)
(* Theorems about App for every clock width, window, period, set of wheels *)
(* and set of command arguments.                                           *)
(***************************************************************************)
EXTENDS App, TLAPS

(* The limits of int, as facts: provers enumerate a range whose bounds are *)
(* literals, so the bounds of Int16 are not expanded below.                *)
LEMMA IntLimits == IntMin = -32768 /\ IntMax = 32767
  BY DEF IntMin, IntMax

(* Membership in the type int, as arithmetic.                              *)
LEMMA Int16Def == \A x : x \in Int16 <=> x \in Int /\ -32768 <= x /\ x <= 32767
<1>1. IntMin \in Int /\ IntMax \in Int
  BY IntLimits
<1>2. \A x : x \in Int16 <=> x \in Int /\ IntMin <= x /\ x <= IntMax
  BY <1>1 DEF Int16
<1> QED BY <1>2, IntLimits

(* A narrowing conversion gives an int.                                    *)
LEMMA ToIntType == \A x \in Int : ToInt(x) \in Int16
  BY Int16Def DEF ToInt

(* The quotient of an int by a positive int is an int.                     *)
LEMMA TruncDivType ==
  ASSUME NEW x \in Int16, NEW d \in 1 .. IntMax
  PROVE  TruncDiv(x, d) \in Int16
<1> x \in Int /\ -32768 <= x /\ x <= 32767
  BY Int16Def
<1>1. ASSUME NEW y \in Nat PROVE y \div d \in 0 .. y
  <2>1. d \in Nat \ {0}
    BY IntLimits
  <2>2. y = d * (y \div d) + (y % d) /\ y % d \in 0 .. (d - 1) /\ y \div d \in Int
    BY <2>1
  <2>3. DEFINE q == y \div d
  <2>4. q \in Int /\ d * q <= y /\ d * q > y - d
    BY <2>2, <2>1
  <2>5. q >= 0
    <3>1. SUFFICES ASSUME q <= -1 PROVE FALSE
      BY <2>4
    <3>2. d * q <= -d
      BY <3>1, <2>4, <2>1
    <3> QED BY <3>2, <2>4, <2>1
  <2>6. q <= d * q
    BY <2>5, <2>4, <2>1
  <2> QED BY <2>4, <2>5, <2>6
<1>2. d > 0 /\ d \in Int
  BY IntLimits
<1>3. CASE x >= 0
  <2>1. PICK q \in 0 .. x : x \div d = q
    BY <1>1, <1>3
  <2>2. TruncDiv(x, d) = q
    BY <1>2, <1>3, <2>1 DEF TruncDiv
  <2> QED BY <2>2, Int16Def
<1>4. CASE x < 0
  <2>1. PICK q \in 0 .. (-x) : (-x) \div d = q
    BY <1>1, <1>4
  <2>2. TruncDiv(x, d) = -q
    BY <1>2, <1>4, <2>1 DEF TruncDiv
  <2> QED BY <2>2, Int16Def
<1> QED BY <1>3, <1>4

(* The quotient of two integers is an integer.                             *)
LEMMA TruncDivInt ==
  ASSUME NEW x \in Int, NEW d \in Int, d # 0
  PROVE  TruncDiv(x, d) \in Int
<1>1. ASSUME NEW y \in Int, NEW c \in Int, c > 0 PROVE y \div c \in Int
  BY <1>1
<1>2. CASE d > 0
  BY <1>1, <1>2 DEF TruncDiv
<1>3. CASE d < 0
  <2>1. -d \in Int /\ -d > 0 /\ -x \in Int /\ ~(d > 0)
    BY <1>3
  <2>2. x \div (-d) \in Int /\ (-x) \div (-d) \in Int
    BY <1>1, <2>1
  <2> QED BY <2>1, <2>2 DEF TruncDiv
<1> QED BY <1>2, <1>3

(* set_speed gives each output an int.                                     *)
LEMMA SetSpeedType == \A speed \in Int16 : SetSpeed(speed) \in Drive
<1> SUFFICES ASSUME NEW speed \in Int16 PROVE SetSpeed(speed) \in Drive
  OBVIOUS
<1>1. speed \in Int /\ -speed \in Int /\ 0 \in Int16
  BY Int16Def
<1>2. kMaxSpeed \in Int16
  <2>1. IntMax \in Int
    BY IntLimits
  <2>2. kMaxSpeed \in Int /\ 1 <= kMaxSpeed /\ kMaxSpeed <= IntMax
    BY <2>1, MaxSpeedAssumption
  <2> QED BY <2>2, Int16Def, IntLimits
<1>3. ToInt(-speed) \in Int16
  BY <1>1, ToIntType
<1> QED BY <1>1, <1>2, <1>3 DEF SetSpeed, Drive

(* Every operation of the controller keeps its fields in their types; the  *)
(* output of a computation is within the output limits.                    *)
LEMMA PidOpsType ==
  ASSUME NEW p \in Pid
  PROVE  /\ \A c \in Int : Reset(p, c) \in Pid
         /\ Enable(p) \in Pid /\ Disable(p) \in Pid
         /\ \A s \in Int16 : SetSetpoint(p, s) \in Pid
         /\ \A g \in [1 .. 4 -> Int16] : SetTunings(p, g) \in Pid
<1>1. 0 \in Int16 /\ 0 \in Outputs
  BY Int16Def, IntLimits, PwmMaxAssumption DEF Outputs
<1>2. \A c \in Int : Reset(p, c) \in Pid
  BY <1>1, ToIntType DEF Reset, Pid
<1>3. Enable(p) \in Pid /\ Disable(p) \in Pid
  BY DEF Enable, Disable, Pid
<1>4. \A s \in Int16 : SetSetpoint(p, s) \in Pid
  BY DEF SetSetpoint, Pid
<1>5. ASSUME NEW g \in [1 .. 4 -> Int16] PROVE SetTunings(p, g) \in Pid
  <2>1. g[1] \in Int16 /\ g[2] \in Int16 /\ g[3] \in Int16 /\ g[4] \in Int16
    OBVIOUS
  <2> QED BY <2>1 DEF SetTunings, Pid
<1> QED BY <1>2, <1>3, <1>4, <1>5

(* A computation keeps every field in its type, whatever the count and the *)
(* gains are; only the clamp keeps the output within its limits.           *)
LEMMA ComputeType ==
  ASSUME NEW p \in Pid, NEW c \in Int, NEW q \in DivByZeroResults
  PROVE  Compute(p, c, q) \in Pid
<1> DEFINE input  == Input(p, c)
           error  == ToInt(p.setpoint - input)
           terms  == p.kp * error - ToInt(p.kd * ToInt(input - p.last_input))
                       + p.integral_term
           output == p.last_output + (IF p.ko = 0 THEN q ELSE TruncDiv(terms, p.ko))
           result == [p EXCEPT
                        !.integral_term = IF output \in (1 - kPwmMax) .. (kPwmMax - 1)
                                          THEN ToInt(@ + p.ki * error) ELSE @,
                        !.last_encoder_count = ToInt(c),
                        !.last_input = input,
                        !.last_output = Clamp(output)]
<1>1. /\ p.kp \in Int /\ p.kd \in Int /\ p.ki \in Int /\ p.ko \in Int
      /\ p.setpoint \in Int /\ p.integral_term \in Int
      /\ p.last_encoder_count \in Int /\ p.last_input \in Int
  BY Int16Def DEF Pid
<1>2. p.last_output \in Int
  BY PwmMaxAssumption, IntLimits DEF Pid, Outputs
<1>3. ToInt(c) \in Int16 /\ ToInt(c) \in Int
  BY ToIntType, Int16Def
<1>4. input \in Int16 /\ input \in Int
  BY <1>1, <1>3, ToIntType, Int16Def DEF Input
<1>5. error \in Int
  <2>1. p.setpoint - input \in Int
    BY <1>1, <1>4
  <2> QED BY <2>1, ToIntType, Int16Def
<1>6. terms \in Int
  <2>1. ToInt(input - p.last_input) \in Int
    BY <1>1, <1>4, ToIntType, Int16Def
  <2>2. ToInt(p.kd * ToInt(input - p.last_input)) \in Int
    BY <1>1, <2>1, ToIntType, Int16Def
  <2> HIDE DEF error, input
  <2> QED BY <1>1, <1>5, <2>2
<1>7. output \in Int
  <2> HIDE DEF terms
  <2>1. p.ko # 0 => TruncDiv(terms, p.ko) \in Int
    BY <1>1, <1>6, TruncDivInt
  <2> QED BY <1>2, <2>1 DEF DivByZeroResults
<1>8. Clamp(output) \in Outputs
  <2> HIDE DEF output
  <2> QED BY <1>7, PwmMaxAssumption, IntLimits DEF Clamp, Outputs
<1>9. ToInt(p.integral_term + p.ki * error) \in Int16
  <2> HIDE DEF error
  <2> QED BY <1>1, <1>5, ToIntType
<1>10. result \in Pid
  <2> HIDE DEF input, error, output
  <2> QED BY <1>3, <1>4, <1>8, <1>9 DEF Pid
<1>11. Compute(p, c, q) = IF ~p.enabled
                          THEN IF p.last_input # 0 THEN Reset(p, c) ELSE p
                          ELSE result
  BY DEF Compute
<1> HIDE DEF result
<1> QED BY <1>10, <1>11, PidOpsType

-----------------------------------------------------------------------------
(* The initial state and every step keep each variable in its type.        *)

(* setup() leaves every variable in its type.                              *)
LEMMA InitType == Init => TypeOK
<1> SUFFICES ASSUME Init PROVE TypeOK
  OBVIOUS
<1>1. 0 \in Int16 /\ 0 \in Outputs
  BY Int16Def, IntLimits, PwmMaxAssumption DEF Outputs
<1>2. Stopped \in Drive
  BY <1>1, SetSpeedType DEF Stopped
<1>3. pid \in [Wheel -> Pid]
  <2>1. /\ DefaultGains[1] \in Int16 /\ DefaultGains[2] \in Int16
        /\ DefaultGains[3] \in Int16 /\ DefaultGains[4] \in Int16
    BY InputAssumption
  <2> QED BY <1>1, <2>1 DEF Init, Pid
<1>4. order \in [kind: {"stop", "pwm", "speed"}, value: [Wheel -> Int16]]
  BY <1>1 DEF Init, StopOrder, NoSpeed
<1>5. count \in [Wheel -> Counts]
  BY InputAssumption DEF Init, NoSpeed
<1>6. motor \in [Wheel -> Drive]
  BY <1>2 DEF Init
<1>7. /\ millis \in 0 .. (MillisModulus - 1)
      /\ last_pid_computation_ \in 0 .. (MillisModulus - 1)
      /\ last_set_motors_speed_cmd_ \in 0 .. (MillisModulus - 1)
      /\ loopElapsed \in 0 .. MaxLoopTime
      /\ commandAge \in 0 .. AgeCap
      /\ pidAge \in 0 .. AgeCap
  BY TimingAssumption DEF Init
<1> QED BY <1>3, <1>4, <1>5, <1>6, <1>7 DEF TypeOK, Init

(* Every step of the loop, the commands, the clock and the encoders keeps  *)
(* every variable in its type.                                             *)
LEMMA NextType == TypeOK /\ [Next]_vars => TypeOK'
<1> SUFFICES ASSUME TypeOK, [Next]_vars PROVE TypeOK'
  OBVIOUS
<1> USE DEF TypeOK
<1>1. 0 \in Int16 /\ Stopped \in Drive
  BY Int16Def, SetSpeedType DEF Stopped
<1>2. \A w \in Wheel : count[w] \in Int
  BY InputAssumption
<1>3. StopOrder \in [kind: {"stop", "pwm", "speed"}, value: [Wheel -> Int16]]
  BY <1>1 DEF StopOrder, NoSpeed
<1>4. ASSUME NEW speed \in [Wheel -> Speeds], CmdSetMotorsSpeed(speed) PROVE TypeOK'
  <2>1. \A w \in Wheel : speed[w] \in Int16 /\ TruncDiv(speed[w], kPidRate) \in Int16
    BY InputAssumption, TruncDivType
  <2>2. \A w \in Wheel : SetSetpoint(Enable(pid[w]), TruncDiv(speed[w], kPidRate)) \in Pid
    BY <2>1, PidOpsType
  <2>3. \A w \in Wheel : SetSetpoint(Disable(Reset(pid[w], count[w])), 0) \in Pid
    BY <1>1, <1>2, PidOpsType
  <2>4. pid' \in [Wheel -> Pid]
    BY <1>4, <2>2, <2>3 DEF CmdSetMotorsSpeed
  <2>5. motor' \in [Wheel -> Drive]
    BY <1>1, <1>4 DEF CmdSetMotorsSpeed
  <2>6. order' \in [kind: {"stop", "pwm", "speed"}, value: [Wheel -> Int16]]
    BY <1>3, <1>4, <2>1 DEF CmdSetMotorsSpeed
  <2> QED BY <1>4, <2>4, <2>5, <2>6, TimingAssumption DEF CmdSetMotorsSpeed
<1>5. ASSUME NEW pwm \in [Wheel -> Pwms], CmdSetMotorsPwm(pwm) PROVE TypeOK'
  <2>1. \A w \in Wheel : pwm[w] \in Int16 /\ SetSpeed(pwm[w]) \in Drive
    BY InputAssumption, SetSpeedType
  <2>2. \A w \in Wheel : Disable(Reset(pid[w], count[w])) \in Pid
    BY <1>2, PidOpsType
  <2>3. order' \in [kind: {"stop", "pwm", "speed"}, value: [Wheel -> Int16]]
    BY <1>5, <2>1 DEF CmdSetMotorsPwm
  <2> QED BY <1>5, <2>1, <2>2, <2>3, TimingAssumption DEF CmdSetMotorsPwm, timers
<1>6. CASE CmdResetEncoders
  <2>1. PICK tick \in [Wheel -> {-1, 0, 1} \cap Counts] :
          count' = tick /\ pid' = [w \in Wheel |-> Reset(pid[w], tick[w])]
    BY <1>6 DEF CmdResetEncoders
  <2>2. \A w \in Wheel : tick[w] \in Int
    OBVIOUS
  <2>3. \A w \in Wheel : Reset(pid[w], tick[w]) \in Pid
    BY <2>2, PidOpsType
  <2> QED BY <1>6, <2>1, <2>3 DEF CmdResetEncoders, timers, ages
<1>7. ASSUME NEW fields \in Tunings, CmdSetPidTuningGains(fields) PROVE TypeOK'
  <2> DEFINE gains == [i \in 1 .. 4 |-> IF i <= Len(fields) THEN fields[i] ELSE 0]
  <2>1. gains \in [1 .. 4 -> Int16]
    <3>1. fields \in Seq(Int16)
      BY InputAssumption
    <3>2. Len(fields) \in Nat /\ \A i \in 1 .. Len(fields) : fields[i] \in Int16
      BY <3>1
    <3>3. \A i \in 1 .. 4 : (IF i <= Len(fields) THEN fields[i] ELSE 0) \in Int16
      BY <1>1, <3>2
    <3> QED BY <3>3
  <2>2. pid' = [w \in Wheel |-> SetTunings(pid[w], gains)]
    BY <1>7 DEF CmdSetPidTuningGains
  <2> HIDE DEF gains
  <2>3. pid' \in [Wheel -> Pid]
    BY <2>1, <2>2, PidOpsType
  <2> QED BY <1>7, <2>3 DEF CmdSetPidTuningGains, timers, ages
<1>8. CASE EndInput
  BY <1>8 DEF EndInput, timers, ages
<1>9. CASE CheckPid
  BY <1>9 DEF CheckPid, timers, ages
<1>10. CASE AdjustMotorsSpeed
  <2>1. PICK quotient0 \in [Wheel -> DivByZeroResults] :
          pid' = [w \in Wheel |-> Compute(pid[w], count[w], quotient0[w])]
    BY <1>10 DEF AdjustMotorsSpeed
  <2>2. pid' \in [Wheel -> Pid]
    BY <1>2, <2>1, ComputeType
  <2>3. \A w \in Wheel : pid'[w].last_output \in Int16
    <3>1. Outputs \subseteq Int16
      <4>1. IntMax \in Int
        BY IntLimits
      <4>2. kPwmMax \in Int /\ 1 <= kPwmMax /\ kPwmMax <= IntMax
        BY <4>1, PwmMaxAssumption
      <4>3. \A x \in Outputs : x \in Int /\ -kPwmMax <= x /\ x <= kPwmMax
        BY <4>2 DEF Outputs
      <4> QED BY <4>2, <4>3, Int16Def, IntLimits
    <3> QED BY <2>2, <3>1 DEF Pid
  <2>4. motor' \in [Wheel -> Drive]
    BY <1>10, <2>3, SetSpeedType DEF AdjustMotorsSpeed
  <2> QED BY <1>10, <2>2, <2>4, TimingAssumption DEF AdjustMotorsSpeed
<1>11. CASE CheckAutoStop
  BY <1>11, TimingAssumption DEF CheckAutoStop, timers
<1>12. CASE StopMotors
  <2>1. pid' \in [Wheel -> Pid]
    BY <1>12, PidOpsType DEF StopMotors
  <2> QED BY <1>1, <1>3, <1>12, <2>1, TimingAssumption DEF StopMotors
<1>13. CASE Tick
  BY <1>13, TimingAssumption DEF Tick, Older, timers
<1>14. ASSUME NEW w \in Wheel, NEW delta \in {-1, 1}, CountTick(w, delta) PROVE TypeOK'
  BY <1>14 DEF CountTick, timers, ages
<1>15. CASE UNCHANGED vars
  BY <1>15 DEF vars, timers, ages
<1> QED BY <1>4, <1>5, <1>6, <1>7, <1>8, <1>9, <1>10, <1>11, <1>12, <1>13, <1>14, <1>15
        DEF Next, Command, LoopStep

(* Every reachable state is well typed: in particular every controller     *)
(* output stays within its limits and every field of a controller is an    *)
(* int, whatever gains and speeds the commands bring.                      *)
THEOREM TypeCorrect == Spec => []TypeOK
  BY InitType, NextType, PTL DEF Spec

-----------------------------------------------------------------------------
(* Orders.  OrderHeld is inductive over well typed states.                 *)

(* What the controller operations do to the two fields an order sets.      *)
LEMMA PidOpsFields ==
  ASSUME NEW p \in Pid
  PROVE  /\ \A c : Reset(p, c).enabled = p.enabled /\ Reset(p, c).setpoint = 0
         /\ Enable(p).enabled /\ ~Disable(p).enabled
         /\ \A s : SetSetpoint(p, s).enabled = p.enabled /\ SetSetpoint(p, s).setpoint = s
         /\ \A g : /\ SetTunings(p, g).enabled = p.enabled
                   /\ SetTunings(p, g).setpoint = p.setpoint
         /\ \A c, q : Compute(p, c, q).enabled = p.enabled
         /\ \A c, q : Compute(p, c, q).setpoint \in {p.setpoint, 0}
<1>1. \A c : Reset(p, c).enabled = p.enabled /\ Reset(p, c).setpoint = 0
  BY DEF Reset, Pid
<1>2. Enable(p).enabled /\ ~Disable(p).enabled
  BY DEF Enable, Disable, Pid
<1>3. \A s : SetSetpoint(p, s).enabled = p.enabled /\ SetSetpoint(p, s).setpoint = s
  BY DEF SetSetpoint, Pid
<1>4. \A g : SetTunings(p, g).enabled = p.enabled /\ SetTunings(p, g).setpoint = p.setpoint
  BY DEF SetTunings, Pid
<1>5. ASSUME NEW c, NEW q
      PROVE  /\ Compute(p, c, q).enabled = p.enabled
             /\ Compute(p, c, q).setpoint \in {p.setpoint, 0}
  <2>1. CASE p.enabled
    BY <2>1 DEF Compute, Pid
  <2>2. CASE ~p.enabled
    BY <2>2, <1>1 DEF Compute
  <2> QED BY <2>1, <2>2
<1> QED BY <1>1, <1>2, <1>3, <1>4, <1>5

(* The conjunct of OrderHeld for one wheel, one kind of order at a time.   *)
HeldAt(w) ==
  /\ order.kind = "stop"  => ~pid[w].enabled /\ motor[w] = Stopped
  /\ order.kind = "pwm"   => ~pid[w].enabled /\ motor[w] = SetSpeed(order.value[w])
  /\ order.kind = "speed" => /\ pid[w].enabled
                             /\ pid[w].setpoint \in {TruncDiv(order.value[w], kPidRate), 0}

(* OrderHeld, a CASE without OTHER, is HeldAt of every wheel.              *)
LEMMA OrderHeldAt == TypeOK => (OrderHeld <=> \A w \in Wheel : HeldAt(w))
<1>1. TypeOK => order.kind \in {"stop", "pwm", "speed"}
  BY DEF TypeOK
<1> QED BY <1>1 DEF OrderHeld, HeldAt

(* A step of any kind leaves the last order in force on both wheels or     *)
(* installs a new one on both.                                             *)
LEMMA NextHeld ==
  TypeOK /\ TypeOK' /\ (\A w \in Wheel : HeldAt(w)) /\ [Next]_vars => (\A w \in Wheel : HeldAt(w))'
<1> SUFFICES ASSUME TypeOK, TypeOK', \A w \in Wheel : HeldAt(w), [Next]_vars, NEW v \in Wheel
             PROVE  HeldAt(v)'
  OBVIOUS
<1>1. pid[v] \in Pid /\ pid \in [Wheel -> Pid] /\ motor \in [Wheel -> Drive]
  BY DEF TypeOK
<1>2. HeldAt(v)
  OBVIOUS
<1>3. ASSUME NEW speed \in [Wheel -> Speeds], CmdSetMotorsSpeed(speed) PROVE HeldAt(v)'
  <2>1. CASE speed = NoSpeed
    <3>1. /\ order' = StopOrder /\ motor'[v] = Stopped
          /\ pid'[v] = SetSetpoint(Disable(Reset(pid[v], count[v])), 0)
      BY <1>3, <2>1 DEF CmdSetMotorsSpeed
    <3>2. count[v] \in Int
      BY InputAssumption DEF TypeOK
    <3>3. Reset(pid[v], count[v]) \in Pid
      BY <1>1, <3>2, PidOpsType
    <3>4. Disable(Reset(pid[v], count[v])) \in Pid
      BY <3>3, PidOpsType
    <3>5. ~pid'[v].enabled
      BY <3>1, <3>3, <3>4, PidOpsFields
    <3> QED BY <3>1, <3>5 DEF HeldAt, StopOrder
  <2>2. CASE speed # NoSpeed
    <3>1. /\ order' = [kind |-> "speed", value |-> speed]
          /\ pid'[v] = SetSetpoint(Enable(pid[v]), TruncDiv(speed[v], kPidRate))
      BY <1>3, <2>2 DEF CmdSetMotorsSpeed
    <3>2. Enable(pid[v]) \in Pid
      BY <1>1, PidOpsType
    <3>3. pid'[v].enabled /\ pid'[v].setpoint = TruncDiv(speed[v], kPidRate)
      BY <1>1, <3>1, <3>2, PidOpsFields
    <3> QED BY <3>1, <3>3 DEF HeldAt
  <2> QED BY <2>1, <2>2
<1>4. ASSUME NEW pwm \in [Wheel -> Pwms], CmdSetMotorsPwm(pwm) PROVE HeldAt(v)'
  <2>1. /\ order' = [kind |-> "pwm", value |-> pwm] /\ motor'[v] = SetSpeed(pwm[v])
        /\ pid'[v] = Disable(Reset(pid[v], count[v]))
    BY <1>4 DEF CmdSetMotorsPwm
  <2>2. count[v] \in Int
    BY InputAssumption DEF TypeOK
  <2>3. Reset(pid[v], count[v]) \in Pid
    BY <1>1, <2>2, PidOpsType
  <2>4. ~pid'[v].enabled
    BY <2>1, <2>3, PidOpsFields
  <2> QED BY <2>1, <2>4 DEF HeldAt
<1>5. CASE CmdResetEncoders
  <2>1. PICK tick : pid' = [w \in Wheel |-> Reset(pid[w], tick[w])]
    BY <1>5 DEF CmdResetEncoders
  <2>2. pid'[v].enabled = pid[v].enabled /\ pid'[v].setpoint = 0
    BY <1>1, <2>1, PidOpsFields
  <2>3. UNCHANGED <<motor, order>>
    BY <1>5 DEF CmdResetEncoders
  <2> QED BY <1>2, <2>2, <2>3 DEF HeldAt
<1>6. ASSUME NEW fields \in Tunings, CmdSetPidTuningGains(fields) PROVE HeldAt(v)'
  <2>1. PICK gains : pid' = [w \in Wheel |-> SetTunings(pid[w], gains)]
    BY <1>6 DEF CmdSetPidTuningGains
  <2>2. pid'[v].enabled = pid[v].enabled /\ pid'[v].setpoint = pid[v].setpoint
    BY <1>1, <2>1, PidOpsFields
  <2>3. UNCHANGED <<motor, order>>
    BY <1>6 DEF CmdSetPidTuningGains
  <2> QED BY <1>2, <2>2, <2>3 DEF HeldAt
<1>7. CASE AdjustMotorsSpeed
  <2>1. PICK q : pid' = [w \in Wheel |-> Compute(pid[w], count[w], q[w])]
    BY <1>7 DEF AdjustMotorsSpeed
  <2>2. pid'[v].enabled = pid[v].enabled /\ pid'[v].setpoint \in {pid[v].setpoint, 0}
    BY <1>1, <2>1, PidOpsFields
  <2>3. ~pid[v].enabled => motor'[v] = motor[v]
    BY <1>7 DEF AdjustMotorsSpeed
  <2>4. UNCHANGED order
    BY <1>7 DEF AdjustMotorsSpeed
  <2> QED BY <1>2, <2>2, <2>3, <2>4 DEF HeldAt
<1>8. CASE StopMotors
  <2>1. order' = StopOrder /\ motor'[v] = Stopped /\ pid'[v] = Disable(pid[v])
    BY <1>8 DEF StopMotors
  <2>2. ~pid'[v].enabled
    BY <1>1, <2>1, PidOpsFields
  <2> QED BY <2>1, <2>2 DEF HeldAt, StopOrder
<1>9. CASE UNCHANGED <<pid, motor, order>>
  BY <1>2, <1>9 DEF HeldAt
<1>10. EndInput \/ CheckPid \/ CheckAutoStop \/ Tick \/ UNCHANGED vars
         => UNCHANGED <<pid, motor, order>>
  BY DEF EndInput, CheckPid, CheckAutoStop, Tick, vars
<1>11. \A w \in Wheel, delta \in {-1, 1} : CountTick(w, delta) => UNCHANGED <<pid, motor, order>>
  BY DEF CountTick
<1> QED BY <1>3, <1>4, <1>5, <1>6, <1>7, <1>8, <1>9, <1>10, <1>11 DEF Next, Command, LoopStep

(* The last order stays in force: in no reachable state does a PID act on  *)
(* a motor that an o command or a stop holds, and the two PIDs are always  *)
(* both on or both off.                                                    *)
THEOREM OrdersHeld == Spec => []OrderHeld
<1>1. Init => \A w \in Wheel : HeldAt(w)
  BY DEF Init, HeldAt, StopOrder
<1>2. Spec => [](\A w \in Wheel : HeldAt(w))
  BY <1>1, NextHeld, TypeCorrect, PTL DEF Spec
<1> QED BY <1>2, OrderHeldAt, TypeCorrect, PTL

-----------------------------------------------------------------------------
(* Timing.  The invariant relates the two stamps, which the code compares  *)
(* modulo MillisModulus, to true ages: neither timer ever gets near the    *)
(* modulus, because each check resets its timer or finds it small.         *)

BeforePidRan == {"input", "pid_check", "pid_run"}
AfterPidRan == {"stop_check", "stop_run"}

StopTimer ==
  /\ Elapsed(last_set_motors_speed_cmd_) <= kAutoStopWindow + loopElapsed
  /\ pc = "stop_run" => Elapsed(last_set_motors_speed_cmd_) > kAutoStopWindow
  /\ order.kind # "stop" => commandAge <= Elapsed(last_set_motors_speed_cmd_)
  /\ order.kind = "speed" => commandAge = Elapsed(last_set_motors_speed_cmd_)

PidTimer ==
  /\ pidAge = Elapsed(last_pid_computation_)
  /\ pc = "pid_run" => pidAge > kPidPeriod
  /\ pc \in BeforePidRan => pidAge <= SetupTimeMax + kPidPeriod + MaxLoopTime + loopElapsed
  /\ pc \in AfterPidRan => pidAge <= kPidPeriod + loopElapsed

TimingInv == StopTimer /\ PidTimer

(* The difference of a stamp and itself is zero.                           *)
LEMMA SelfDifference ==
  \A x, y \in Int : x = y => (IF x >= y THEN x - y ELSE x - y + MillisModulus) = 0
  OBVIOUS

(* The unsigned difference of the clock and a stamp is a clock value.      *)
LEMMA ElapsedType ==
  ASSUME TypeOK, NEW last \in 0 .. (MillisModulus - 1)
  PROVE  Elapsed(last) \in Nat
  BY TimingAssumption DEF TypeOK, Elapsed

(* A tick of the clock, across its wrap too, makes the unsigned difference *)
(* one more as long as it is short of the modulus.                         *)
LEMMA TickElapsed ==
  ASSUME TypeOK, Tick
  PROVE  /\ Elapsed(last_set_motors_speed_cmd_) < MillisModulus - 1
              => Elapsed(last_set_motors_speed_cmd_)' = Elapsed(last_set_motors_speed_cmd_) + 1
         /\ Elapsed(last_pid_computation_) < MillisModulus - 1
              => Elapsed(last_pid_computation_)' = Elapsed(last_pid_computation_) + 1
<1>1. UNCHANGED timers
  BY DEF Tick
<1>2. UNCHANGED last_set_motors_speed_cmd_ /\ UNCHANGED last_pid_computation_
  BY <1>1 DEF timers
<1> QED BY <1>2, TimingAssumption DEF TypeOK, Tick, Elapsed

(* The timers are in step with the ages when setup() ends.                 *)
LEMMA InitTiming == Init => TimingInv
  BY TimingAssumption DEF Init, TimingInv, StopTimer, PidTimer, Elapsed, StopOrder,
     BeforePidRan, AfterPidRan

(* Every step keeps the auto-stop timer in step with the commands.         *)
LEMMA NextStopTimer == TypeOK /\ TypeOK' /\ TimingInv /\ [Next]_vars => StopTimer'
<1> SUFFICES ASSUME TypeOK, TypeOK', StopTimer, PidTimer, [Next]_vars PROVE StopTimer'
  BY DEF TimingInv
<1> DEFINE e == Elapsed(last_set_motors_speed_cmd_)
<1>1. e \in Nat /\ loopElapsed \in 0 .. MaxLoopTime /\ commandAge \in 0 .. AgeCap
  BY ElapsedType DEF TypeOK
<1>2. CASE UNCHANGED <<millis, last_set_motors_speed_cmd_, loopElapsed, pc, commandAge, order>>
  BY <1>2 DEF StopTimer, Elapsed
<1>3. ASSUME NEW speed \in [Wheel -> Speeds], CmdSetMotorsSpeed(speed) PROVE StopTimer'
  <2>1. /\ last_set_motors_speed_cmd_' = millis' /\ commandAge' = 0
        /\ pc' = "input" /\ loopElapsed' = loopElapsed
    BY <1>3 DEF CmdSetMotorsSpeed
  <2>2. millis' \in Int /\ last_set_motors_speed_cmd_' \in Int
    BY DEF TypeOK
  <2>3. Elapsed(last_set_motors_speed_cmd_)' = 0
    BY <2>1, <2>2, SelfDifference DEF Elapsed
  <2> QED BY <1>1, <2>1, <2>3, TimingAssumption DEF StopTimer
<1>4. ASSUME NEW pwm \in [Wheel -> Pwms], CmdSetMotorsPwm(pwm) PROVE StopTimer'
  <2>1. /\ UNCHANGED <<millis, last_set_motors_speed_cmd_, loopElapsed, pc>>
        /\ commandAge' = 0 /\ order'.kind = "pwm"
    BY <1>4 DEF CmdSetMotorsPwm, timers
  <2> QED BY <1>1, <2>1 DEF StopTimer, Elapsed
<1>5. CASE EndInput \/ CheckPid \/ AdjustMotorsSpeed
  <2>1. /\ UNCHANGED <<millis, last_set_motors_speed_cmd_, loopElapsed, commandAge, order>>
        /\ pc' # "stop_run"
    BY <1>5 DEF EndInput, CheckPid, AdjustMotorsSpeed, timers, ages
  <2> QED BY <2>1 DEF StopTimer, Elapsed
<1>6. CASE CheckAutoStop
  <2>1. UNCHANGED <<millis, last_set_motors_speed_cmd_, commandAge, order>>
    BY <1>6 DEF CheckAutoStop, timers
  <2>2. \/ e > kAutoStopWindow /\ pc' = "stop_run" /\ loopElapsed' = loopElapsed
        \/ e <= kAutoStopWindow /\ pc' = "input" /\ loopElapsed' = 0
    BY <1>1, <1>6, TimingAssumption DEF CheckAutoStop
  <2>3. e' = e
    BY <2>1 DEF Elapsed
  <2> HIDE DEF e
  <2>4. /\ e' <= kAutoStopWindow + loopElapsed'
        /\ pc' = "stop_run" => e' > kAutoStopWindow
    BY <1>1, <2>2, <2>3, TimingAssumption DEF StopTimer, e
  <2> QED BY <2>1, <2>3, <2>4 DEF StopTimer, e
<1>7. CASE StopMotors
  <2>1. /\ last_set_motors_speed_cmd_' = millis' /\ order'.kind = "stop"
        /\ pc' = "input" /\ loopElapsed' = 0
    BY <1>7 DEF StopMotors, StopOrder
  <2>2. millis' \in Int /\ last_set_motors_speed_cmd_' \in Int
    BY DEF TypeOK
  <2>3. Elapsed(last_set_motors_speed_cmd_)' = 0
    BY <2>1, <2>2, SelfDifference DEF Elapsed
  <2> QED BY <2>1, <2>3, TimingAssumption DEF StopTimer
<1>8. CASE Tick
  <2>1. e < MillisModulus - 1
    BY <1>1, TimingAssumption DEF StopTimer
  <2>2. e' = e + 1
    BY <1>8, <2>1, TickElapsed
  <2>3. loopElapsed' = loopElapsed + 1 /\ commandAge' = Older(commandAge) /\ UNCHANGED <<pc, order>>
    BY <1>8 DEF Tick
  <2>4. e <= kAutoStopWindow + MaxLoopTime
    BY <1>1, TimingAssumption DEF StopTimer
  <2> HIDE DEF e
  <2>5. order.kind # "stop" => commandAge' <= e'
    BY <1>1, <2>2, <2>3, TimingAssumption DEF StopTimer, Older, e
  <2>6. order.kind = "speed" => commandAge' = e'
    BY <1>1, <2>2, <2>3, <2>4, TimingAssumption DEF StopTimer, Older, e
  <2>7. e' <= kAutoStopWindow + loopElapsed' /\ (pc' = "stop_run" => e' > kAutoStopWindow)
    BY <1>1, <2>2, <2>3, TimingAssumption DEF StopTimer, e
  <2> QED BY <2>3, <2>5, <2>6, <2>7 DEF StopTimer, e
<1>9. CmdResetEncoders \/ UNCHANGED vars
        => UNCHANGED <<millis, last_set_motors_speed_cmd_, loopElapsed, pc, commandAge, order>>
  BY DEF CmdResetEncoders, vars, timers, ages
<1>10. \A fields \in Tunings : CmdSetPidTuningGains(fields)
        => UNCHANGED <<millis, last_set_motors_speed_cmd_, loopElapsed, pc, commandAge, order>>
  BY DEF CmdSetPidTuningGains, timers, ages
<1>11. \A w \in Wheel, delta \in {-1, 1} : CountTick(w, delta)
        => UNCHANGED <<millis, last_set_motors_speed_cmd_, loopElapsed, pc, commandAge, order>>
  BY DEF CountTick, timers, ages
<1> HIDE DEF e
<1> QED BY <1>2, <1>3, <1>4, <1>5, <1>6, <1>7, <1>8, <1>9, <1>10, <1>11
        DEF Next, Command, LoopStep

(* Every step keeps the PID timer in step with the computations.           *)
LEMMA NextPidTimer == TypeOK /\ TypeOK' /\ TimingInv /\ [Next]_vars => PidTimer'
<1> SUFFICES ASSUME TypeOK, TypeOK', PidTimer, [Next]_vars PROVE PidTimer'
  BY DEF TimingInv
<1> DEFINE e == Elapsed(last_pid_computation_)
<1>1. e \in Nat /\ loopElapsed \in 0 .. MaxLoopTime
  BY ElapsedType DEF TypeOK
<1>2. CASE UNCHANGED <<millis, last_pid_computation_, loopElapsed, pc, pidAge>>
  BY <1>2 DEF PidTimer, Elapsed
<1>3. CASE EndInput
  <2>1. /\ UNCHANGED <<millis, last_pid_computation_, loopElapsed, pidAge>>
        /\ pc = "input" /\ pc' = "pid_check"
    BY <1>3 DEF EndInput, timers, ages
  <2> QED BY <2>1 DEF PidTimer, Elapsed, BeforePidRan, AfterPidRan
<1>4. CASE CheckPid
  <2>1. UNCHANGED <<millis, last_pid_computation_, loopElapsed, pidAge>> /\ pc = "pid_check"
    BY <1>4 DEF CheckPid, timers, ages
  <2>2. \/ e > kPidPeriod /\ pc' = "pid_run"
        \/ e <= kPidPeriod /\ pc' = "stop_check"
    BY <1>1, <1>4, TimingAssumption DEF CheckPid
  <2>3. e' = e
    BY <2>1 DEF Elapsed
  <2> HIDE DEF e
  <2> QED BY <1>1, <2>1, <2>2, <2>3, TimingAssumption DEF PidTimer, e, BeforePidRan, AfterPidRan
<1>5. CASE AdjustMotorsSpeed
  <2>1. /\ last_pid_computation_' = millis' /\ pidAge' = 0
        /\ pc' = "stop_check" /\ loopElapsed' = loopElapsed
    BY <1>5 DEF AdjustMotorsSpeed
  <2>2. millis' \in Int /\ last_pid_computation_' \in Int
    BY DEF TypeOK
  <2>3. Elapsed(last_pid_computation_)' = 0
    BY <2>1, <2>2, SelfDifference DEF Elapsed
  <2> QED BY <1>1, <2>1, <2>3, TimingAssumption DEF PidTimer, BeforePidRan, AfterPidRan
<1>6. CASE CheckAutoStop \/ StopMotors
  <2>1. /\ UNCHANGED <<millis, last_pid_computation_, pidAge>>
        /\ pc \in AfterPidRan
        /\ \/ pc' = "stop_run" /\ loopElapsed' = loopElapsed
           \/ pc' = "input" /\ loopElapsed' = 0
    BY <1>6 DEF CheckAutoStop, StopMotors, timers, AfterPidRan
  <2>2. e' = e
    BY <2>1 DEF Elapsed
  <2> HIDE DEF e
  <2>3. pidAge = e /\ pidAge <= kPidPeriod + loopElapsed
    BY <2>1 DEF PidTimer, e
  <2> QED BY <1>1, <2>1, <2>2, <2>3, TimingAssumption DEF PidTimer, e, BeforePidRan, AfterPidRan
<1>7. CASE Tick
  <2>1. pc \in BeforePidRan \/ pc \in AfterPidRan
    BY DEF TypeOK, BeforePidRan, AfterPidRan
  <2>2. pidAge = e /\ e <= SetupTimeMax + kPidPeriod + 2 * MaxLoopTime
    BY <1>1, <2>1, TimingAssumption DEF PidTimer
  <2>3. e' = e + 1
    BY <1>1, <1>7, <2>2, TickElapsed, TimingAssumption
  <2>4. loopElapsed' = loopElapsed + 1 /\ pidAge' = Older(pidAge) /\ pc' = pc
    BY <1>7 DEF Tick
  <2> HIDE DEF e
  <2>5. pidAge' = e'
    BY <1>1, <2>2, <2>3, <2>4, TimingAssumption DEF Older
  <2> QED BY <1>1, <2>2, <2>3, <2>4, <2>5, TimingAssumption DEF PidTimer, e
<1>8. CmdResetEncoders \/ UNCHANGED vars
        => UNCHANGED <<millis, last_pid_computation_, loopElapsed, pc, pidAge>>
  BY DEF CmdResetEncoders, vars, timers, ages
<1>9. \A speed \in [Wheel -> Speeds] : CmdSetMotorsSpeed(speed)
        => UNCHANGED <<millis, last_pid_computation_, loopElapsed, pc, pidAge>>
  BY DEF CmdSetMotorsSpeed
<1>10. \A pwm \in [Wheel -> Pwms] : CmdSetMotorsPwm(pwm)
        => UNCHANGED <<millis, last_pid_computation_, loopElapsed, pc, pidAge>>
  BY DEF CmdSetMotorsPwm, timers
<1>11. \A fields \in Tunings : CmdSetPidTuningGains(fields)
        => UNCHANGED <<millis, last_pid_computation_, loopElapsed, pc, pidAge>>
  BY DEF CmdSetPidTuningGains, timers, ages
<1>12. \A w \in Wheel, delta \in {-1, 1} : CountTick(w, delta)
        => UNCHANGED <<millis, last_pid_computation_, loopElapsed, pc, pidAge>>
  BY DEF CountTick, timers, ages
<1> HIDE DEF e
<1> QED BY <1>2, <1>3, <1>4, <1>5, <1>6, <1>7, <1>8, <1>9, <1>10, <1>11, <1>12
        DEF Next, Command, LoopStep

(* The inductive invariant of the two timers of loop().                    *)
LEMMA TimingInvariant == Spec => []TimingInv
<1>1. TypeOK /\ TypeOK' /\ TimingInv /\ [Next]_vars => TimingInv'
  BY NextStopTimer, NextPidTimer DEF TimingInv
<1> QED BY InitTiming, <1>1, TypeCorrect, PTL DEF Spec

(* The robot never moves on an order older than the window plus one        *)
(* iteration, for every window and clock width that TimingAssumption       *)
(* allows, across any number of wraps of millis().                         *)
THEOREM AutoStopBounded == Spec => []AutoStopBound
<1>1. TypeOK /\ OrderHeld /\ TimingInv => AutoStopBound
  <2> SUFFICES ASSUME TypeOK, OrderHeld, TimingInv, MotorsOn
               PROVE  commandAge <= kAutoStopWindow + MaxLoopTime
    BY DEF AutoStopBound
  <2>1. PICK w \in Wheel : motor[w] # Stopped \/ pid[w].enabled
    BY DEF MotorsOn
  <2>2. order.kind # "stop"
    BY <2>1, OrderHeldAt DEF HeldAt
  <2>3. Elapsed(last_set_motors_speed_cmd_) \in Nat
    BY ElapsedType DEF TypeOK
  <2> QED BY <2>2, <2>3, TimingAssumption DEF TimingInv, StopTimer, TypeOK
<1> QED BY <1>1, TypeCorrect, OrdersHeld, TimingInvariant, PTL

(* Closed-loop motion is never stopped within the window of the last m     *)
(* command.                                                                *)
THEOREM AutoStopPatient == Spec => []AutoStopNotEarly
<1>1. TimingInv => AutoStopNotEarly
  BY DEF TimingInv, StopTimer, AutoStopNotEarly
<1> QED BY <1>1, TimingInvariant, PTL

(* The PIDs are computed no more often than their period and no later      *)
(* than two iterations after it is over.                                   *)
THEOREM PidCadenceKept == Spec => []PidCadence
<1>1. TypeOK /\ TimingInv => PidCadence
  <2> SUFFICES ASSUME TypeOK, TimingInv PROVE PidCadence
    OBVIOUS
  <2>1. pc \in BeforePidRan \/ pc \in AfterPidRan
    BY DEF TypeOK, BeforePidRan, AfterPidRan
  <2> QED BY <2>1, TimingAssumption DEF TimingInv, PidTimer, PidCadence, TypeOK
<1> QED BY <1>1, TypeCorrect, TimingInvariant, PTL

=============================================================================
