-------------------------------- MODULE App ---------------------------------
(***************************************************************************)
(* The firmware's main loop (app.cpp): App::loop() runs the commands that  *)
(* the shell finds in the serial input, then the PID controllers if their  *)
(* period has elapsed, then the auto-stop if its window has.  Each millis()*)
(* and each command callback is one step; between two steps the clock may  *)
(* tick and the encoder interrupts may change the counts.                  *)
(*                                                                         *)
(* Commands that only read (a, d, e, h, i) and commands with too few       *)
(* arguments change no state kept here.  How bytes become commands is the  *)
(* shell's business.                                                       *)
(***************************************************************************)
EXTENDS Motor, Pid, Sequences

CONSTANTS
  Wheel,                 \* the two wheels, each with a motor, a PID and an encoder
  MillisModulus,         \* range of the unsigned long that millis() returns, 2^32
  kPidPeriod,            \* [ms]
  kAutoStopWindow,       \* [ms]
  kPidRate,              \* [Hz]
  DefaultGains,          \* <<kPidKp, kPidKd, kPidKi, kPidKo>>
  MaxLoopTime,           \* bound: longest loop() iteration [ms]
  SetupTimeMax,          \* bound: longest setup() [ms]
  AgeCap,                \* bound: ages are counted up to this value
  Speeds,                \* arguments of the m command
  Pwms,                  \* arguments of the o command
  Tunings,               \* arguments of the u command, split at the colons
  Counts                 \* bound: encoder counts reached

ASSUME TimingAssumption ==
  /\ MillisModulus \in Nat
  /\ kPidPeriod \in Nat
  /\ kAutoStopWindow \in Nat
  /\ MaxLoopTime \in Nat
  /\ SetupTimeMax \in 0 .. kAutoStopWindow
  /\ kAutoStopWindow + MaxLoopTime < MillisModulus - 1
  /\ SetupTimeMax + kPidPeriod + 2 * MaxLoopTime < MillisModulus - 1
  /\ AgeCap \in Nat
  /\ AgeCap > kAutoStopWindow + MaxLoopTime
  /\ AgeCap > SetupTimeMax + kPidPeriod + 2 * MaxLoopTime

ASSUME InputAssumption ==
  /\ kPidRate \in 1 .. IntMax
  /\ Speeds \subseteq Int16 /\ Pwms \subseteq Int16
  /\ Tunings \subseteq Seq(Int16)
  /\ DefaultGains \in Int16 \X Int16 \X Int16 \X Int16
  /\ Counts \subseteq Int /\ 0 \in Counts

VARIABLES
  millis,                     \* the clock
  last_pid_computation_,
  last_set_motors_speed_cmd_,
  pid,                        \* left_pid_controller_, right_pid_controller_
  motor,                      \* left_motor_, right_motor_
  count,                      \* what each encoder's read() returns
  pc,                         \* where loop() is
  loopElapsed,                \* history: ms since this iteration of loop() began
  commandAge,                 \* history: ms since the last m or o command
  pidAge,                     \* history: ms since the PIDs were last computed
  order                       \* history: the last motion order still in force

timers == <<last_pid_computation_, last_set_motors_speed_cmd_>>
ages == <<loopElapsed, commandAge, pidAge>>
vars == <<millis, timers, pid, motor, count, pc, ages, order>>

(* millis() - last, the subtraction of two unsigned longs.                 *)
SignedElapsed(last) == millis - last
Elapsed(last) == IF millis >= last THEN millis - last ELSE millis - last + MillisModulus

Older(age) == IF age < AgeCap THEN age + 1 ELSE AgeCap

NoSpeed == [w \in Wheel |-> 0]
StopOrder == [kind |-> "stop", value |-> NoSpeed]

-----------------------------------------------------------------------------
(* setup() leaves the motors at rest and the PIDs disabled.  It runs for a *)
(* while, mostly inside the IMU's begin(), but the stamps start at zero.   *)
Init ==
  /\ millis \in 0 .. SetupTimeMax
  /\ last_pid_computation_ = 0
  /\ last_set_motors_speed_cmd_ = 0
  /\ pid = [w \in Wheel |->
              [kp |-> DefaultGains[1], kd |-> DefaultGains[2],
               ki |-> DefaultGains[3], ko |-> DefaultGains[4],
               enabled |-> FALSE, setpoint |-> 0, integral_term |-> 0,
               last_encoder_count |-> 0, last_input |-> 0, last_output |-> 0]]
  /\ motor = [w \in Wheel |-> Stopped]
  /\ count = NoSpeed
  /\ pc = "input"
  /\ loopElapsed = 0
  /\ commandAge = AgeCap
  /\ pidAge = millis
  /\ order = StopOrder

-----------------------------------------------------------------------------
(* The command callbacks, run by shell_.process_input().                   *)

SpeedWithoutStamp(speed) ==
  /\ pc = "input"
  /\ pid' = [w \in Wheel |-> SetSetpoint(Enable(pid[w]), TruncDiv(speed[w], kPidRate))]
  /\ commandAge' = 0
  /\ order' = [kind |-> "speed", value |-> speed]
  /\ UNCHANGED <<millis, timers, motor, count, pc, loopElapsed, pidAge>>

(* m <left> <right>, in ticks per second.                                  *)
CmdSetMotorsSpeed(speed) ==
  /\ pc = "input"
  /\ last_set_motors_speed_cmd_' = millis
  /\ IF speed = NoSpeed
     THEN /\ motor' = [w \in Wheel |-> Stopped]
          /\ pid' = [w \in Wheel |-> SetSetpoint(Disable(Reset(pid[w], count[w])), 0)]
          /\ order' = StopOrder
     ELSE /\ pid' = [w \in Wheel |->
                       SetSetpoint(Enable(pid[w]), TruncDiv(speed[w], kPidRate))]
          /\ order' = [kind |-> "speed", value |-> speed]
          /\ UNCHANGED motor
  /\ commandAge' = 0
  /\ UNCHANGED <<millis, last_pid_computation_, count, pc, loopElapsed, pidAge>>

(* o <left> <right>.  Unlike m, it does not restart the auto-stop window.  *)
CmdSetMotorsPwm(pwm) ==
  /\ pc = "input"
  /\ pid' = [w \in Wheel |-> Disable(Reset(pid[w], count[w]))]
  /\ motor' = [w \in Wheel |-> SetSpeed(pwm[w])]
  /\ commandAge' = 0
  /\ order' = [kind |-> "pwm", value |-> pwm]
  /\ UNCHANGED <<millis, timers, count, pc, loopElapsed, pidAge>>

(* r.  An interrupt may count a tick between the reset of an encoder and   *)
(* the read that its PID takes as the new origin.                          *)
CmdResetEncoders ==
  /\ pc = "input"
  /\ \E tick \in [Wheel -> {-1, 0, 1} \cap Counts] :
       /\ count' = tick
       /\ pid' = [w \in Wheel |-> Reset(pid[w], tick[w])]
  /\ UNCHANGED <<millis, timers, motor, pc, ages, order>>

(* u <kp>:<kd>:<ki>:<ko>.  Missing fields are zero and a fifth is ignored. *)
CmdSetPidTuningGains(fields) ==
  LET gains == [i \in 1 .. 4 |-> IF i <= Len(fields) THEN fields[i] ELSE 0]
  IN /\ pc = "input"
     /\ pid' = [w \in Wheel |-> SetTunings(pid[w], gains)]
     /\ UNCHANGED <<millis, timers, motor, count, pc, ages, order>>

-----------------------------------------------------------------------------
(* The rest of loop().                                                     *)

(* No input is left.                                                       *)
EndInput ==
  /\ pc = "input"
  /\ pc' = "pid_check"
  /\ UNCHANGED <<millis, timers, pid, motor, count, ages, order>>

CheckPidAtPeriod ==
  /\ pc = "pid_check"
  /\ pc' = IF Elapsed(last_pid_computation_) >= kPidPeriod THEN "pid_run" ELSE "stop_check"
  /\ UNCHANGED <<millis, timers, pid, motor, count, ages, order>>

CheckPid ==
  /\ pc = "pid_check"
  /\ pc' = IF Elapsed(last_pid_computation_) > kPidPeriod THEN "pid_run" ELSE "stop_check"
  /\ UNCHANGED <<millis, timers, pid, motor, count, ages, order>>

AdjustWithoutEnabledCheck ==
  /\ pc = "pid_run"
  /\ last_pid_computation_' = millis
  /\ pid' = [w \in Wheel |-> Compute(pid[w], count[w], 1)]
  /\ motor' = [w \in Wheel |-> SetSpeed(pid'[w].last_output)]
  /\ pc' = "stop_check"
  /\ pidAge' = 0
  /\ UNCHANGED <<millis, last_set_motors_speed_cmd_, count, loopElapsed, commandAge, order>>

(* The stamp is a second call of millis(), later than the one compared.    *)
AdjustMotorsSpeed ==
  /\ pc = "pid_run"
  /\ last_pid_computation_' = millis
  /\ \E quotient0 \in [Wheel -> DivByZeroResults] :
       pid' = [w \in Wheel |-> Compute(pid[w], count[w], quotient0[w])]
  /\ motor' = [w \in Wheel |->
                 IF pid[w].enabled THEN SetSpeed(pid'[w].last_output) ELSE motor[w]]
  /\ pc' = "stop_check"
  /\ pidAge' = 0
  /\ UNCHANGED <<millis, last_set_motors_speed_cmd_, count, loopElapsed, commandAge, order>>

(* With the window still open this is the end of the iteration.            *)
CheckAutoStop ==
  /\ pc = "stop_check"
  /\ IF Elapsed(last_set_motors_speed_cmd_) > kAutoStopWindow
     THEN pc' = "stop_run" /\ UNCHANGED loopElapsed
     ELSE pc' = "input" /\ loopElapsed' = 0
  /\ UNCHANGED <<millis, timers, pid, motor, count, commandAge, pidAge, order>>

StopMotors ==
  /\ pc = "stop_run"
  /\ last_set_motors_speed_cmd_' = millis
  /\ motor' = [w \in Wheel |-> Stopped]
  /\ pid' = [w \in Wheel |-> Disable(pid[w])]
  /\ order' = StopOrder
  /\ pc' = "input"
  /\ loopElapsed' = 0
  /\ UNCHANGED <<millis, last_pid_computation_, count, commandAge, pidAge>>

-----------------------------------------------------------------------------
(* The hardware: a millisecond passes; an encoder interrupt counts a tick. *)

Tick ==
  /\ loopElapsed < MaxLoopTime
  /\ millis' = IF millis = MillisModulus - 1 THEN 0 ELSE millis + 1
  /\ loopElapsed' = loopElapsed + 1
  /\ commandAge' = Older(commandAge)
  /\ pidAge' = Older(pidAge)
  /\ UNCHANGED <<timers, pid, motor, count, pc, order>>

CountTick(w, delta) ==
  /\ count[w] + delta \in Counts
  /\ count' = [count EXCEPT ![w] = @ + delta]
  /\ UNCHANGED <<millis, timers, pid, motor, pc, ages, order>>

-----------------------------------------------------------------------------
Command ==
  \/ \E speed \in [Wheel -> Speeds] : CmdSetMotorsSpeed(speed)
  \/ \E pwm \in [Wheel -> Pwms] : CmdSetMotorsPwm(pwm)
  \/ CmdResetEncoders
  \/ \E fields \in Tunings : CmdSetPidTuningGains(fields)

LoopStep == EndInput \/ CheckPid \/ AdjustMotorsSpeed \/ CheckAutoStop \/ StopMotors

Next ==
  \/ Command
  \/ LoopStep
  \/ Tick
  \/ \E w \in Wheel, delta \in {-1, 1} : CountTick(w, delta)

Spec == Init /\ [][Next]_vars

(* loop() is called forever from main(), the serial buffer empties, and    *)
(* the clock runs.  Nothing is assumed of the commands or of the wheels.   *)
Fairness == WF_vars(LoopStep) /\ WF_vars(Tick)

FairSpec == Spec /\ Fairness

-----------------------------------------------------------------------------
MotorsOn == \E w \in Wheel : motor[w] # Stopped \/ pid[w].enabled

(* Every variable has its type; the counts stay in their bound.            *)
TypeOK ==
  /\ millis \in 0 .. (MillisModulus - 1)
  /\ last_pid_computation_ \in 0 .. (MillisModulus - 1)
  /\ last_set_motors_speed_cmd_ \in 0 .. (MillisModulus - 1)
  /\ pid \in [Wheel -> Pid]
  /\ motor \in [Wheel -> Drive]
  /\ count \in [Wheel -> Counts]
  /\ pc \in {"input", "pid_check", "pid_run", "stop_check", "stop_run"}
  /\ loopElapsed \in 0 .. MaxLoopTime
  /\ commandAge \in 0 .. AgeCap
  /\ pidAge \in 0 .. AgeCap
  /\ order \in [kind: {"stop", "pwm", "speed"}, value: [Wheel -> Int16]]

(* The robot never moves on an order older than the auto-stop window plus  *)
(* one iteration of loop(): app.cpp:174-177, across the wrap of millis()   *)
(* and with o commands that do not restart the window.                     *)
AutoStopBound == MotorsOn => commandAge <= kAutoStopWindow + MaxLoopTime

(* A speed order is not cut short: auto-stop interrupts closed-loop motion *)
(* only when the last m command is older than the window.                  *)
AutoStopNotEarly ==
  pc = "stop_run" /\ order.kind = "speed" => commandAge > kAutoStopWindow

(* Two computations of the PIDs are more than kPidPeriod apart, and none   *)
(* is late by more than two iterations (app.cpp:168-171); the first one    *)
(* waits for setup().                                                      *)
PidCadence ==
  /\ pc = "pid_run" => pidAge > kPidPeriod
  /\ pidAge <= SetupTimeMax + kPidPeriod + 2 * MaxLoopTime

(* The last order stays in force until the next order or the auto-stop: at *)
(* rest and in open loop both PIDs are off and no PID run touches a motor; *)
(* in closed loop both PIDs are on, with the ordered setpoint or with the  *)
(* zero that an r command leaves.  It does not ask whether there was an r  *)
(* command: a zero setpoint is allowed at any time.                        *)
OrderHeld ==
  \A w \in Wheel :
    CASE order.kind = "stop"  -> ~pid[w].enabled /\ motor[w] = Stopped
      [] order.kind = "pwm"   -> ~pid[w].enabled /\ motor[w] = SetSpeed(order.value[w])
      [] order.kind = "speed" -> /\ pid[w].enabled
                                 /\ pid[w].setpoint \in {TruncDiv(order.value[w], kPidRate), 0}

(* A moving robot that gets no further order comes to rest.                *)
EventuallyStops == (MotorsOn /\ commandAge > 0) ~> (~MotorsOn \/ commandAge = 0)

=============================================================================
