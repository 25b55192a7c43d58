-------------------------------- MODULE Pid ---------------------------------
(***************************************************************************)
(* The PID controller of one wheel (pid.h, pid.cpp), as operators on its   *)
(* state.  The App module owns one controller per wheel.                   *)
(***************************************************************************)
EXTENDS AvrInt

CONSTANT kPwmMax         \* output limits are -kPwmMax and kPwmMax

ASSUME PwmMaxAssumption == kPwmMax \in 1 .. IntMax

Outputs == (-kPwmMax) .. kPwmMax

Pid == [kp: Int16, kd: Int16, ki: Int16, ko: Int16,
        enabled: BOOLEAN, setpoint: Int16, integral_term: Int16,
        last_encoder_count: Int16, last_input: Int16, last_output: Outputs]

Reset(p, encoder_count) ==
  [p EXCEPT !.setpoint = 0, !.integral_term = 0,
            !.last_encoder_count = ToInt(encoder_count),
            !.last_input = 0, !.last_output = 0]

Enable(p) == [p EXCEPT !.enabled = TRUE]

Disable(p) == [p EXCEPT !.enabled = FALSE]

SetSetpoint(p, setpoint) == [p EXCEPT !.setpoint = setpoint]

(* The gains are given in the order of the constructor and the command.    *)
SetTunings(p, gains) ==
  [p EXCEPT !.kp = gains[1], !.kd = gains[2], !.ki = gains[3], !.ko = gains[4]]

(* What dividing by a ko_ of zero, undefined in C++, leaves in the         *)
(* quotient: the division routine of this target sets every bit of it and  *)
(* then gives it a sign.                                                   *)
DivByZeroResults == {-1, 1}

(* The ticks since the last sample.  compute() receives the 32-bit count   *)
(* as an int, so both operands are 16-bit truncations.                     *)
Input(p, encoder_count) == ToInt(ToInt(encoder_count) - p.last_encoder_count)

Unclamped(x) == x
Clamp(x) == IF x >= kPwmMax THEN kPwmMax ELSE IF x <= -kPwmMax THEN -kPwmMax ELSE x

(* Pid::compute.  The computed output is the last_output of the result and *)
(* is meaningful only for an enabled controller; quotient0 stands for the  *)
(* result of the division when ko_ is zero.                                *)
Compute(p, encoder_count, quotient0) ==
  LET input  == Input(p, encoder_count)
      error  == ToInt(p.setpoint - input)
      terms  == p.kp * error - ToInt(p.kd * ToInt(input - p.last_input))
                  + p.integral_term
      output == p.last_output + (IF p.ko = 0 THEN quotient0 ELSE TruncDiv(terms, p.ko))
  IN IF ~p.enabled
     THEN IF p.last_input # 0 THEN Reset(p, encoder_count) ELSE p
     ELSE [p EXCEPT
             !.integral_term = IF output \in (1 - kPwmMax) .. (kPwmMax - 1)
                               THEN ToInt(@ + p.ki * error) ELSE @,
             !.last_encoder_count = ToInt(encoder_count),
             !.last_input = input,
             !.last_output = Clamp(output)]

=============================================================================
