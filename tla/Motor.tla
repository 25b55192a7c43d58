------------------------------- MODULE Motor --------------------------------
(***************************************************************************)
(* The DC motor driven through a full bridge (motor.h, motor.cpp).  Its    *)
(* state is the duty cycle last written to each of its two PWM outputs.    *)
(***************************************************************************)
EXTENDS AvrInt

CONSTANT kMaxSpeed       \* largest duty cycle, 255

ASSUME MaxSpeedAssumption == kMaxSpeed \in 1 .. IntMax

Drive == [forward: Int16, backward: Int16]

(* Motor::set_speed.  Negating IntMin overflows, so that one speed reaches *)
(* the backward output neither negated nor clamped.                        *)
SetSpeed(speed) ==
  LET magnitude == IF speed < 0 THEN ToInt(-speed) ELSE speed
      duty      == IF magnitude > kMaxSpeed THEN kMaxSpeed ELSE magnitude
  IN IF speed < 0
     THEN [forward |-> 0, backward |-> duty]
     ELSE [forward |-> duty, backward |-> 0]

Stopped == SetSpeed(0)

=============================================================================
