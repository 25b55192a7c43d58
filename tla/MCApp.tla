------------------------------- MODULE MCApp --------------------------------
(* Small instances of App for TLC. *)
EXTENDS App, TLC

WheelSymmetry == Permutations(Wheel)

(* Proportional control with a unit output gain. *)
UnitGains == <<1, 0, 0, 1>>

NoTunings == {}

(* u with a single field: kd, ki and ko become zero. *)
OneField == {<<1>>}
=============================================================================
