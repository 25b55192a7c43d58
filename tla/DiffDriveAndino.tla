-------------------------- MODULE DiffDriveAndino ---------------------------
(***************************************************************************)
(* The ros2_control hardware interface (diffdrive_andino.cpp, wheel.cpp):  *)
(* the controller manager configures and activates it and then calls       *)
(* read() and write() in turn, each of which blocks in a call of the       *)
(* MotorDriver.  Angles are in encoder ticks: rads_per_tick_ is one.       *)
(***************************************************************************)
EXTENDS MotorDriver

CONSTANT UnsignedModulus   \* range of the host's unsigned int, 2^32

ASSUME UnsignedAssumption ==
  UnsignedModulus \in Nat \ {0} /\ \A c \in Counts : c < UnsignedModulus

VARIABLES
  lifecycle,         \* as driven by the controller manager
  turn,              \* the call that the manager makes next, or waits for
  enc_,              \* per wheel
  pos_,              \* per wheel
  fresh              \* history: read() was the last call, and got its line

wheels == <<enc_, pos_, fresh>>
vars == <<driverVars, lifecycle, turn, wheels>>

Angle(enc) == enc

-----------------------------------------------------------------------------
Init ==
  /\ DriverInit
  /\ lifecycle = "unconfigured"
  /\ turn = "read"
  /\ enc_ = <<0, 0>> /\ pos_ = <<0, 0>>
  /\ fresh = FALSE

OnConfigure ==
  /\ lifecycle = "unconfigured"
  /\ Setup
  /\ lifecycle' = "inactive"
  /\ UNCHANGED <<turn, wheels>>

(* on_cleanup() is the inherited one: the port stays open.                 *)
OnCleanup ==
  /\ lifecycle = "inactive" /\ call = NoCall
  /\ lifecycle' = "unconfigured"
  /\ UNCHANGED <<driverVars, turn, wheels>>

(* on_activate() and on_deactivate() only log; the port stays open and the *)
(* motors keep their last order until the firmware's auto-stop.            *)
OnActivate ==
  /\ lifecycle = "inactive" /\ call = NoCall
  /\ lifecycle' = "active"
  /\ UNCHANGED <<driverVars, turn, wheels>>

OnDeactivate ==
  /\ lifecycle = "active" /\ call = NoCall
  /\ lifecycle' = "inactive"
  /\ UNCHANGED <<driverVars, turn, wheels>>

(* read() and write() send their message ...                               *)
StartRead ==
  /\ lifecycle \in {"inactive", "active"} /\ turn = "read"
  /\ SendMsg("e")
  /\ turn' = "reading"
  /\ fresh' = FALSE
  /\ UNCHANGED <<lifecycle, enc_, pos_>>

StartWrite ==
  /\ lifecycle \in {"inactive", "active"} /\ turn = "write"
  /\ SendMsg("m")
  /\ turn' = "writing"
  /\ fresh' = FALSE
  /\ UNCHANGED <<lifecycle, enc_, pos_>>

(* A manager may call write() only on an active interface.                 *)
SkipWrite ==
  /\ lifecycle # "active" /\ turn = "write"
  /\ turn' = "read"
  /\ UNCHANGED <<driverVars, lifecycle, wheels>>

(* ... and wait for the response.                                          *)
EndRead ==
  /\ turn = "reading"
  /\ \E response \in Lines :
       /\ Return(response)
       /\ enc_' = [i \in Side |-> ParseEncoders(response)[i] % UnsignedModulus]
  /\ pos_' = [i \in Side |-> Angle(enc_'[i])]
  /\ turn' = "write"
  /\ fresh' = (toHost # <<>>)
  /\ UNCHANGED lifecycle

EndWrite ==
  /\ turn = "writing"
  /\ \E response \in Lines : Return(response)
  /\ turn' = "read"
  /\ UNCHANGED <<lifecycle, wheels>>

-----------------------------------------------------------------------------
Firmware ==
  /\ Reply \/ Restart \/ \E i \in Side, delta \in {-1, 1} : Turn(i, delta)
  /\ UNCHANGED <<lifecycle, turn, wheels>>

Host ==
  \/ OnConfigure \/ OnCleanup \/ OnActivate \/ OnDeactivate
  \/ StartRead \/ EndRead \/ StartWrite \/ EndWrite \/ SkipWrite

Next == Host \/ Firmware

Spec == Init /\ [][Next]_vars

(* ReadLine returns or throws, and the firmware serves its input.          *)
FairSpec ==
  /\ Spec
  /\ WF_vars(EndRead) /\ WF_vars(EndWrite)
  /\ WF_vars(Reply /\ UNCHANGED <<lifecycle, turn, wheels>>)

-----------------------------------------------------------------------------
(* Host and firmware stay in step: between two calls no command, no reply  *)
(* and no part of one is on its way, so each reply is the answer to its    *)
(* own call, even if the firmware restarts (motor_driver.h:84, SendMsg     *)
(* "Send a message to the motor driver and read the response").            *)
InStep == call = NoCall => toFirmware = <<>> /\ toHost = <<>> /\ ~fragment

(* When read() gets its line and no count was below zero meanwhile, each   *)
(* position that it leaves in the state interfaces is a count that this    *)
(* wheel's encoder had while read() ran: never an older one, never the     *)
(* other wheel's, and no remains of a reply that a restart cut off         *)
(* (diffdrive_andino.cpp:148-158).  Below zero it is not: enc_ is unsigned *)
(* (wheel.h:56).                                                           *)
PositionFresh ==
  fresh => \A i \in Side : (\A c \in during[i] : c >= 0) => pos_[i] \in during[i]

(* read() and write() return, even when the firmware restarts and the      *)
(* command is lost.                                                        *)
CallReturns == (call # NoCall) ~> (call = NoCall)

=============================================================================
