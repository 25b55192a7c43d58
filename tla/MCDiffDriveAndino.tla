------------------------- MODULE MCDiffDriveAndino --------------------------
(* Small instances of DiffDriveAndino for TLC. *)
EXTENDS DiffDriveAndino

BothSigns == -1 .. 1
=============================================================================
