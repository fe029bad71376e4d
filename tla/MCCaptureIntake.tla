--------------------------- MODULE MCCaptureIntake ---------------------------
(* Small instances of CaptureIntake for TLC. *)
EXTENDS CaptureIntake, TLC

CONSTANTS d1, receipt, other

Photo == d1 :> receipt
==============================================================================
