--------------------------- MODULE MCIntakeWorker ---------------------------
(***************************************************************************)
(* Instances of IntakeWorker for TLC.                                      *)
(***************************************************************************)
EXTENDS IntakeWorker

=============================================================================
