------------------------------ MODULE MCSmokeRun ------------------------------
(* Instances of SmokeRun for TLC. *)
EXTENDS SmokeRun

=============================================================================
