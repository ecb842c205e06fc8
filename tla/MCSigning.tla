----------------------------- MODULE MCSigning -----------------------------
(* Instances of Signing for TLC. *)
EXTENDS Signing

=============================================================================
