---------------------------- MODULE MCSmokeStack ----------------------------
(* Instances of SmokeStack for TLC. *)
EXTENDS SmokeStack

CONSTANTS p1, p2

TwoPkgs == {p1, p2}

=============================================================================
