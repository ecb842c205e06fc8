---------------------------- MODULE MCPublishing ----------------------------
(* Instances of Publishing for TLC. *)
EXTENDS Publishing, TLC

CONSTANTS n1, n2, v1, v2, amd64, b1, b2

TwoNames    == {n1, n2}
TwoVersions == {v1, v2}
OneArch     == {amd64}
TwoBuilds   == {b1, b2}
NoNames     == {}

NameSymmetry == Permutations(TwoNames) \union Permutations(TwoVersions)
                  \union Permutations(TwoBuilds)

=============================================================================
