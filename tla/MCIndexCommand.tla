--------------------------- MODULE MCIndexCommand ---------------------------
(* Instances of IndexCommand for TLC. *)
EXTENDS IndexCommand, TLC

CONSTANTS n1, v1, v2, amd64, arm64, b1, b2

OneName     == {n1}
TwoVersions == {v1, v2}
BothArches  == {amd64, arm64}
TwoBuilds   == {b1, b2}

BuildSymmetry == Permutations(TwoVersions) \union Permutations(BothArches)
                   \union Permutations(TwoBuilds)

=============================================================================
