--------------------------- MODULE MCStdioSession ---------------------------
(* Instances of StdioSession for TLC. *)
EXTENDS StdioSession, TLC

CONSTANTS c1, c2, n1, r1

TwoCalls == {c1, c2}
NoNotes  == {}
OneNote  == {n1}
OneReq   == {r1}
OneCall  == {c1}

CallSymmetry == Permutations(TwoCalls)

=============================================================================
