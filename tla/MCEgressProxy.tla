---------------------------- MODULE MCEgressProxy ----------------------------
(* Instances of EgressProxy for TLC. *)
EXTENDS EgressProxy

CONSTANTS c1, api, apiDot, web, old, evil, p443, p80

OneConn == {c1}

(* api is written with and without its trailing dot, web is declared without *)
(* a port, old for port 80 alone, evil is not declared.                      *)
TheNames  == {api, apiDot, web, old, evil}
TheNormal == [n \in TheNames |-> IF n = apiDot THEN api ELSE n]
ThePorts  == {p443, p80}
TheAllow  == {<<apiDot, p443>>, <<web, AnyPort>>, <<old, p80>>}

=============================================================================
