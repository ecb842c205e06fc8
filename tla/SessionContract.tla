-------------------------- MODULE SessionContract --------------------------
(***************************************************************************)
(* What an MCP session promises its callers (the Session interface and     *)
(* ErrSessionClosed of internal/smoke/probe.go): a call started on a       *)
(* session that is over is refused; a response is handed to a call at most *)
(* once; "ok" is returned only for a response handed over, and the         *)
(* session's end is returned only to a call whose response had not come    *)
(* before it.                                                              *)
(***************************************************************************)
CONSTANT Calls

VARIABLES
  phase,   \* "idle", "active", or what the call returned
  over,    \* the session has ended
  handed   \* "no", or when the call's response came: "prompt", "late"

vars == <<phase, over, handed>>

Init ==
  /\ phase = [c \in Calls |-> "idle"]
  /\ over = FALSE
  /\ handed = [c \in Calls |-> "no"]

Begin(c) ==
  /\ phase[c] = "idle"
  /\ phase' = [phase EXCEPT ![c] = IF over THEN "closed" ELSE "active"]
  /\ UNCHANGED <<over, handed>>

Hand(c) ==
  /\ phase[c] # "idle" /\ handed[c] = "no"
  /\ handed' = [handed EXCEPT ![c] = IF over THEN "late" ELSE "prompt"]
  /\ UNCHANGED <<phase, over>>

End == ~over /\ over' = TRUE /\ UNCHANGED <<phase, handed>>

Finish(c, o) ==
  /\ phase[c] = "active"
  /\ o = "ok" => handed[c] # "no"
  /\ o = "closed" => over /\ handed[c] # "prompt"
  /\ phase' = [phase EXCEPT ![c] = o]
  /\ UNCHANGED <<over, handed>>

Next ==
  \/ \E c \in Calls : Begin(c) \/ Hand(c)
  \/ \E c \in Calls, o \in {"ok", "closed", "timeout", "broken"} : Finish(c, o)
  \/ End

Spec == Init /\ [][Next]_vars

=============================================================================
