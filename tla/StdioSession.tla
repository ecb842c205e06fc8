---------------------------- MODULE StdioSession ----------------------------
(***************************************************************************)
(* The stdio MCP session of internal/smoke/probe.go: goroutines that Call  *)
(* and Notify over a package's stdin, the one goroutine that reads its     *)
(* stdout, the goroutines that answer the package's own requests, and      *)
(* Close.  The package is the environment: it may answer any id at any     *)
(* time, twice or never, stop reading its stdin, and exit between any two  *)
(* steps.  smoke.Run's Wait goroutine, which closes both pipes once the    *)
(* package is gone, is part of the environment too.                        *)
(*                                                                         *)
(* Abstracted: JSON (a frame is a response, a request or something the     *)
(* reader skips), the text of errors, frames longer than the pipe's room   *)
(* (a frame enters the pipe whole).                                        *)
(***************************************************************************)
EXTENDS Integers, Sequences

CONSTANTS
  Calls,      \* goroutines that make one Call each
  Notes,      \* goroutines that make one Notify each
  SrvReqs,    \* requests the package may send, and the goroutines answering
  Nobody,     \* no goroutine
  MaxId,      \* bound on request ids
  PipeCap,    \* frames a pipe holds
  MaxOut      \* bound on the frames the package writes

Writers == Calls \union Notes \union SrvReqs
Ids     == 1..MaxId

ASSUME SessionAssumption ==
  /\ Calls \intersect Notes = {}
  /\ Calls \intersect SrvReqs = {}
  /\ Notes \intersect SrvReqs = {}
  /\ Nobody \notin Writers
  /\ MaxId \in Nat /\ PipeCap \in Nat \ {0} /\ MaxOut \in Nat

(* What the package writes to its stdout. *)
Response(i) == [type |-> "response", id |-> i]
Request(r)  == [type |-> "request", from |-> r]
Noise       == [type |-> "noise"]

Frames == {Response(i) : i \in Ids} \union {Request(r) : r \in SrvReqs}
            \union {Noise}

VARIABLES
  \* the session's fields
  next,       \* last id given out
  pending,    \* id -> the call waiting for it, or Nobody
  closed,     \* shut has run, and with it close(done)
  eof,        \* the reader saw the end of stdout
  wmu,        \* the goroutine holding the write lock, or Nobody
  \* its goroutines
  pc,         \* where each writing goroutine is
  id,         \* each call's request id, 0 before it has one
  chan,       \* each call's channel of capacity 1: a response's id, or 0
  out,        \* what each call returned
  expired,    \* calls whose context is done
  rpc,        \* where the reader is
  hand,       \* the response the reader is about to send, and to whom
  closer,     \* where Close is
  \* the package and its pipes
  pkg, stdin, stdout, stdinOpen, reaped, said, asked,
  \* history: when each call's response was put in its channel
  handed

session == <<next, pending, closed, eof, wmu>>
callers == <<pc, id, chan, out, expired, handed>>
reader  == <<rpc, hand>>
pipes   == <<stdin, stdout, stdinOpen>>
package == <<pkg, reaped, said, asked>>
vars    == <<session, callers, reader, closer, pipes, package>>

NoHand == [to |-> Nobody, id |-> 0]

Init ==
  /\ next = 0 /\ pending = [i \in Ids |-> Nobody]
  /\ closed = FALSE /\ eof = FALSE /\ wmu = Nobody
  /\ pc = [w \in Writers |-> "idle"]
  /\ id = [c \in Calls |-> 0] /\ chan = [c \in Calls |-> 0]
  /\ out = [c \in Calls |-> "none"] /\ expired = {}
  /\ handed = [c \in Calls |-> "no"]
  /\ rpc = "read" /\ hand = NoHand /\ closer = "open"
  /\ pkg = "up" /\ stdin = 0 /\ stdout = <<>> /\ stdinOpen = TRUE
  /\ reaped = FALSE /\ said = 0 /\ asked = {}

-----------------------------------------------------------------------------
(* Call, Notify and the reply goroutines. *)

Goto(w, s) == pc' = [pc EXCEPT ![w] = s]

Return(c, o) == Goto(c, "done") /\ out' = [out EXCEPT ![c] = o]

(* Call on a closed session. *)
RefuseCall(c) ==
  /\ pc[c] = "idle" /\ closed
  /\ Return(c, "closed")
  /\ UNCHANGED <<session, id, chan, expired, handed, reader, closer, pipes, package>>

(* Mutant of Register: the id counter does not advance. *)
RegisterSameId(c) ==
  /\ pc[c] = "idle" /\ ~closed /\ next < MaxId
  /\ id' = [id EXCEPT ![c] = next + 1]
  /\ pending' = [pending EXCEPT ![next + 1] = c]
  /\ Goto(c, "lock")
  /\ UNCHANGED <<next, closed, eof, wmu, chan, out, expired, handed, reader, closer,
                 pipes, package>>

(* Call's first critical section: take an id and register a channel. *)
Register(c) ==
  /\ pc[c] = "idle" /\ ~closed /\ next < MaxId
  /\ next' = next + 1
  /\ id' = [id EXCEPT ![c] = next + 1]
  /\ pending' = [pending EXCEPT ![next + 1] = c]
  /\ Goto(c, "lock")
  /\ UNCHANGED <<closed, eof, wmu, chan, out, expired, handed, reader, closer,
                 pipes, package>>

(* Notify only writes. *)
Notify(n) ==
  /\ pc[n] = "idle"
  /\ Goto(n, "lock")
  /\ UNCHANGED <<session, id, chan, out, expired, handed, reader, closer,
                 pipes, package>>

(* write takes the lock without looking at any context. *)
Lock(w) ==
  /\ pc[w] = "lock" /\ wmu = Nobody
  /\ wmu' = w
  /\ Goto(w, "write")
  /\ UNCHANGED <<next, pending, closed, eof, id, chan, out, expired, handed,
                 reader, closer, pipes, package>>

(* A frame that fits the pipe is written and the lock released. *)
WriteOk(w) ==
  /\ pc[w] = "write" /\ wmu = w
  /\ stdinOpen /\ pkg = "up" /\ stdin < PipeCap
  /\ stdin' = stdin + 1
  /\ wmu' = Nobody
  /\ Goto(w, IF w \in Calls THEN "wait" ELSE "done")
  /\ UNCHANGED <<next, pending, closed, eof, id, chan, out, expired, handed,
                 reader, closer, stdout, stdinOpen, package>>

(* Mutant of WriteFail: the error path does not unlock. *)
WriteFailKeepsLock(w) ==
  /\ pc[w] = "write" /\ wmu = w
  /\ ~stdinOpen \/ pkg = "gone"
  /\ Goto(w, IF w \in Calls THEN "forget" ELSE "done")
  /\ out' = IF w \in Calls THEN [out EXCEPT ![w] = "broken"] ELSE out
  /\ UNCHANGED <<session, id, chan, expired, handed, reader, closer, pipes, package>>

(* A closed stdin or a package that is gone fails the write. *)
WriteFail(w) ==
  /\ pc[w] = "write" /\ wmu = w
  /\ ~stdinOpen \/ pkg = "gone"
  /\ wmu' = Nobody
  /\ Goto(w, IF w \in Calls THEN "forget" ELSE "done")
  /\ out' = IF w \in Calls THEN [out EXCEPT ![w] = "broken"] ELSE out
  /\ UNCHANGED <<next, pending, closed, eof, id, chan, expired, handed,
                 reader, closer, pipes, package>>

(* The deadline every Call of smoke carries passes. *)
Expire(c) ==
  /\ pc[c] \notin {"idle", "done"} /\ c \notin expired
  /\ expired' = expired \union {c}
  /\ UNCHANGED <<session, pc, id, chan, out, handed, reader, closer, pipes, package>>

(* Call's select, one disjunct per ready case; Go picks any of them. *)
TakeAnswer(c) ==
  /\ pc[c] \in {"wait", "woken"} /\ chan[c] # 0
  /\ chan' = [chan EXCEPT ![c] = 0]
  /\ Return(c, "ok")
  /\ UNCHANGED <<session, id, expired, handed, reader, closer, pipes, package>>

WakeOnDone(c) ==
  /\ pc[c] = "wait" /\ closed
  /\ Goto(c, "woken")
  /\ UNCHANGED <<session, id, chan, out, expired, handed, reader, closer, pipes, package>>

(* Mutant of ReturnClosed: no second look at the channel. *)
ReturnClosedAtOnce(c) ==
  /\ pc[c] = "woken"
  /\ Return(c, "closed")
  /\ UNCHANGED <<session, id, chan, expired, handed, reader, closer, pipes, package>>

(* The inner select's default: no response came before the session ended. *)
ReturnClosed(c) ==
  /\ pc[c] = "woken" /\ chan[c] = 0
  /\ Return(c, "closed")
  /\ UNCHANGED <<session, id, chan, expired, handed, reader, closer, pipes, package>>

WakeOnDeadline(c) ==
  /\ pc[c] = "wait" /\ c \in expired
  /\ Goto(c, "forget")
  /\ out' = [out EXCEPT ![c] = "timeout"]
  /\ UNCHANGED <<session, id, chan, expired, handed, reader, closer, pipes, package>>

(* Mutants of Forget: nothing is deleted; the newest id is. *)
ForgetNothing(c) ==
  /\ pc[c] = "forget"
  /\ Goto(c, "done")
  /\ UNCHANGED <<session, id, chan, out, expired, handed, reader, closer, pipes, package>>

ForgetNewest(c) ==
  /\ pc[c] = "forget"
  /\ pending' = [pending EXCEPT ![next] = Nobody]
  /\ Goto(c, "done")
  /\ UNCHANGED <<next, closed, eof, wmu, id, chan, out, expired, handed,
                 reader, closer, pipes, package>>

(* A failed write and a passed deadline unregister the call. *)
Forget(c) ==
  /\ pc[c] = "forget"
  /\ pending' = [pending EXCEPT ![id[c]] = Nobody]
  /\ Goto(c, "done")
  /\ UNCHANGED <<next, closed, eof, wmu, id, chan, out, expired, handed,
                 reader, closer, pipes, package>>

-----------------------------------------------------------------------------
(* The reader. *)

ReadFrame(m) ==
  /\ rpc = "read" /\ hand = NoHand /\ ~reaped
  /\ stdout # <<>> /\ m = Head(stdout)
  /\ stdout' = Tail(stdout)

(* Mutant of HandleResponse: the entry outlives the response it was for. *)
HandleKeepsEntry(i) ==
  /\ ReadFrame(Response(i))
  /\ hand' = IF pending[i] = Nobody THEN NoHand ELSE [to |-> pending[i], id |-> i]
  /\ UNCHANGED <<session, callers, rpc, closer, stdin, stdinOpen, package>>

(* A response claims its channel: the entry is gone before the send. *)
HandleResponse(i) ==
  /\ ReadFrame(Response(i))
  /\ pending' = [pending EXCEPT ![i] = Nobody]
  /\ hand' = IF pending[i] = Nobody THEN NoHand ELSE [to |-> pending[i], id |-> i]
  /\ UNCHANGED <<next, closed, eof, wmu, callers, rpc, closer, stdin,
                 stdinOpen, package>>

(* Mutants of HandleRequest: the reader answers itself, or nobody does. *)
HandleInline(r) ==
  /\ ReadFrame(Request(r))
  /\ wmu = Nobody /\ stdin < PipeCap
  /\ stdin' = stdin + 1
  /\ Goto(r, "done")
  /\ UNCHANGED <<session, id, chan, out, expired, handed, reader, closer,
                 stdinOpen, package>>

HandleNotAtAll(r) ==
  /\ ReadFrame(Request(r))
  /\ UNCHANGED <<session, callers, reader, closer, stdin, stdinOpen, package>>

(* A request is answered from a goroutine of its own. *)
HandleRequest(r) ==
  /\ ReadFrame(Request(r))
  /\ Goto(r, "lock")
  /\ UNCHANGED <<session, id, chan, out, expired, handed, reader, closer,
                 stdin, stdinOpen, package>>

(* Not JSON, or a notification. *)
SkipFrame ==
  /\ ReadFrame(Noise)
  /\ UNCHANGED <<session, callers, reader, closer, stdin, stdinOpen, package>>

(* ch <- m, outside the lock; it blocks on a full channel. *)
Deliver ==
  /\ hand # NoHand
  /\ chan[hand.to] = 0
  /\ chan' = [chan EXCEPT ![hand.to] = hand.id]
  /\ handed' = [handed EXCEPT ![hand.to] = IF closed THEN "late" ELSE "prompt"]
  /\ hand' = NoHand
  /\ UNCHANGED <<session, pc, id, out, expired, rpc, closer, pipes, package>>

Shut ==
  /\ closed' = TRUE
  /\ pending' = IF closed THEN pending ELSE [i \in Ids |-> Nobody]

(* The end of stdout, or a read of a pipe Wait has closed. *)
StreamEnd ==
  /\ rpc = "read" /\ hand = NoHand
  /\ reaped \/ (pkg = "gone" /\ stdout = <<>>)
  /\ eof' = TRUE
  /\ rpc' = "ended"
  /\ UNCHANGED <<next, pending, closed, wmu, callers, hand, closer, pipes, package>>

ReaderShut ==
  /\ rpc = "ended"
  /\ Shut
  /\ rpc' = "stopped"
  /\ UNCHANGED <<next, eof, wmu, callers, hand, closer, pipes, package>>

(* Close: shut, then close the package's stdin. *)
CloseShut ==
  /\ closer = "open"
  /\ Shut
  /\ closer' = "shut"
  /\ UNCHANGED <<next, eof, wmu, callers, reader, pipes, package>>

(* Mutant of CloseStdin: the pipe stays open. *)
CloseWithoutStdin ==
  /\ closer = "shut"
  /\ closer' = "closed"
  /\ UNCHANGED <<session, callers, reader, pipes, package>>

CloseStdin ==
  /\ closer = "shut"
  /\ stdinOpen' = FALSE
  /\ closer' = "closed"
  /\ UNCHANGED <<session, callers, reader, stdin, stdout, package>>

-----------------------------------------------------------------------------
(* The package, and the goroutine that waits for it. *)

Say(m) ==
  /\ pkg = "up" /\ said < MaxOut /\ Len(stdout) < PipeCap
  /\ stdout' = Append(stdout, m)
  /\ said' = said + 1
  /\ UNCHANGED <<session, callers, reader, closer, stdin, stdinOpen, pkg, reaped>>

Answer(i) == Say(Response(i)) /\ UNCHANGED asked

Ask(r) == r \notin asked /\ Say(Request(r)) /\ asked' = asked \union {r}

Chatter == Say(Noise) /\ UNCHANGED asked

ReadStdin ==
  /\ pkg = "up" /\ stdin > 0
  /\ stdin' = stdin - 1
  /\ UNCHANGED <<session, callers, reader, closer, stdout, stdinOpen, package>>

Exit ==
  /\ pkg = "up"
  /\ pkg' = "gone"
  /\ stdin' = 0
  /\ UNCHANGED <<session, callers, reader, closer, stdout, stdinOpen, reaped,
                 said, asked>>

(* cmd.Wait returns and closes the host's ends of both pipes. *)
Reap ==
  /\ pkg = "gone" /\ ~reaped
  /\ reaped' = TRUE
  /\ stdinOpen' = FALSE
  /\ UNCHANGED <<session, callers, reader, closer, stdin, stdout, pkg, said, asked>>

-----------------------------------------------------------------------------
Write(w) == WriteOk(w) \/ WriteFail(w)

Select(c) == TakeAnswer(c) \/ WakeOnDone(c) \/ ReturnClosed(c) \/ WakeOnDeadline(c)

CallStep(c) == RefuseCall(c) \/ Register(c) \/ Expire(c) \/ Select(c) \/ Forget(c)

Read ==
  \/ \E i \in Ids : HandleResponse(i)
  \/ \E r \in SrvReqs : HandleRequest(r)
  \/ SkipFrame \/ Deliver \/ StreamEnd \/ ReaderShut

Package ==
  \/ \E i \in Ids : Answer(i)
  \/ \E r \in SrvReqs : Ask(r)
  \/ Chatter \/ ReadStdin \/ Exit \/ Reap

Next ==
  \/ \E c \in Calls : CallStep(c)
  \/ \E n \in Notes : Notify(n)
  \/ \E w \in Writers : Lock(w) \/ Write(w)
  \/ Read \/ CloseShut \/ CloseStdin
  \/ Package

Spec == Init /\ [][Next]_vars

(***************************************************************************)
(* Fairness of the session's own goroutines: a runnable goroutine runs     *)
(* (weak), a waiter for the write lock gets it if it keeps being freed     *)
(* (strong: sync.Mutex hands a starved waiter the lock), a deadline        *)
(* passes.  Nothing is assumed of callers, of Close or of the package.     *)
(***************************************************************************)
SessionFairness ==
  /\ \A c \in Calls : WF_vars(Expire(c)) /\ WF_vars(Select(c)) /\ WF_vars(Forget(c))
  /\ \A w \in Writers : SF_vars(Lock(w)) /\ WF_vars(Write(w))
  /\ WF_vars(Read) /\ WF_vars(CloseStdin)

FairSpec == Spec /\ SessionFairness

(* What the package may do for its part: keep reading its stdin while it     *)
(* runs.  A property that needs it says so.                                  *)
KeepsReading == WF_vars(ReadStdin)

-----------------------------------------------------------------------------
PCs      == {"idle", "lock", "write", "wait", "woken", "forget", "done"}
Outcomes == {"none", "ok", "closed", "timeout", "broken"}

(* Every variable has its type. *)
TypeOK ==
  /\ next \in 0..MaxId
  /\ pending \in [Ids -> Calls \union {Nobody}]
  /\ closed \in BOOLEAN /\ eof \in BOOLEAN
  /\ wmu \in Writers \union {Nobody}
  /\ pc \in [Writers -> PCs]
  /\ id \in [Calls -> 0..MaxId] /\ chan \in [Calls -> 0..MaxId]
  /\ out \in [Calls -> Outcomes] /\ expired \subseteq Calls
  /\ handed \in [Calls -> {"no", "prompt", "late"}]
  /\ rpc \in {"read", "ended", "stopped"}
  /\ hand \in {NoHand} \union [to : Calls, id : Ids]
  /\ closer \in {"open", "shut", "closed"}
  /\ pkg \in {"up", "gone"} /\ stdin \in 0..PipeCap
  /\ stdout \in Seq(Frames) /\ stdinOpen \in BOOLEAN
  /\ reaped \in BOOLEAN /\ said \in 0..MaxOut /\ asked \subseteq SrvReqs

(* The reader's send never blocks, whatever the package answers and however  *)
(* often: handle gives a channel of capacity 1 at most one response          *)
(* (probe.go:178-185).                                                       *)
ReaderNeverBlocks == hand # NoHand => chan[hand.to] = 0

(* A call can only receive the response to its own request (probe.go:        *)
(* 180, 253-257): ids are not shared, and a channel holds its call's id.     *)
OwnAnswer ==
  /\ \A c \in Calls : chan[c] # 0 => chan[c] = id[c]
  /\ \A c, d \in Calls : c # d /\ id[c] = id[d] => id[c] = 0

(* A call that has returned has left no entry behind in pending, on any of   *)
(* its return paths (probe.go:264-288).                                      *)
NoLeakedEntry ==
  \A i \in Ids : pending[i] # Nobody => pc[pending[i]] # "done"

(* A call waiting on an open session is never forgotten: it is registered    *)
(* under its id, or its response is in the reader's hands or its channel.    *)
NeverOrphaned ==
  \A c \in Calls : pc[c] \in {"lock", "write", "wait"} /\ ~closed =>
     \/ pending[id[c]] = c
     \/ hand.to = c
     \/ chan[c] # 0

(* A response put in the channel before the session ended wins over the      *)
(* session's end, whichever case of the select fires (probe.go:273-279).     *)
PromptAnswerWins ==
  \A c \in Calls : handed[c] = "prompt" => out[c] # "closed"

Underway(c) == pc[c] \notin {"idle", "done"}

(* Every call on a package that keeps reading its stdin returns.             *)
CallsReturn == KeepsReading => \A c \in Calls : Underway(c) ~> pc[c] = "done"

(* A call returns once its deadline has passed (smoke.go:352-358).           *)
DeadlineHonoured == \A c \in Calls : c \in expired ~> pc[c] = "done"

(* Close unblocks every goroutine, a writer stuck on a full pipe included.   *)
CloseUnblocks == (closer # "open") ~> \A w \in Writers : ~Underway(w)

(* The reader empties stdout even when the package never reads its stdin     *)
(* (probe.go:192-195): a package stuck writing to stdout gets going again.   *)
StdoutDrains == (Len(stdout) = PipeCap) ~> (reaped \/ Len(stdout) < PipeCap)

(* The request of a package that keeps reading its stdin is answered         *)
(* (probe.go:186-195), so a server waiting on its answer does not hang.      *)
RequestsAnswered ==
  KeepsReading => \A r \in SrvReqs : r \in asked ~> (pc[r] = "done" \/ reaped)

(* What the session promises, with pc and out seen as one phase. *)
Phase(c) == IF pc[c] \in {"idle", "done"} THEN
              IF pc[c] = "idle" THEN "idle" ELSE out[c]
            ELSE "active"

Contract == INSTANCE SessionContract
              WITH phase <- [c \in Calls |-> Phase(c)], over <- closed

ContractSpec == Contract!Spec

=============================================================================
