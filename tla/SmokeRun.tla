------------------------------ MODULE SmokeRun ------------------------------
(***************************************************************************)
(* One smoke run of a package (Run in internal/smoke/smoke.go): the probe  *)
(* of the MCP session, the watch for a package that leaves on its own, the *)
(* shutdown, the proxy's log, the snapshot and the verdict.  The package,  *)
(* docker's report of its exit, the session's reader, the proxy and the    *)
(* user's interrupt take their steps between any two of Run's.             *)
(*                                                                         *)
(* A call is abstracted to what StdioSession shows of it: an answer sent   *)
(* before the stream ended is returned, and a call returns by its deadline *)
(* unless the package leaves its request unread.                           *)
(***************************************************************************)
EXTENDS Naturals

CONSTANT MaxPages  \* maxPages (smoke.go:471): the pages of one tools/list

ASSUME RunAssumption == MaxPages \in Nat \ {0}

Methods == {"initialize", "tools", "resources", "prompts"}
Codes   == {"0", "1", "143", "137", "lost"}  \* docker run's exit statuses

VARIABLES
  \* what is run: the package's transport, smoke's mode and flags, and
  \* whether the package reads all that is sent to it
  transport, full, write, reads,
  \* Run: where it is, the call under way, tools/list pages read, whether
  \* rep.fail was called, the snapshot taken, what it wrote over the
  \* committed one, the verdict
  pc, method, page, failed, snap, written, verdict,
  \* the package: its exit status once dead, its answer to the call under
  \* way, the capabilities it declared, whether it closed its stdout
  code, reply, caps, closed,
  \* the ends of the session and the process as Run gets to see them: the
  \* reader's eof channel, the exited channel, the shutdown's steps so far:
  \* stdin closed, docker stop called, SIGTERM sent
  eof, exited, told,
  \* a dial of a host the manifest does not declare, and the user
  dial, cancelled,
  \* blame: who gave cause for a failure
  blame

input   == <<transport, full, write, reads>>
report  == <<failed, snap, written, verdict>>
package == <<code, reply, caps, closed>>
ends    == <<eof, exited, told>>
world   == <<dial, cancelled>>
vars    == <<input, pc, method, page, report, package, ends, world, blame>>

Init ==
  /\ transport \in {"stdio", "http"}
  /\ full \in BOOLEAN /\ reads \in BOOLEAN
  /\ write \in {FALSE, full}   \* the flag is looked at in full mode alone
  /\ pc = IF transport = "http" THEN "connect" ELSE "call"
  /\ method = "initialize" /\ page = 0
  /\ failed = FALSE /\ snap = "none" /\ written = "no" /\ verdict = "none"
  /\ code = "alive" /\ reply = "none" /\ caps = {} /\ closed = FALSE
  /\ eof = FALSE /\ exited = "empty" /\ told = {}
  /\ dial = "none" /\ cancelled = FALSE
  /\ blame = {}

Alive == code = "alive"

-----------------------------------------------------------------------------
(* The probe.                                                                *)

(* The calls still to make after m: an undeclared capability is not listed.  *)
After(m) ==
  CASE m = "initialize" -> IF full THEN "tools" ELSE "none"
    [] m = "tools" /\ "resources" \in caps     -> "resources"
    [] m \in {"tools", "resources"}
         /\ "prompts" \in caps                 -> "prompts"
    [] OTHER                                   -> "none"

Proceed(m) ==
  IF m = "none" THEN pc' = "watch" /\ UNCHANGED method
                ELSE pc' = "call" /\ method' = m

(* An http package is waited for until initialize's deadline.                *)
WaitSocket ==
  /\ pc = "connect"
  /\ \/ /\ Alive /\ ~cancelled
        /\ pc' = "call" /\ UNCHANGED <<failed, blame>>
     \/ /\ pc' = "watch" /\ failed' = TRUE
        /\ blame' = IF cancelled THEN blame ELSE blame \union {"package"}
  /\ UNCHANGED <<input, method, page, snap, written, verdict, package, ends, world>>

(* A result the probe can use.  After initialize comes the notification,     *)
(* which ends full mode's first half and initialize-only mode.               *)
CallAnswered ==
  /\ pc = "call" /\ reply = "ok"
  /\ reply' = "none"
  /\ snap' \in IF method = "tools" THEN {"same", "drift"} ELSE {snap}
  /\ caps' \in IF method = "initialize" THEN SUBSET {"resources", "prompts"} ELSE {caps}
  /\ IF method = "initialize" THEN pc' = "notify" /\ UNCHANGED method
                              ELSE Proceed(After(method))
  /\ UNCHANGED <<input, page, failed, written, verdict, code, closed, ends, world, blame>>

(* Mutant of CallFaulted: what is wrong is not recorded. *)
CallFaultedQuietly ==
  /\ pc = "call" /\ reply = "faulty"
  /\ reply' = "none"
  /\ caps' \in IF method = "initialize" THEN SUBSET {"resources", "prompts"} ELSE {caps}
  /\ IF method = "initialize" THEN pc' = "notify" /\ UNCHANGED method
                              ELSE Proceed(After(method))
  /\ UNCHANGED <<input, page, report, code, closed, ends, world, blame>>

(* A result with something wrong in it: a protocol version out of range, no  *)
(* tools, a schema that does not compile.  The probe records it and goes on. *)
CallFaulted ==
  /\ pc = "call" /\ reply = "faulty"
  /\ reply' = "none" /\ failed' = TRUE
  /\ caps' \in IF method = "initialize" THEN SUBSET {"resources", "prompts"} ELSE {caps}
  /\ IF method = "initialize" THEN pc' = "notify" /\ UNCHANGED method
                              ELSE Proceed(After(method))
  /\ UNCHANGED <<input, page, snap, written, verdict, code, closed, ends, world, blame>>

(* Mutant of NextPage: one page more than maxPages is asked for. *)
NextPageOneMore ==
  /\ pc = "call" /\ method = "tools" /\ reply = "more"
  /\ reply' = "none" /\ page' = page + 1
  /\ IF page' <= MaxPages THEN UNCHANGED <<pc, failed>>
                          ELSE pc' = "watch" /\ failed' = TRUE
  /\ UNCHANGED <<input, method, snap, written, verdict, code, caps, closed, ends, world, blame>>

(* One more page of tools/list, or one too many.                             *)
NextPage ==
  /\ pc = "call" /\ method = "tools" /\ reply = "more"
  /\ reply' = "none" /\ page' = page + 1
  /\ IF page' < MaxPages THEN UNCHANGED <<pc, failed>>
                         ELSE pc' = "watch" /\ failed' = TRUE
  /\ UNCHANGED <<input, method, snap, written, verdict, code, caps, closed, ends, world, blame>>

(* An error or a result that does not decode, no answer in time, or an       *)
(* interrupt: after resources/list comes prompts/list all the same, after    *)
(* the others the probe is over.                                             *)
GoOn == Proceed(IF method \in {"resources", "prompts"} THEN After(method) ELSE "none")

CallRefused ==
  /\ pc = "call" /\ reply = "refused"
  /\ reply' = "none" /\ failed' = TRUE /\ GoOn
  /\ UNCHANGED <<input, page, snap, written, verdict, code, caps, closed, ends, world, blame>>

CallExpires ==
  /\ pc = "call"
  /\ reply' = "none" /\ failed' = TRUE /\ GoOn
  /\ blame' = IF cancelled THEN blame ELSE blame \union {"package"}
  /\ UNCHANGED <<input, page, snap, written, verdict, code, caps, closed, ends, world>>

(* callFailed with ErrSessionClosed: stdio's stream ended unanswered, or was *)
(* cut off by Wait once docker run had exited (StdioSession, ReaderShut), or *)
(* the body of an http answer ended short.                                   *)
CallClosed ==
  /\ pc = "call"
  /\ IF transport = "stdio" THEN eof /\ (reply = "none" \/ exited # "empty")
                            ELSE closed /\ reply = "none"
  /\ failed' = TRUE /\ pc' = "early"
  /\ UNCHANGED <<input, method, page, snap, written, verdict, package, ends, world, blame>>

(* notifications/initialized has no deadline of its own; it fails if the     *)
(* package is gone, refuses it, or the run is interrupted.                   *)
Notify ==
  /\ pc = "notify"
  /\ \/ /\ transport = "stdio" \/ (Alive /\ ~cancelled)
        /\ UNCHANGED <<failed, blame>>
     \/ /\ failed' = TRUE
        /\ blame' = IF cancelled THEN blame ELSE blame \union {"package"}
  /\ Proceed(After("initialize"))
  /\ UNCHANGED <<input, page, snap, written, verdict, package, ends, world>>

-----------------------------------------------------------------------------
(* The watch, early exit and shutdown.                                       *)

TakeExit == exited \in Codes /\ exited' = "taken"

Fail(who) == failed' = TRUE /\ blame' = blame \union who

Watch ==
  /\ pc = "watch"
  /\ \/ transport = "stdio" /\ eof /\ pc' = "early" /\ UNCHANGED <<failed, exited>>
     \/ TakeExit /\ failed' = TRUE /\ pc' = "log"
     \/ pc' = "close" /\ UNCHANGED <<failed, exited>>     \* settle
  /\ UNCHANGED <<input, method, page, snap, written, verdict, package, eof, told, world, blame>>

EarlyExit ==
  /\ pc = "early" /\ pc' = "log"
  /\ \/ TakeExit /\ Fail({})
     \/ Fail({IF Alive THEN "package" ELSE "host"}) /\ UNCHANGED exited   \* exitWait
  /\ UNCHANGED <<input, method, page, snap, written, verdict, package, eof, told, world>>

(* Close gives a stdio package EOF on its stdin.                             *)
CloseSession ==
  /\ pc = "close"
  /\ IF transport = "stdio" THEN pc' = "grace" /\ told' = told \union {"eof"}
                            ELSE pc' = "stop" /\ UNCHANGED told
  /\ UNCHANGED <<input, method, page, report, package, eof, exited, world, blame>>

StdinGrace ==
  /\ pc = "grace"
  /\ \/ TakeExit /\ failed' = (failed \/ exited # "0") /\ pc' = "log"
     \/ pc' = "stop" /\ UNCHANGED <<failed, exited>>
  /\ UNCHANGED <<input, method, page, snap, written, verdict, package, eof, told, world, blame>>

(* docker stop: a container that is gone is no failure; an interrupted run's *)
(* docker stop fails, with or without its signal sent.                       *)
Stop ==
  /\ pc = "stop"
  /\ \/ /\ ~Alive
        /\ pc' = "await" /\ told' = told \union {"stop"}
        /\ UNCHANGED <<failed, blame>>
     \/ /\ Alive /\ ~cancelled
        /\ pc' = "stopping" /\ told' = told \union {"stop", "term"}
        /\ UNCHANGED <<failed, blame>>
     \/ /\ Fail(IF cancelled THEN {} ELSE {"host"})
        /\ told' \in {told \union {"stop"}, told \union {"stop", "term"}}
        /\ pc' = "await"
  /\ UNCHANGED <<input, method, page, snap, written, verdict, package, eof, exited, world>>

(* docker stop returns: the package died of SIGTERM, or docker killed it.    *)
Stopped ==
  /\ pc = "stopping"
  /\ \/ ~Alive /\ pc' = "await" /\ UNCHANGED <<failed, code, blame>>
     \/ /\ Alive /\ code' = "137" /\ blame' = blame \union {"package"}
        /\ pc' = "await" /\ UNCHANGED failed
     \/ cancelled /\ failed' = TRUE /\ pc' = "await" /\ UNCHANGED <<code, blame>>
  /\ UNCHANGED <<input, method, page, snap, written, verdict, reply, caps, closed, ends, world>>

(* Mutants of Await: a kill passes; the asked-for death fails; no exitWait. *)
AwaitKill ==
  /\ pc = "await" /\ pc' = "log"
  /\ \/ TakeExit /\ failed' = (failed \/ exited \notin {"0", "143", "137"}) /\ UNCHANGED blame
     \/ Fail({IF Alive /\ "term" \in told THEN "package" ELSE "host"}) /\ UNCHANGED exited
  /\ UNCHANGED <<input, method, page, snap, written, verdict, package, eof, told, world>>

AwaitZero ==
  /\ pc = "await" /\ pc' = "log"
  /\ \/ TakeExit /\ failed' = (failed \/ exited # "0") /\ UNCHANGED blame
     \/ Fail({IF Alive /\ "term" \in told THEN "package" ELSE "host"}) /\ UNCHANGED exited
  /\ UNCHANGED <<input, method, page, snap, written, verdict, package, eof, told, world>>

AwaitForever ==
  /\ pc = "await" /\ pc' = "log"
  /\ TakeExit /\ failed' = (failed \/ exited \notin {"0", "143"})
  /\ UNCHANGED <<input, method, page, snap, written, verdict, package, eof, told, world, blame>>

Await ==
  /\ pc = "await" /\ pc' = "log"
  /\ \/ TakeExit /\ failed' = (failed \/ exited \notin {"0", "143"}) /\ UNCHANGED blame
     \/ Fail({IF Alive /\ "term" \in told THEN "package" ELSE "host"})
        /\ UNCHANGED exited   \* exitWait
  /\ UNCHANGED <<input, method, page, snap, written, verdict, package, eof, told, world>>

-----------------------------------------------------------------------------
(* The verdict.                                                              *)

(* A log that cannot be read ends the run with an error and no verdict.      *)
ReadProxyLog ==
  /\ pc = "log"
  /\ \/ pc' = "snapshot" /\ failed' = (failed \/ dial = "logged")
     \/ pc' = "done" /\ UNCHANGED failed
  /\ UNCHANGED <<input, method, page, snap, written, verdict, package, ends, world, blame>>

(* Mutant of WriteSnapshot: the failures so far are not looked at. *)
WriteSnapshotAnyway ==
  \/ written' = "new" /\ UNCHANGED <<failed, blame>>
  \/ written' \in {"no", "torn"} /\ Fail({"host"})

(* checkSnapshot, then the verdict.  os.WriteFile truncates the committed    *)
(* file before it writes; failing, it leaves it as it was or torn.           *)
WriteSnapshot ==
  IF failed THEN UNCHANGED <<failed, written, blame>>
            ELSE \/ written' = "new" /\ UNCHANGED <<failed, blame>>
                 \/ written' \in {"no", "torn"} /\ Fail({"host"})

(* A committed file that cannot be read fails the run too.                   *)
CompareSnapshot ==
  /\ UNCHANGED written
  /\ \/ snap = "same" /\ UNCHANGED <<failed, blame>>
     \/ snap = "drift" /\ Fail({"package"})
     \/ Fail({"host"})

CheckSnapshot ==
  /\ pc = "snapshot" /\ pc' = "done"
  /\ IF ~full \/ snap = "none" THEN UNCHANGED <<failed, written, blame>>
     ELSE IF write THEN WriteSnapshot ELSE CompareSnapshot
  /\ verdict' = IF failed' THEN "fail" ELSE "pass"
  /\ UNCHANGED <<input, method, page, snap, package, ends, world>>

-----------------------------------------------------------------------------
(* The package.                                                              *)

Reply ==
  /\ Alive /\ pc = "call" /\ reply = "none" /\ ~closed
  /\ reply' \in {"ok", "faulty", "refused"} \union
                (IF method = "tools" THEN {"more"} ELSE {})
  /\ blame' = IF reply' \in {"faulty", "refused"} \/ (reply' = "more" /\ page + 1 = MaxPages)
              THEN blame \union {"package"} ELSE blame
  /\ UNCHANGED <<input, pc, method, page, report, code, caps, closed, ends, world>>

(* It closes its stdout, or ends the body of an http answer, and lives on.   *)
CloseOutput ==
  /\ Alive /\ ~closed /\ closed' = TRUE
  /\ transport = "http" => pc = "call" /\ reply = "none"
  /\ blame' = IF "eof" \in told THEN blame ELSE blame \union {"package"}
  /\ UNCHANGED <<input, pc, method, page, report, code, reply, caps, ends, world>>

(* It exits, at any time and with any status: a shell wrapper may report a   *)
(* child's 143 with no SIGTERM sent, and the kernel may kill it (137).  What  *)
(* smoke asked for is an exit with 0, or by the SIGTERM it sent.             *)
PackageExits ==
  /\ Alive /\ code' \in Codes \ {"lost"}
  /\ blame' = IF \/ told # {} /\ code' = "0"
                 \/ "term" \in told /\ code' = "143"
              THEN blame ELSE blame \union {"package"}
  /\ UNCHANGED <<input, pc, method, page, report, reply, caps, closed, ends, world>>

DialDenied ==
  /\ Alive /\ dial = "none" /\ dial' = "sent"
  /\ blame' = blame \union {"package"}
  /\ UNCHANGED <<input, pc, method, page, report, package, ends, cancelled>>

-----------------------------------------------------------------------------
(* The proxy, the reader, docker and the user.                               *)

(* logAttempt; an error of the log's Write is dropped (proxy.go:162).        *)
LogAttempt ==
  /\ dial = "sent" /\ dial' \in {"logged", "lost"}
  /\ UNCHANGED <<input, pc, method, page, report, package, ends, cancelled, blame>>

(* The reader meets the end of stdout: all that was answered has been read.  *)
StreamEnds ==
  /\ transport = "stdio" /\ ~eof /\ eof' = TRUE
  /\ ~Alive \/ closed \/ exited # "empty"
  /\ UNCHANGED <<input, pc, method, page, report, package, exited, told, world, blame>>

(* docker run reports the package's exit.                                    *)
Reap ==
  /\ ~Alive /\ exited = "empty" /\ exited' = code
  /\ UNCHANGED <<input, pc, method, page, report, package, eof, told, world, blame>>

(* docker run ends without it: it broke down, or the interrupt killed it.    *)
LoseDockerRun ==
  /\ exited = "empty" /\ exited' = "lost"
  /\ told' = IF transport = "stdio" THEN told \union {"eof"} ELSE told
  /\ blame' = IF cancelled THEN blame ELSE blame \union {"host"}
  /\ UNCHANGED <<input, pc, method, page, report, package, eof, world>>

Interrupt ==
  /\ ~cancelled /\ cancelled' = TRUE
  /\ pc # "done"
  /\ blame' = blame \union {"user"}
  /\ UNCHANGED <<input, pc, method, page, report, package, ends, dial>>

-----------------------------------------------------------------------------
Call == CallAnswered \/ CallFaulted \/ NextPage \/ CallRefused \/ CallExpires \/ CallClosed

Shutdown == CloseSession \/ StdinGrace \/ Stop \/ Stopped \/ Await

Run == \/ WaitSocket \/ Call \/ Notify
       \/ Watch \/ EarlyExit \/ Shutdown
       \/ ReadProxyLog \/ CheckSnapshot

Package == Reply \/ CloseOutput \/ PackageExits \/ DialDenied

World == LogAttempt \/ StreamEnds \/ Reap \/ LoseDockerRun \/ Interrupt

Next == Run \/ Package \/ World

Spec == Init /\ [][Next]_vars

(* Run's goroutine and its timers run.  A call over stdio returns if the     *)
(* package reads what it is sent (StdioSession), and a notification over     *)
(* http if the package answers it.                                           *)
Returns == reads \/ ~Alive \/ (transport = "http" /\ pc = "call")

FairSpec == Spec /\ WF_vars(Run /\ (pc \in {"call", "notify"} => Returns))

-----------------------------------------------------------------------------
TypeOK ==
  /\ transport \in {"stdio", "http"}
  /\ full \in BOOLEAN /\ write \in BOOLEAN /\ reads \in BOOLEAN
  /\ pc \in {"connect", "call", "notify", "watch", "early", "close", "grace",
             "stop", "stopping", "await", "log", "snapshot", "done"}
  /\ method \in Methods /\ page \in 0 .. MaxPages
  /\ failed \in BOOLEAN /\ snap \in {"none", "same", "drift"}
  /\ written \in {"no", "new", "torn"} /\ verdict \in {"none", "pass", "fail"}
  /\ code \in {"alive"} \union (Codes \ {"lost"})
  /\ reply \in {"none", "ok", "faulty", "more", "refused"}
  /\ caps \subseteq {"resources", "prompts"} /\ closed \in BOOLEAN
  /\ eof \in BOOLEAN /\ exited \in Codes \union {"empty", "taken"}
  /\ told \subseteq {"eof", "stop", "term"}
  /\ dial \in {"none", "sent", "logged", "lost"} /\ cancelled \in BOOLEAN
  /\ blame \subseteq {"package", "host", "user"}

(* A package that passes is gone and docker reported its exit, with status 0 *)
(* or, once docker stop was called, 143 (smoke.go:605-642): no other status  *)
(* passes, a 143 when stdin closed does not, and no exit of docker run alone.*)
PassIsCleanExit ==
  verdict = "pass" => /\ exited = "taken"
                      /\ code = "0" \/ (code = "143" /\ "stop" \in told)

(* A full run passes only over a snapshot it took, equal to the committed    *)
(* one or just written in its place.  A run that does not pass leaves the    *)
(* committed one as it was, or torn where the write itself failed            *)
(* (smoke.go:245-248, 579-603).                                              *)
PassIsCompared ==
  /\ verdict = "pass" /\ full => IF write THEN written = "new" ELSE snap = "same"
  /\ written = "new" => verdict = "pass"
  /\ written = "torn" => verdict = "fail" /\ "host" \in blame

(* No run fails without someone having given cause: a stop of a package that *)
(* has just exited, or the death it asked for, is none (smoke.go:623-625).   *)
FailHasCause == verdict = "fail" => blame # {}

(* Every run returns if the package reads what it is sent (smoke.go:52-59).  *)
RunReturns == reads => <>(pc = "done")

=============================================================================
