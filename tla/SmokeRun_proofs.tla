-------------------------- MODULE SmokeRun_proofs --------------------------
(* Proofs about the verdict of a smoke run, for any bound on the pages of  *)
(* tools/list.                                                             *)
EXTENDS SmokeRun, TLAPS

(* Where Run is before it has asked the package to go, and before it has   *)
(* signalled it.                                                           *)
Unasked    == {"connect", "call", "notify", "watch", "early", "close"}
Unsignaled == Unasked \union {"grace"}
Probing    == {"connect", "call", "notify"}
Exited     == {"log", "snapshot", "done"}

(* What order Run's steps come in. *)
InOrder ==
  /\ pc \in Probing => page < MaxPages
  /\ pc \in Unsignaled => {"stop", "term"} \cap told = {}
  /\ pc \in {"stopping", "await"} => "stop" \in told
  /\ verdict # "none" => pc = "done" /\ (verdict = "fail" <=> failed)

(* docker's report is of the package's own exit, or is lost. *)
ExitFits == exited \in Codes \ {"lost"} => exited = code

(* Everything Run may come to call a failure has a cause by then.  Until   *)
(* the package is asked to go, any sign of its end is one.                 *)
Caused ==
  /\ failed => blame # {}
  /\ cancelled => blame # {}
  /\ code \in {"1", "137"} => blame # {}
  /\ code = "143" /\ "term" \notin told => blame # {}
  /\ exited = "lost" => blame # {}
  /\ dial # "none" => blame # {}
  /\ reply \in {"faulty", "refused"} => blame # {}
  /\ reply = "more" /\ page + 1 = MaxPages => blame # {}
  /\ pc \in Unasked /\ (~Alive \/ closed \/ eof \/ exited # "empty" \/ told # {}) => blame # {}

(* A run that got as far as the log without a failure has taken a clean    *)
(* exit from docker.                                                       *)
CleanExit ==
  pc \in Exited /\ ~failed =>
    /\ exited = "taken"
    /\ code = "0" \/ (code = "143" /\ "stop" \in told)

(* A full run that has listed the tools without a failure has a snapshot.  *)
Snapped ==
  full /\ ~failed => snap # "none" \/ (pc \in Probing /\ method \in {"initialize", "tools"})

IInv ==
  /\ TypeOK /\ InOrder /\ ExitFits /\ Caused
  /\ CleanExit /\ Snapped /\ PassIsCompared

-----------------------------------------------------------------------------
(* The probe. *)

LEMMA WaitSocketKeeps ==
  ASSUME IInv, WaitSocket
  PROVE  IInv'
<1>. USE DEF IInv, WaitSocket, Alive, Codes, input, package, ends, world
<1>1. TypeOK'
  <2>1. failed' \in BOOLEAN
    BY Zenon DEF TypeOK
  <2>2. blame' \subseteq {"package", "host", "user"}
    BY DEF TypeOK
  <2>. QED
    BY <2>1, <2>2 DEF TypeOK, Methods
<1>2. InOrder' /\ ExitFits'
  BY DEF TypeOK, InOrder, ExitFits, Unasked, Unsignaled, Probing, Exited
<1>3. Caused'
  BY DEF TypeOK, Caused, InOrder, ExitFits, Unasked, Unsignaled, Probing
<1>4. CleanExit' /\ Snapped' /\ PassIsCompared'
  BY DEF TypeOK, CleanExit, Snapped, PassIsCompared, InOrder, ExitFits,
         Unasked, Unsignaled, Probing, Exited
<1>. QED
  BY <1>1, <1>2, <1>3, <1>4

LEMMA CallAnsweredKeeps ==
  ASSUME IInv, CallAnswered
  PROVE  IInv'
<1>. USE DEF IInv, CallAnswered, Proceed, After, Alive, Codes, input, ends, world
<1>1. TypeOK'
  BY DEF TypeOK, Methods
<1>2. InOrder' /\ ExitFits'
  BY DEF TypeOK, InOrder, ExitFits, Unasked, Unsignaled, Probing, Exited
<1>3. Caused'
  BY DEF TypeOK, Caused, InOrder, ExitFits, Unasked, Unsignaled, Probing
<1>4. CleanExit' /\ Snapped' /\ PassIsCompared'
  BY DEF TypeOK, CleanExit, Snapped, PassIsCompared, InOrder, ExitFits,
         Unasked, Unsignaled, Probing, Exited
<1>. QED
  BY <1>1, <1>2, <1>3, <1>4

LEMMA CallFaultedKeeps ==
  ASSUME IInv, CallFaulted
  PROVE  IInv'
<1>. USE DEF IInv, CallFaulted, Proceed, After, Alive, Codes, input, ends, world
<1>1. TypeOK'
  BY DEF TypeOK, Methods
<1>2. InOrder' /\ ExitFits'
  BY DEF TypeOK, InOrder, ExitFits, Unasked, Unsignaled, Probing, Exited
<1>3. Caused'
  BY DEF TypeOK, Caused, InOrder, ExitFits, Unasked, Unsignaled, Probing
<1>4. CleanExit' /\ Snapped' /\ PassIsCompared'
  BY DEF TypeOK, CleanExit, Snapped, PassIsCompared, InOrder, ExitFits,
         Unasked, Unsignaled, Probing, Exited
<1>. QED
  BY <1>1, <1>2, <1>3, <1>4

LEMMA NextPageKeeps ==
  ASSUME IInv, NextPage
  PROVE  IInv'
<1>. USE DEF IInv, NextPage, Alive, Codes, input, ends, world
<1>1. TypeOK'
  <2>1. failed' \in BOOLEAN
    BY Zenon DEF TypeOK
  <2>. QED
    BY <2>1, RunAssumption DEF TypeOK, Methods, InOrder, Probing
<1>2. InOrder' /\ ExitFits'
  BY DEF TypeOK, InOrder, ExitFits, Unasked, Unsignaled, Probing, Exited
<1>3. Caused'
  BY RunAssumption DEF TypeOK, Caused, InOrder, ExitFits, Unasked, Unsignaled, Probing
<1>4. CleanExit' /\ Snapped' /\ PassIsCompared'
  BY DEF TypeOK, CleanExit, Snapped, PassIsCompared, InOrder, ExitFits,
         Unasked, Unsignaled, Probing, Exited
<1>. QED
  BY <1>1, <1>2, <1>3, <1>4

LEMMA CallRefusedKeeps ==
  ASSUME IInv, CallRefused
  PROVE  IInv'
<1>. USE DEF IInv, CallRefused, GoOn, Proceed, After, Alive, Codes, input, ends, world
<1>1. TypeOK'
  BY DEF TypeOK, Methods
<1>2. InOrder' /\ ExitFits'
  BY DEF TypeOK, InOrder, ExitFits, Unasked, Unsignaled, Probing, Exited
<1>3. Caused'
  BY DEF TypeOK, Caused, InOrder, ExitFits, Unasked, Unsignaled, Probing
<1>4. CleanExit' /\ Snapped' /\ PassIsCompared'
  BY DEF TypeOK, CleanExit, Snapped, PassIsCompared, InOrder, ExitFits,
         Unasked, Unsignaled, Probing, Exited
<1>. QED
  BY <1>1, <1>2, <1>3, <1>4

LEMMA CallExpiresKeeps ==
  ASSUME IInv, CallExpires
  PROVE  IInv'
<1>. USE DEF IInv, CallExpires, GoOn, Proceed, After, Alive, Codes, input, package, ends, world
<1>1. TypeOK'
  BY DEF TypeOK, Methods
<1>2. InOrder' /\ ExitFits'
  BY DEF TypeOK, InOrder, ExitFits, Unasked, Unsignaled, Probing, Exited
<1>3. Caused'
  BY DEF TypeOK, Caused, InOrder, ExitFits, Unasked, Unsignaled, Probing
<1>4. CleanExit' /\ Snapped' /\ PassIsCompared'
  BY DEF TypeOK, CleanExit, Snapped, PassIsCompared, InOrder, ExitFits,
         Unasked, Unsignaled, Probing, Exited
<1>. QED
  BY <1>1, <1>2, <1>3, <1>4

LEMMA CallClosedKeeps ==
  ASSUME IInv, CallClosed
  PROVE  IInv'
<1>. USE DEF IInv, CallClosed, Alive, Codes, input, package, ends, world
<1>1. TypeOK'
  BY DEF TypeOK, Methods
<1>2. InOrder' /\ ExitFits'
  BY DEF TypeOK, InOrder, ExitFits, Unasked, Unsignaled, Probing, Exited
<1>3. Caused'
  BY DEF TypeOK, Caused, InOrder, ExitFits, Unasked, Unsignaled, Probing
<1>4. CleanExit' /\ Snapped' /\ PassIsCompared'
  BY DEF TypeOK, CleanExit, Snapped, PassIsCompared, InOrder, ExitFits,
         Unasked, Unsignaled, Probing, Exited
<1>. QED
  BY <1>1, <1>2, <1>3, <1>4

LEMMA NotifyKeeps ==
  ASSUME IInv, Notify
  PROVE  IInv'
<1>. USE DEF IInv, Notify, Proceed, After, Alive, Codes, input, package, ends, world
<1>1. TypeOK'
  <2>1. failed' \in BOOLEAN
    BY Zenon DEF TypeOK
  <2>. QED
    BY <2>1 DEF TypeOK, Methods
<1>2. InOrder' /\ ExitFits'
  BY DEF TypeOK, InOrder, ExitFits, Unasked, Unsignaled, Probing, Exited
<1>3. Caused'
  BY DEF TypeOK, Caused, InOrder, ExitFits, Unasked, Unsignaled, Probing
<1>4. CleanExit' /\ Snapped' /\ PassIsCompared'
  BY DEF TypeOK, CleanExit, Snapped, PassIsCompared, InOrder, ExitFits,
         Unasked, Unsignaled, Probing, Exited
<1>. QED
  BY <1>1, <1>2, <1>3, <1>4

-----------------------------------------------------------------------------
(* The watch, early exit and shutdown. *)

LEMMA WatchKeeps ==
  ASSUME IInv, Watch
  PROVE  IInv'
<1>. USE DEF IInv, Watch, TakeExit, Alive, Codes, input, package, world
<1>1. TypeOK'
  <2>1. failed' \in BOOLEAN
    BY Zenon DEF TypeOK
  <2>. QED
    BY <2>1 DEF TypeOK, Methods
<1>2. InOrder' /\ ExitFits'
  BY DEF TypeOK, InOrder, ExitFits, Unasked, Unsignaled, Probing, Exited
<1>3. Caused'
  BY DEF TypeOK, Caused, InOrder, ExitFits, Unasked, Unsignaled, Probing
<1>4. CleanExit' /\ Snapped' /\ PassIsCompared'
  BY DEF TypeOK, CleanExit, Snapped, PassIsCompared, InOrder, ExitFits,
         Unasked, Unsignaled, Probing, Exited
<1>. QED
  BY <1>1, <1>2, <1>3, <1>4

LEMMA EarlyExitKeeps ==
  ASSUME IInv, EarlyExit
  PROVE  IInv'
<1>. USE DEF IInv, EarlyExit, TakeExit, Fail, Alive, Codes, input, package, world
<1>1. TypeOK'
  <2>1. failed' \in BOOLEAN
    BY Zenon DEF TypeOK
  <2>2. blame' \subseteq {"package", "host", "user"}
    BY DEF TypeOK
  <2>. QED
    BY <2>1, <2>2 DEF TypeOK, Methods
<1>2. InOrder' /\ ExitFits'
  BY DEF TypeOK, InOrder, ExitFits, Unasked, Unsignaled, Probing, Exited
<1>3. Caused'
  BY DEF TypeOK, Caused, InOrder, ExitFits, Unasked, Unsignaled, Probing
<1>4. CleanExit' /\ Snapped' /\ PassIsCompared'
  BY DEF TypeOK, CleanExit, Snapped, PassIsCompared, InOrder, ExitFits,
         Unasked, Unsignaled, Probing, Exited
<1>. QED
  BY <1>1, <1>2, <1>3, <1>4

LEMMA CloseSessionKeeps ==
  ASSUME IInv, CloseSession
  PROVE  IInv'
<1>. USE DEF IInv, CloseSession, Alive, Codes, input, report, package, world
<1>1. TypeOK'
  <2>1. told' \subseteq {"eof", "stop", "term"}
    BY DEF TypeOK
  <2>. QED
    BY <2>1 DEF TypeOK, Methods
<1>2. InOrder' /\ ExitFits'
  BY DEF TypeOK, InOrder, ExitFits, Unasked, Unsignaled, Probing, Exited
<1>3. Caused'
  BY DEF TypeOK, Caused, InOrder, ExitFits, Unasked, Unsignaled, Probing
<1>4. CleanExit' /\ Snapped' /\ PassIsCompared'
  BY DEF TypeOK, CleanExit, Snapped, PassIsCompared, InOrder, ExitFits,
         Unasked, Unsignaled, Probing, Exited
<1>. QED
  BY <1>1, <1>2, <1>3, <1>4

LEMMA StdinGraceKeeps ==
  ASSUME IInv, StdinGrace
  PROVE  IInv'
<1>. USE DEF IInv, StdinGrace, TakeExit, Alive, Codes, input, package, world
<1>1. TypeOK'
  <2>1. failed' \in BOOLEAN
    BY Zenon DEF TypeOK
  <2>. QED
    BY <2>1 DEF TypeOK, Methods
<1>2. InOrder' /\ ExitFits'
  BY DEF TypeOK, InOrder, ExitFits, Unasked, Unsignaled, Probing, Exited
<1>3. Caused'
  BY DEF TypeOK, Caused, InOrder, ExitFits, Unasked, Unsignaled, Probing
<1>4. CleanExit' /\ Snapped' /\ PassIsCompared'
  BY DEF TypeOK, CleanExit, Snapped, PassIsCompared, InOrder, ExitFits,
         Unasked, Unsignaled, Probing, Exited
<1>. QED
  BY <1>1, <1>2, <1>3, <1>4

LEMMA StopKeeps ==
  ASSUME IInv, Stop
  PROVE  IInv'
<1>. USE DEF IInv, Stop, Fail, Alive, Codes, input, package, world
<1>1. TypeOK'
  <2>1. failed' \in BOOLEAN
    BY Zenon DEF TypeOK
  <2>2. blame' \subseteq {"package", "host", "user"}
    BY DEF TypeOK
  <2>3. told' \subseteq {"eof", "stop", "term"}
    BY DEF TypeOK
  <2>. QED
    BY <2>1, <2>2, <2>3 DEF TypeOK, Methods
<1>2. InOrder' /\ ExitFits'
  BY DEF TypeOK, InOrder, ExitFits, Unasked, Unsignaled, Probing, Exited
<1>3. Caused'
  BY DEF TypeOK, Caused, InOrder, ExitFits, Unasked, Unsignaled, Probing
<1>4. CleanExit' /\ Snapped' /\ PassIsCompared'
  BY DEF TypeOK, CleanExit, Snapped, PassIsCompared, InOrder, ExitFits,
         Unasked, Unsignaled, Probing, Exited
<1>. QED
  BY <1>1, <1>2, <1>3, <1>4

LEMMA StoppedKeeps ==
  ASSUME IInv, Stopped
  PROVE  IInv'
<1>. USE DEF IInv, Stopped, Alive, Codes, input, package, ends, world
<1>1. TypeOK'
  <2>1. failed' \in BOOLEAN
    BY Zenon DEF TypeOK
  <2>2. blame' \subseteq {"package", "host", "user"}
    BY DEF TypeOK
  <2>. QED
    BY <2>1, <2>2 DEF TypeOK, Methods
<1>2. InOrder' /\ ExitFits'
  BY DEF TypeOK, InOrder, ExitFits, Unasked, Unsignaled, Probing, Exited
<1>3. Caused'
  BY DEF TypeOK, Caused, InOrder, ExitFits, Unasked, Unsignaled, Probing
<1>4. CleanExit' /\ Snapped' /\ PassIsCompared'
  BY DEF TypeOK, CleanExit, Snapped, PassIsCompared, InOrder, ExitFits,
         Unasked, Unsignaled, Probing, Exited
<1>. QED
  BY <1>1, <1>2, <1>3, <1>4

LEMMA AwaitKeeps ==
  ASSUME IInv, Await
  PROVE  IInv'
<1>. USE DEF IInv, Await, TakeExit, Fail, Alive, Codes, input, package, world
<1>1. TypeOK'
  <2>1. failed' \in BOOLEAN
    BY Zenon DEF TypeOK
  <2>2. blame' \subseteq {"package", "host", "user"}
    BY DEF TypeOK
  <2>. QED
    BY <2>1, <2>2 DEF TypeOK, Methods
<1>2. InOrder' /\ ExitFits'
  BY DEF TypeOK, InOrder, ExitFits, Unasked, Unsignaled, Probing, Exited
<1>3. Caused'
  BY DEF TypeOK, Caused, InOrder, ExitFits, Unasked, Unsignaled, Probing
<1>4. CleanExit' /\ Snapped' /\ PassIsCompared'
  BY DEF TypeOK, CleanExit, Snapped, PassIsCompared, InOrder, ExitFits,
         Unasked, Unsignaled, Probing, Exited
<1>. QED
  BY <1>1, <1>2, <1>3, <1>4

-----------------------------------------------------------------------------
(* The verdict. *)

LEMMA ReadProxyLogKeeps ==
  ASSUME IInv, ReadProxyLog
  PROVE  IInv'
<1>. USE DEF IInv, ReadProxyLog, Alive, Codes, input, package, ends, world
<1>1. TypeOK'
  <2>1. failed' \in BOOLEAN
    BY Zenon DEF TypeOK
  <2>. QED
    BY <2>1 DEF TypeOK, Methods
<1>2. InOrder' /\ ExitFits'
  BY DEF TypeOK, InOrder, ExitFits, Unasked, Unsignaled, Probing, Exited
<1>3. Caused'
  BY DEF TypeOK, Caused, InOrder, ExitFits, Unasked, Unsignaled, Probing
<1>4. CleanExit' /\ Snapped' /\ PassIsCompared'
  BY DEF TypeOK, CleanExit, Snapped, PassIsCompared, InOrder, ExitFits,
         Unasked, Unsignaled, Probing, Exited
<1>. QED
  BY <1>1, <1>2, <1>3, <1>4

LEMMA CheckSnapshotKeeps ==
  ASSUME IInv, CheckSnapshot
  PROVE  IInv'
<1>. USE DEF IInv, CheckSnapshot, WriteSnapshot, CompareSnapshot, Fail, Alive, Codes, input, package, ends, world
<1>1. TypeOK'
  <2>1. failed' \in BOOLEAN
    BY Zenon DEF TypeOK
  <2>2. blame' \subseteq {"package", "host", "user"}
    BY DEF TypeOK
  <2>3. written' \in {"no", "new", "torn"}
    BY DEF TypeOK
  <2>. QED
    BY <2>1, <2>2, <2>3 DEF TypeOK, Methods
<1>2. InOrder' /\ ExitFits'
  BY DEF TypeOK, InOrder, ExitFits, Unasked, Unsignaled, Probing, Exited
<1>3. Caused'
  BY DEF TypeOK, Caused, InOrder, ExitFits, Unasked, Unsignaled, Probing
<1>4. CleanExit' /\ Snapped' /\ PassIsCompared'
  BY DEF TypeOK, CleanExit, Snapped, PassIsCompared, InOrder, ExitFits,
         Unasked, Unsignaled, Probing, Exited
<1>. QED
  BY <1>1, <1>2, <1>3, <1>4

-----------------------------------------------------------------------------
(* The package. *)

LEMMA ReplyKeeps ==
  ASSUME IInv, Reply
  PROVE  IInv'
<1>. USE DEF IInv, Reply, Alive, Codes, input, report, package, ends, world
<1>1. TypeOK'
  BY DEF TypeOK, Methods
<1>2. InOrder' /\ ExitFits'
  BY DEF TypeOK, InOrder, ExitFits, Unasked, Unsignaled, Probing, Exited
<1>3. Caused'
  BY DEF TypeOK, Caused, InOrder, ExitFits, Unasked, Unsignaled, Probing
<1>4. CleanExit' /\ Snapped' /\ PassIsCompared'
  BY DEF TypeOK, CleanExit, Snapped, PassIsCompared, InOrder, ExitFits,
         Unasked, Unsignaled, Probing, Exited
<1>. QED
  BY <1>1, <1>2, <1>3, <1>4

LEMMA CloseOutputKeeps ==
  ASSUME IInv, CloseOutput
  PROVE  IInv'
<1>. USE DEF IInv, CloseOutput, Alive, Codes, input, report, package, ends, world
<1>1. TypeOK'
  BY DEF TypeOK, Methods
<1>2. InOrder' /\ ExitFits'
  BY DEF TypeOK, InOrder, ExitFits, Unasked, Unsignaled, Probing, Exited
<1>3. Caused'
  BY DEF TypeOK, Caused, InOrder, ExitFits, Unasked, Unsignaled, Probing
<1>4. CleanExit' /\ Snapped' /\ PassIsCompared'
  BY DEF TypeOK, CleanExit, Snapped, PassIsCompared, InOrder, ExitFits,
         Unasked, Unsignaled, Probing, Exited
<1>. QED
  BY <1>1, <1>2, <1>3, <1>4

LEMMA PackageExitsKeeps ==
  ASSUME IInv, PackageExits
  PROVE  IInv'
<1>. USE DEF IInv, PackageExits, Alive, Codes, input, report, package, ends, world
<1>1. TypeOK'
  BY DEF TypeOK, Methods
<1>2. InOrder' /\ ExitFits'
  BY DEF TypeOK, InOrder, ExitFits, Unasked, Unsignaled, Probing, Exited
<1>3. Caused'
  BY DEF TypeOK, Caused, InOrder, ExitFits, Unasked, Unsignaled, Probing
<1>4. CleanExit' /\ Snapped' /\ PassIsCompared'
  BY DEF TypeOK, CleanExit, Snapped, PassIsCompared, InOrder, ExitFits,
         Unasked, Unsignaled, Probing, Exited
<1>. QED
  BY <1>1, <1>2, <1>3, <1>4

LEMMA DialDeniedKeeps ==
  ASSUME IInv, DialDenied
  PROVE  IInv'
<1>. USE DEF IInv, DialDenied, Alive, Codes, input, report, package, ends
<1>1. TypeOK'
  BY DEF TypeOK, Methods
<1>2. InOrder' /\ ExitFits'
  BY DEF TypeOK, InOrder, ExitFits, Unasked, Unsignaled, Probing, Exited
<1>3. Caused'
  BY DEF TypeOK, Caused, InOrder, ExitFits, Unasked, Unsignaled, Probing
<1>4. CleanExit' /\ Snapped' /\ PassIsCompared'
  BY DEF TypeOK, CleanExit, Snapped, PassIsCompared, InOrder, ExitFits,
         Unasked, Unsignaled, Probing, Exited
<1>. QED
  BY <1>1, <1>2, <1>3, <1>4

-----------------------------------------------------------------------------
(* The proxy, the reader, docker and the user. *)

LEMMA LogAttemptKeeps ==
  ASSUME IInv, LogAttempt
  PROVE  IInv'
<1>. USE DEF IInv, LogAttempt, Alive, Codes, input, report, package, ends
<1>1. TypeOK'
  BY DEF TypeOK, Methods
<1>2. InOrder' /\ ExitFits'
  BY DEF TypeOK, InOrder, ExitFits, Unasked, Unsignaled, Probing, Exited
<1>3. Caused'
  BY DEF TypeOK, Caused, InOrder, ExitFits, Unasked, Unsignaled, Probing
<1>4. CleanExit' /\ Snapped' /\ PassIsCompared'
  BY DEF TypeOK, CleanExit, Snapped, PassIsCompared, InOrder, ExitFits,
         Unasked, Unsignaled, Probing, Exited
<1>. QED
  BY <1>1, <1>2, <1>3, <1>4

LEMMA StreamEndsKeeps ==
  ASSUME IInv, StreamEnds
  PROVE  IInv'
<1>. USE DEF IInv, StreamEnds, Alive, Codes, input, report, package, world
<1>1. TypeOK'
  BY DEF TypeOK, Methods
<1>2. InOrder' /\ ExitFits'
  BY DEF TypeOK, InOrder, ExitFits, Unasked, Unsignaled, Probing, Exited
<1>3. Caused'
  BY DEF TypeOK, Caused, InOrder, ExitFits, Unasked, Unsignaled, Probing
<1>4. CleanExit' /\ Snapped' /\ PassIsCompared'
  BY DEF TypeOK, CleanExit, Snapped, PassIsCompared, InOrder, ExitFits,
         Unasked, Unsignaled, Probing, Exited
<1>. QED
  BY <1>1, <1>2, <1>3, <1>4

LEMMA ReapKeeps ==
  ASSUME IInv, Reap
  PROVE  IInv'
<1>. USE DEF IInv, Reap, Alive, Codes, input, report, package, world
<1>1. TypeOK'
  BY DEF TypeOK, Methods
<1>2. InOrder' /\ ExitFits'
  BY DEF TypeOK, InOrder, ExitFits, Unasked, Unsignaled, Probing, Exited
<1>3. Caused'
  BY DEF TypeOK, Caused, InOrder, ExitFits, Unasked, Unsignaled, Probing
<1>4. CleanExit' /\ Snapped' /\ PassIsCompared'
  BY DEF TypeOK, CleanExit, Snapped, PassIsCompared, InOrder, ExitFits,
         Unasked, Unsignaled, Probing, Exited
<1>. QED
  BY <1>1, <1>2, <1>3, <1>4

LEMMA LoseDockerRunKeeps ==
  ASSUME IInv, LoseDockerRun
  PROVE  IInv'
<1>. USE DEF IInv, LoseDockerRun, Alive, Codes, input, report, package, world
<1>1. TypeOK'
  BY DEF TypeOK, Methods
<1>2. InOrder' /\ ExitFits'
  BY DEF TypeOK, InOrder, ExitFits, Unasked, Unsignaled, Probing, Exited
<1>3. Caused'
  BY DEF TypeOK, Caused, InOrder, ExitFits, Unasked, Unsignaled, Probing
<1>4. CleanExit' /\ Snapped' /\ PassIsCompared'
  BY DEF TypeOK, CleanExit, Snapped, PassIsCompared, InOrder, ExitFits,
         Unasked, Unsignaled, Probing, Exited
<1>. QED
  BY <1>1, <1>2, <1>3, <1>4

LEMMA InterruptKeeps ==
  ASSUME IInv, Interrupt
  PROVE  IInv'
<1>. USE DEF IInv, Interrupt, Alive, Codes, input, report, package, ends
<1>1. TypeOK'
  BY DEF TypeOK, Methods
<1>2. InOrder' /\ ExitFits'
  BY DEF TypeOK, InOrder, ExitFits, Unasked, Unsignaled, Probing, Exited
<1>3. Caused'
  BY DEF TypeOK, Caused, InOrder, ExitFits, Unasked, Unsignaled, Probing
<1>4. CleanExit' /\ Snapped' /\ PassIsCompared'
  BY DEF TypeOK, CleanExit, Snapped, PassIsCompared, InOrder, ExitFits,
         Unasked, Unsignaled, Probing, Exited
<1>. QED
  BY <1>1, <1>2, <1>3, <1>4

-----------------------------------------------------------------------------
LEMMA InitIInv == Init => IInv
<1>. SUFFICES ASSUME Init PROVE IInv
  OBVIOUS
<1>1. TypeOK
  <2>1. /\ failed \in BOOLEAN /\ closed \in BOOLEAN
        /\ eof \in BOOLEAN /\ cancelled \in BOOLEAN
    BY Zenon DEF Init
  <2>2. caps \subseteq {"resources", "prompts"} /\ told \subseteq {"eof", "stop", "term"}
    BY DEF Init
  <2>3. blame \subseteq {"package", "host", "user"}
    BY DEF Init
  <2>4. write \in BOOLEAN /\ full \in BOOLEAN /\ reads \in BOOLEAN
    BY Zenon DEF Init
  <2>. QED
    BY <2>1, <2>2, <2>3, <2>4, RunAssumption DEF Init, TypeOK, Methods, Codes
<1>2. InOrder /\ ExitFits
  BY RunAssumption DEF Init, InOrder, ExitFits, Codes, Unasked, Unsignaled, Probing
<1>3. Caused
  BY RunAssumption DEF Init, Caused, Alive
<1>4. CleanExit /\ Snapped /\ PassIsCompared
  BY DEF Init, CleanExit, Snapped, PassIsCompared, Exited, Probing
<1>. QED
  BY <1>1, <1>2, <1>3, <1>4 DEF IInv

LEMMA StutterKeeps ==
  ASSUME IInv, UNCHANGED vars
  PROVE  IInv'
BY DEF vars, input, report, package, ends, world, IInv, TypeOK, Methods, Codes, Alive,
       InOrder, ExitFits, Caused, CleanExit, Snapped, PassIsCompared,
       Unasked, Unsignaled, Probing, Exited

LEMMA NextKeeps ==
  ASSUME IInv, [Next]_vars
  PROVE  IInv'
<1>1. CASE WaitSocket \/ Call \/ Notify
  BY <1>1, WaitSocketKeeps, CallAnsweredKeeps, CallFaultedKeeps, NextPageKeeps,
     CallRefusedKeeps, CallExpiresKeeps, CallClosedKeeps, NotifyKeeps DEF Call
<1>2. CASE Watch \/ EarlyExit \/ Shutdown
  BY <1>2, WatchKeeps, EarlyExitKeeps, CloseSessionKeeps, StdinGraceKeeps,
     StopKeeps, StoppedKeeps, AwaitKeeps DEF Shutdown
<1>3. CASE ReadProxyLog \/ CheckSnapshot
  BY <1>3, ReadProxyLogKeeps, CheckSnapshotKeeps
<1>4. CASE Package
  BY <1>4, ReplyKeeps, CloseOutputKeeps, PackageExitsKeeps, DialDeniedKeeps DEF Package
<1>5. CASE World
  BY <1>5, LogAttemptKeeps, StreamEndsKeeps, ReapKeeps, LoseDockerRunKeeps,
     InterruptKeeps DEF World
<1>6. CASE UNCHANGED vars
  BY <1>6, StutterKeeps
<1>. QED
  BY <1>1, <1>2, <1>3, <1>4, <1>5, <1>6 DEF Next, Run

THEOREM IInvHolds == Spec => []IInv
<1>1. Init => IInv
  BY InitIInv
<1>2. IInv /\ [Next]_vars => IInv'
  BY NextKeeps
<1>. QED
  BY <1>1, <1>2, PTL DEF Spec

-----------------------------------------------------------------------------
(* Every variable keeps to its values, tools/list within maxPages pages.   *)
THEOREM SmokeRunTypes == Spec => []TypeOK
<1>1. IInv => TypeOK
  BY DEF IInv
<1>. QED
  BY <1>1, IInvHolds, PTL

(* A package that passes is gone and docker reported its exit: status 0,   *)
(* or 143 once docker stop was called, whenever and with whatever status   *)
(* it exits, is stopped or is reported (smoke.go:605-642).                 *)
THEOREM PassedCleanly == Spec => []PassIsCleanExit
<1>1. IInv => PassIsCleanExit
  BY DEF IInv, TypeOK, InOrder, CleanExit, PassIsCleanExit, Exited
<1>. QED
  BY <1>1, IInvHolds, PTL

(* A full run passes only over a snapshot equal to the committed one, or   *)
(* just written by this passing run, and a run that does not pass has left *)
(* the committed one alone but for a write of its own that failed          *)
(* (smoke.go:245-248, 579-603).                                            *)
THEOREM PassedCompared == Spec => []PassIsCompared
<1>1. IInv => PassIsCompared
  BY DEF IInv
<1>. QED
  BY <1>1, IInvHolds, PTL

(* A run fails only if the package, the host or the user gave cause: none  *)
(* of Run's own steps, in any order with theirs, makes a failure of what   *)
(* it asked for itself (smoke.go:623-625).                                 *)
THEOREM FailedWithCause == Spec => []FailHasCause
<1>1. IInv => FailHasCause
  BY DEF IInv, TypeOK, InOrder, Caused, FailHasCause
<1>. QED
  BY <1>1, IInvHolds, PTL

=============================================================================
