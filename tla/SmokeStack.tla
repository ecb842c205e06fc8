----------------------------- MODULE SmokeStack -----------------------------
(***************************************************************************)
(* The Docker resources of one smoke run (Stack in internal/smoke/         *)
(* container.go): Up makes an internal network and the proxy container,    *)
(* Start launches a package's docker run without waiting for it, Down      *)
(* removes what Up and Start recorded.  Docker is the environment: a       *)
(* command may fail before or after it took effect, a container may exit   *)
(* between two commands, a launched docker run lands when it likes, and    *)
(* the run's context may be cancelled at any time, which kills it.         *)
(***************************************************************************)
CONSTANTS
  Pkgs,      \* the package containers a caller may start
  Proxy      \* the proxy container

ASSUME StackAssumption == Proxy \notin Pkgs

Boxes == Pkgs \union {Proxy}

VARIABLES
  pc,         \* where the goroutine calling Up, Start and Down is
  cancelled,  \* the run's context is done
  \* the fields of Stack
  netMade, proxyMade, pkgs,
  \* one call of Down: containers still to remove, whether a removal
  \* failed, and what the last call returned
  todo, errs, result,
  \* docker: the network, each container, each docker run of a package
  net, box, cli

stack  == <<netMade, proxyMade, pkgs>>
down   == <<todo, errs, result>>
docker == <<net, box, cli>>
vars   == <<pc, cancelled, stack, down, docker>>

Init ==
  /\ pc = "create" /\ cancelled = FALSE
  /\ netMade = FALSE /\ proxyMade = FALSE /\ pkgs = {}
  /\ todo = {} /\ errs = FALSE /\ result = "none"
  /\ net = FALSE
  /\ box = [b \in Boxes |-> "none"]
  /\ cli = [p \in Pkgs |-> "none"]

-----------------------------------------------------------------------------
(* Up.  A command of a cancelled run does not succeed; one that fails may    *)
(* have taken effect all the same.                                           *)

(* Mutant of NetworkCreate: the proxy is not marked before its run. *)
NetworkCreateOnly ==
  /\ pc = "create"
  /\ \/ ~cancelled /\ net' = TRUE /\ netMade' = TRUE /\ pc' = "proxy"
     \/ net' \in BOOLEAN /\ pc' = "failed" /\ UNCHANGED netMade
  /\ UNCHANGED <<cancelled, proxyMade, pkgs, down, box, cli>>

NetworkCreate ==
  /\ pc = "create"
  /\ \/ ~cancelled /\ net' = TRUE /\ netMade' = TRUE /\ proxyMade' = TRUE
                   /\ pc' = "proxy"
     \/ net' \in BOOLEAN /\ pc' = "failed" /\ UNCHANGED <<netMade, proxyMade>>
  /\ UNCHANGED <<cancelled, pkgs, down, box, cli>>

RunProxy ==
  /\ pc = "proxy"
  /\ \/ ~cancelled /\ box' = [box EXCEPT ![Proxy] = "running"] /\ pc' = "connect"
     \/ /\ \E s \in {"none", "created", "running"} : box' = [box EXCEPT ![Proxy] = s]
        /\ pc' = "failed"
  /\ UNCHANGED <<cancelled, stack, down, net, cli>>

ConnectBridge ==
  /\ pc = "connect"
  /\ pc' = "failed" \/ (~cancelled /\ pc' = "wait")
  /\ UNCHANGED <<cancelled, stack, down, docker>>

(* waitRunning: an exited proxy fails at once, and the wait is bounded. *)
WaitRunning ==
  /\ pc = "wait"
  /\ \/ ~cancelled /\ box[Proxy] = "running" /\ pc' = "ready"
     \/ pc' = "failed"
  /\ UNCHANGED <<cancelled, stack, down, docker>>

(* Start records the container, then starts docker run and returns. *)
Start(p) ==
  /\ pc = "ready" /\ cli[p] = "none"
  /\ pkgs' = pkgs \union {p}
  /\ cli' = [cli EXCEPT ![p] = IF cancelled THEN "ended" ELSE "launched"]
  /\ UNCHANGED <<pc, cancelled, netMade, proxyMade, down, net, box>>

-----------------------------------------------------------------------------
(* Down: the packages, the proxy, the network. *)

DownBegin ==
  /\ pc \in {"ready", "failed", "down"}
  /\ pc' = "pkgs"
  /\ todo' = pkgs /\ errs' = FALSE /\ result' = "none"
  /\ UNCHANGED <<cancelled, stack, docker>>

(* Mutant of RemoveFails: its error is dropped. *)
RemoveFailsQuietly == UNCHANGED <<errs, netMade, proxyMade, pkgs>>

(* A failed removal keeps the name for the next Down, though docker may have *)
(* done it before it failed.                                                 *)
RemoveFails == errs' = TRUE /\ UNCHANGED <<netMade, proxyMade, pkgs>>

BoxMaybeGone(b) == box' \in {box, [box EXCEPT ![b] = "none"]} /\ UNCHANGED net

RemovePkg(p) ==
  /\ pc = "pkgs" /\ p \in todo
  /\ todo' = todo \ {p}
  /\ \/ /\ box' = [box EXCEPT ![p] = "none"]
        /\ pkgs' = pkgs \ {p}
        /\ UNCHANGED <<netMade, proxyMade, errs, net>>
     \/ RemoveFails /\ BoxMaybeGone(p)
  /\ UNCHANGED <<pc, cancelled, result, cli>>

(* Mutant of RemoveProxy: it runs under the run's own context. *)
RemoveProxyCancelled ==
  /\ pc = "pkgs" /\ todo = {}
  /\ pc' = "net"
  /\ \/ /\ proxyMade /\ ~cancelled
        /\ box' = [box EXCEPT ![Proxy] = "none"]
        /\ proxyMade' = FALSE
        /\ UNCHANGED <<netMade, pkgs, errs, net>>
     \/ proxyMade /\ RemoveFails /\ UNCHANGED <<net, box>>
     \/ ~proxyMade /\ UNCHANGED <<stack, errs, net, box>>
  /\ UNCHANGED <<cancelled, todo, result, cli>>

RemoveProxy ==
  /\ pc = "pkgs" /\ todo = {}
  /\ pc' = "net"
  /\ \/ /\ proxyMade
        /\ box' = [box EXCEPT ![Proxy] = "none"]
        /\ proxyMade' = FALSE
        /\ UNCHANGED <<netMade, pkgs, errs, net>>
     \/ proxyMade /\ RemoveFails /\ BoxMaybeGone(Proxy)
     \/ ~proxyMade /\ UNCHANGED <<stack, errs, net, box>>
  /\ UNCHANGED <<cancelled, todo, result, cli>>

(* docker refuses to remove a network that a running container uses. *)
RemoveNetwork ==
  /\ pc = "net"
  /\ pc' = "down"
  /\ \/ /\ netMade /\ \A b \in Boxes : box[b] # "running"
        /\ net' = FALSE /\ netMade' = FALSE
        /\ UNCHANGED <<proxyMade, pkgs, errs, box>>
     \/ /\ netMade /\ RemoveFails /\ UNCHANGED box
        /\ net' \in {net, net /\ \E b \in Boxes : box[b] = "running"}
     \/ ~netMade /\ UNCHANGED <<stack, errs, net, box>>
  /\ result' = IF errs' THEN "error" ELSE "nil"
  /\ UNCHANGED <<cancelled, todo, cli>>

-----------------------------------------------------------------------------
(* Docker and the user. *)

(* The daemon creates the container a docker run asked for. *)
Land(p) ==
  /\ cli[p] = "launched" /\ box[p] = "none"
  /\ box' = [box EXCEPT ![p] = "created"]
  /\ cli' = [cli EXCEPT ![p] = "created"]
  /\ UNCHANGED <<pc, cancelled, stack, down, net>>

(* It runs only on a network that exists; --rm removes it otherwise. *)
Boot(p) ==
  /\ cli[p] = "created" /\ box[p] = "created"
  /\ box' = [box EXCEPT ![p] = IF net THEN "running" ELSE "none"]
  /\ cli' = [cli EXCEPT ![p] = "ended"]
  /\ UNCHANGED <<pc, cancelled, stack, down, net>>

(* docker run fails, is killed, or finds its container removed. *)
LaunchEnds(p) ==
  /\ cli[p] \in {"launched", "created"}
  /\ cli' = [cli EXCEPT ![p] = "ended"]
  /\ UNCHANGED <<pc, cancelled, stack, down, net, box>>

(* A package that exits is removed (--rm), the proxy is not. *)
BoxExits(b) ==
  /\ box[b] = "running"
  /\ box' = [box EXCEPT ![b] = IF b = Proxy THEN "exited" ELSE "none"]
  /\ UNCHANGED <<pc, cancelled, stack, down, net, cli>>

Cancel ==
  /\ ~cancelled /\ cancelled' = TRUE
  /\ UNCHANGED <<pc, stack, down, docker>>

-----------------------------------------------------------------------------
Up == NetworkCreate \/ RunProxy \/ ConnectBridge \/ WaitRunning

DownStep == (\E p \in Pkgs : RemovePkg(p)) \/ RemoveProxy \/ RemoveNetwork

Docker == \/ \E p \in Pkgs : Land(p) \/ Boot(p) \/ LaunchEnds(p)
          \/ \E b \in Boxes : BoxExits(b)

Next == Up \/ (\E p \in Pkgs : Start(p)) \/ DownBegin \/ DownStep \/ Docker \/ Cancel

Spec == Init /\ [][Next]_vars

(***************************************************************************)
(* A caller that retries: Down keeps what it could not remove so that a    *)
(* second Down can (container.go:595-596), and the caller repeats it until *)
(* it returns nil.  smoke.Run itself calls it once and logs its error.  Up *)
(* and Down run to their end (their commands have deadlines), launches     *)
(* end, and a removal that is tried again and again succeeds in the end.   *)
(***************************************************************************)
RetrySpec ==
  /\ Spec
  /\ WF_vars(Up) /\ WF_vars(DownBegin /\ result # "nil") /\ WF_vars(DownStep)
  /\ \A p \in Pkgs : SF_vars(RemovePkg(p) /\ p \notin pkgs') /\ WF_vars(LaunchEnds(p))
  /\ SF_vars(RemoveProxy /\ ~proxyMade')
  /\ SF_vars(RemoveNetwork /\ ~netMade')

-----------------------------------------------------------------------------
TypeOK ==
  /\ pc \in {"create", "proxy", "connect", "wait", "ready", "failed",
             "pkgs", "net", "down"}
  /\ cancelled \in BOOLEAN
  /\ netMade \in BOOLEAN /\ proxyMade \in BOOLEAN /\ pkgs \subseteq Pkgs
  /\ todo \subseteq Pkgs /\ errs \in BOOLEAN
  /\ result \in {"none", "nil", "error"}
  /\ net \in BOOLEAN
  /\ box \in [Boxes -> {"none", "created", "running", "exited"}]
  /\ cli \in [Pkgs -> {"none", "launched", "created", "ended"}]

(* A Down that returned nil has stopped everything: no container of the run  *)
(* is running then or ever after, even one whose docker run was still under  *)
(* way when its removal found nothing (container.go:588-621).                *)
DownNilStopsAll == result = "nil" => \A b \in Boxes : box[b] # "running"

(* A container that could outlive the run is on record somewhere: a proxy    *)
(* whose docker run failed half-way (container.go:423-425) is still Down's   *)
(* to remove, and nothing runs on a network Down no longer knows of.         *)
Recorded ==
  /\ box[Proxy] # "none" => proxyMade
  /\ \A b \in Boxes : box[b] = "running" => netMade

(* A run's Down, repeated until it returns nil, gets there, cancelled or     *)
(* not (container.go:588-592), unless a container landed after its removal.  *)
Landed == \E p \in Pkgs : p \notin pkgs /\ box[p] # "none"

CleanupHappens == (pc = "failed" \/ pc = "pkgs") ~> (result = "nil" \/ Landed)

=============================================================================
