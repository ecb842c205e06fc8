---------------------------- MODULE EgressProxy ----------------------------
(***************************************************************************)
(* The egress proxy of a smoke run (internal/smoke/proxy.go) and the       *)
(* process that serves it (cmd/mcplib/egressproxy.go): requests of the     *)
(* package are logged, admitted or refused, an admitted CONNECT becomes a  *)
(* tunnel of two copying goroutines, and SIGTERM shuts the server down.    *)
(* Clients and upstreams are the environment: they send, half-close and    *)
(* reset when they like.                                                   *)
(*                                                                         *)
(* Abstracted: a tunnel's bytes to chunks, of which the number is enough   *)
(* (TCP keeps their order); a plain response to its end; http headers.     *)
(***************************************************************************)
EXTENDS Naturals

CONSTANTS
  Conns,       \* client connections, one request each
  Names,       \* hosts as they are written
  Normal,      \* a name's normal form: lower case, no trailing dot
  Ports, AnyPort, NoPort, BadPort,  \* ports; none in the rule; none, nonsense in the request
  Https, Http, \* the ports of the two protocols
  Allow,       \* the allow list, as parsed
  Nowhere,     \* no target
  MaxChunks    \* bound on the chunks one end sends

ASSUME ProxyAssumption ==
  /\ {Https, Http} \subseteq Ports
  /\ AnyPort \notin Ports /\ NoPort \notin Ports /\ BadPort \notin Ports
  /\ NoPort # BadPort
  /\ Allow \subseteq Names \X (Ports \union {AnyPort})
  /\ Nowhere \notin Names \X Ports
  /\ MaxChunks \in Nat

(* A CONNECT, or a plain request for an http or an https URI.                *)
Requests == [kind : {"connect", "http", "https"}, name : Names, port : Ports \union {NoPort, BadPort}]
Targets  == Names \X Ports

(* The two ends, and the end a copy in a direction reads from.               *)
Ends == {"client", "upstream"}
Other(e) == IF e = "client" THEN "upstream" ELSE "client"

VARIABLES
  proc,     \* the process: serving, stopping after SIGTERM, or how it ended
  at,       \* where each connection's handler is
  req,      \* what each connection asked for
  log,      \* its line in the log: the target and the decision, or Nowhere
  logged,   \* whether that line was written: "no", "yes", "lost"
  dialled,  \* the target an upstream connection was opened to
  \* a tunnel's two ends: chunks sent, sent before the hijack and dropped
  \* with it, carried to the other end; whether the end has finished
  \* sending, has reset, has been shown EOF; whether the goroutine
  \* copying from it still runs
  sent, dropped, carried, ended, reset, fin, copying

decision == <<req, log, logged, dialled>>
ends     == <<sent, ended, reset>>
relay    == <<dropped, carried, fin, copying>>
vars     == <<proc, at, decision, ends, relay>>

None == [c \in Conns |-> [e \in Ends |-> FALSE]]
Zero == [c \in Conns |-> [e \in Ends |-> 0]]

Init ==
  /\ proc = "serving" /\ at = [c \in Conns |-> "idle"]
  /\ req \in [Conns -> Requests]
  /\ log = [c \in Conns |-> Nowhere] /\ logged = [c \in Conns |-> "no"]
  /\ dialled = [c \in Conns |-> Nowhere]
  /\ sent = Zero /\ dropped = [c \in Conns |-> 0] /\ carried = Zero
  /\ ended = None /\ reset = None /\ fin = None /\ copying = None

Goto(c, s) == at' = [at EXCEPT ![c] = s]

-----------------------------------------------------------------------------
(* The decision.                                                             *)

OrPort(r, default) == <<r.name, IF r.port = NoPort THEN default ELSE r.port>>

(* What is decided on and logged: splitHostPort, and servePlain's default,   *)
(* which does not ask for the URI's scheme.                                  *)
Target(r) == OrPort(r, IF r.kind = "connect" THEN Https ELSE Http)

(* What is dialled: the decision's target for a CONNECT, and for a plain     *)
(* request what the transport makes of its URI.                              *)
Reached(r) == OrPort(r, IF r.kind = "http" THEN Http ELSE Https)

Portless(r) == r.kind = "https" /\ r.port = NoPort

IsAllowed(t) ==
  \E rule \in Allow : Normal[rule[1]] = Normal[t[1]] /\ rule[2] \in {AnyPort, t[2]}

(* The server accepts the connection and reads the request.                  *)
Accept(c) ==
  /\ proc = "serving" /\ at[c] = "idle" /\ ~reset[c]["client"]
  /\ Goto(c, "asked")
  /\ UNCHANGED <<proc, decision, ends, relay>>

(* A malformed CONNECT is logged, without a host, and refused; a malformed   *)
(* plain request, or one without an absolute URI, is refused unlogged.       *)
Malformed(c) ==
  /\ at[c] = "asked" /\ req[c].port = BadPort
  /\ \E w \in IF req[c].kind = "connect" THEN {"yes", "lost"} ELSE {"no"} :
       logged' = [logged EXCEPT ![c] = w]
  /\ Goto(c, "done")
  /\ UNCHANGED <<proc, req, log, dialled, ends, relay>>

(* Mutant of Decide: only a refusal is logged. *)
DecideLogDenied(c) ==
  /\ at[c] = "asked" /\ req[c].port # BadPort
  /\ log' = [log EXCEPT ![c] = IF IsAllowed(Target(req[c])) THEN Nowhere ELSE Target(req[c])]
  /\ logged' = [logged EXCEPT ![c] = "yes"]
  /\ Goto(c, IF IsAllowed(Target(req[c])) THEN "dial" ELSE "done")
  /\ UNCHANGED <<proc, req, dialled, ends, relay>>

(* The attempt is logged, whatever the decision, before it takes effect; an  *)
(* error of the log's Write is dropped.                                      *)
Decide(c) ==
  /\ at[c] = "asked" /\ req[c].port # BadPort
  /\ log' = [log EXCEPT ![c] = Target(req[c])]
  /\ \E w \in {"yes", "lost"} : logged' = [logged EXCEPT ![c] = w]
  /\ Goto(c, IF IsAllowed(Target(req[c])) THEN "dial" ELSE "done")
  /\ UNCHANGED <<proc, req, dialled, ends, relay>>

(* A CONNECT's upstream is reached.                                          *)
Dial(c) ==
  /\ at[c] = "dial" /\ req[c].kind = "connect"
  /\ dialled' = [dialled EXCEPT ![c] = Reached(req[c])]
  /\ Goto(c, "hijack")
  /\ UNCHANGED <<proc, req, log, logged, ends, relay>>

(* A plain request's round trip, its response copied to its end.             *)
Forward(c) ==
  /\ at[c] = "dial" /\ req[c].kind # "connect"
  /\ dialled' = [dialled EXCEPT ![c] = Reached(req[c])]
  /\ Goto(c, "done")
  /\ UNCHANGED <<proc, req, log, logged, ends, relay>>

(* The dial fails, or its ten seconds run out, or the client is gone: 502.   *)
DialFails(c) ==
  /\ at[c] = "dial"
  /\ Goto(c, "done")
  /\ UNCHANGED <<proc, decision, ends, relay>>

-----------------------------------------------------------------------------
(* The tunnel.                                                               *)

(* The connection leaves the server's hands.  What the server has read of    *)
(* what the client sent after its CONNECT stays in the reader that Hijack    *)
(* returns, which is dropped; Hijack fails, or writing 200 does, if the      *)
(* client is gone.                                                           *)
Hijack(c) ==
  /\ at[c] = "hijack" /\ ~reset[c]["client"]
  /\ \E n \in 0 .. sent[c]["client"] : dropped' = [dropped EXCEPT ![c] = n]
  /\ copying' = [copying EXCEPT ![c] = [e \in Ends |-> TRUE]]
  /\ Goto(c, "tunnel")
  /\ UNCHANGED <<proc, decision, ends, carried, fin>>

HijackFails(c) ==
  /\ at[c] = "hijack" /\ reset[c]["client"]
  /\ fin' = [fin EXCEPT ![c]["upstream"] = TRUE]
  /\ Goto(c, "done")
  /\ UNCHANGED <<proc, decision, ends, dropped, carried, copying>>

(* Chunks an end has sent that its copy has yet to carry.                    *)
Unread(c, e) ==
  sent[c][e] - (carried[c][e] + IF e = "client" THEN dropped[c] ELSE 0)

(* One turn of the loop in io.Copy.                                          *)
Copy(c, e) ==
  /\ copying[c][e] /\ ~reset[c][e] /\ ~reset[c][Other(e)]
  /\ Unread(c, e) > 0
  /\ carried' = [carried EXCEPT ![c][e] = @ + 1]
  /\ UNCHANGED <<proc, at, decision, ends, dropped, fin, copying>>

(* io.Copy returns: at the end of what e sends, or when reading from it or   *)
(* writing to the other fails.                                               *)
Returns(c, e) ==
  /\ copying[c][e]
  /\ \/ reset[c][e]
     \/ reset[c][Other(e)] /\ Unread(c, e) > 0
     \/ ended[c][e] /\ Unread(c, e) = 0

(* Mutants of CopyEnds: the other's EOF is not passed on; the tunnel ends    *)
(* with its first copy.                                                      *)
CopyEndsQuietly(c, e) ==
  /\ Returns(c, e)
  /\ copying' = [copying EXCEPT ![c][e] = FALSE]
  /\ UNCHANGED <<proc, at, decision, ends, dropped, carried, fin>>

CopyEndsBoth(c, e) ==
  /\ Returns(c, e)
  /\ copying' = [copying EXCEPT ![c] = [d \in Ends |-> FALSE]]
  /\ fin' = [fin EXCEPT ![c] = [d \in Ends |-> TRUE]]
  /\ UNCHANGED <<proc, at, decision, ends, dropped, carried>>

(* The copy's goroutine half-closes the other end and is done.               *)
CopyEnds(c, e) ==
  /\ Returns(c, e)
  /\ copying' = [copying EXCEPT ![c][e] = FALSE]
  /\ fin' = [fin EXCEPT ![c][Other(e)] = TRUE]
  /\ UNCHANGED <<proc, at, decision, ends, dropped, carried>>

(* Both copies are done: wg.Wait returns and both connections are closed.    *)
Unlink(c) ==
  /\ at[c] = "tunnel" /\ \A e \in Ends : ~copying[c][e]
  /\ Goto(c, "done")
  /\ UNCHANGED <<proc, decision, ends, relay>>

-----------------------------------------------------------------------------
(* The two ends.                                                             *)

Connected(c, e) ==
  /\ ~reset[c][e]
  /\ IF e = "client" THEN at[c] \notin {"idle", "done", "cut"}
                     ELSE at[c] \in {"hijack", "tunnel"}
  /\ req[c].kind = "connect"

Send(c, e) ==
  /\ Connected(c, e) /\ ~ended[c][e] /\ sent[c][e] < MaxChunks
  /\ sent' = [sent EXCEPT ![c][e] = @ + 1]
  /\ UNCHANGED <<proc, at, decision, ended, reset, relay>>

HalfClose(c, e) ==
  /\ Connected(c, e) /\ ~ended[c][e]
  /\ ended' = [ended EXCEPT ![c][e] = TRUE]
  /\ UNCHANGED <<proc, at, decision, sent, reset, relay>>

Reset(c, e) ==
  /\ Connected(c, e)
  /\ reset' = [reset EXCEPT ![c][e] = TRUE]
  /\ UNCHANGED <<proc, at, decision, sent, ended, relay>>

-----------------------------------------------------------------------------
(* The process.                                                              *)

Sigterm ==
  /\ proc = "serving" /\ proc' = "stopping"
  /\ UNCHANGED <<at, decision, ends, relay>>

(* The end of the process closes every socket it has, those of its tunnels   *)
(* included, whatever is left to carry.  An end may be shown that as the EOF *)
(* of a half-close, or as a reset of its own.                                *)
Exit(how) ==
  /\ proc \in {"serving", "stopping"} /\ proc' = how
  /\ at' = [c \in Conns |-> IF at[c] \in {"idle", "done"} THEN at[c] ELSE "cut"]
  /\ copying' = None
  /\ \E shown \in SUBSET (Conns \X Ends) :
       fin' = [c \in Conns |-> [e \in Ends |->
                fin[c][e] \/ (Connected(c, e) /\ <<c, e>> \in shown)]]
  /\ UNCHANGED <<decision, ends, dropped, carried>>

(* Shutdown returns once every request is answered.  A hijacked connection   *)
(* is not the server's any more, and it does not wait for it.                *)
Drained ==
  /\ proc = "stopping"
  /\ \A c \in Conns : at[c] \in {"idle", "tunnel", "done"}
  /\ Exit("drained")

(* shutdownGrace runs out.                                                   *)
GraceOver == proc = "stopping" /\ Exit("gave up")

(* docker rm -f, at any time.                                                *)
Kill == Exit("killed")

-----------------------------------------------------------------------------
Serve(c) ==
  \/ Accept(c) \/ Malformed(c) \/ Decide(c)
  \/ Dial(c) \/ Forward(c) \/ DialFails(c)
  \/ Hijack(c) \/ HijackFails(c) \/ Unlink(c)

Handle(c) == proc \in {"serving", "stopping"} /\ Serve(c)

Carry(c, e) == Copy(c, e) \/ CopyEnds(c, e)

Peer(c, e) == Send(c, e) \/ HalfClose(c, e) \/ Reset(c, e)

Next ==
  \/ \E c \in Conns : Handle(c)
  \/ \E c \in Conns, e \in Ends : Carry(c, e) \/ Peer(c, e)
  \/ Sigterm \/ Drained \/ GraceOver \/ Kill

Spec == Init /\ [][Next]_vars

(* The handlers' and the tunnels' goroutines run.  Nothing is assumed of the *)
(* ends and of the process.                                                  *)
FairSpec ==
  Spec /\ \A c \in Conns : /\ WF_vars(Handle(c))
                           /\ \A e \in Ends : WF_vars(Carry(c, e))

-----------------------------------------------------------------------------
TypeOK ==
  /\ proc \in {"serving", "stopping", "drained", "gave up", "killed"}
  /\ at \in [Conns -> {"idle", "asked", "dial", "hijack", "tunnel", "done", "cut"}]
  /\ req \in [Conns -> Requests]
  /\ log \in [Conns -> Targets \union {Nowhere}]
  /\ logged \in [Conns -> {"no", "yes", "lost"}]
  /\ dialled \in [Conns -> Targets \union {Nowhere}]
  /\ sent \in [Conns -> [Ends -> 0 .. MaxChunks]]
  /\ dropped \in [Conns -> 0 .. MaxChunks]
  /\ carried \in [Conns -> [Ends -> 0 .. MaxChunks]]
  /\ ended \in [Conns -> [Ends -> BOOLEAN]] /\ reset \in [Conns -> [Ends -> BOOLEAN]]
  /\ fin \in [Conns -> [Ends -> BOOLEAN]] /\ copying \in [Conns -> [Ends -> BOOLEAN]]

(* Whatever was dialled had been decided on and logged before, and is what   *)
(* the log says, port included: a proxy killed at any moment leaves no dial  *)
(* that its log does not show, unless the log's own write failed             *)
(* (proxy.go:178-197, 269-280).  An https URI without a port is excepted.    *)
DialIsLogged ==
  \A c \in Conns : dialled[c] # Nowhere =>
     /\ log[c] # Nowhere /\ logged[c] # "no"
     /\ IsAllowed(log[c])
     /\ log[c] # dialled[c] => Portless(req[c]) /\ log[c][1] = dialled[c][1]

(* An end that a running proxy shows EOF has been given all that the other   *)
(* sent through the tunnel, unless one of them reset (proxy.go:222-245): a   *)
(* half-close does not cut the answer short.  The end of the process does,   *)
(* and an EOF it may have caused is excepted.                                *)
EofIsHonest ==
  \A c \in Conns, e \in Ends :
    fin[c][Other(e)] /\ at[c] # "cut" /\ ~reset[c]["client"] /\ ~reset[c]["upstream"]
      => ended[c][e] /\ Unread(c, e) = 0

(* An end that finishes once it is shown EOF, as servers and clients do.     *)
Polite == \A c \in Conns, e \in Ends : WF_vars(fin[c][e] /\ HalfClose(c, e))

(* "half-closing writes so a client that stops writing doesn't wedge open    *)
(* the upstream's read half" (proxy.go:222-224): a tunnel one end of which   *)
(* finishes or vanishes is over in the end, and no goroutine stays.          *)
TunnelEnds ==
  Polite => \A c \in Conns, e \in Ends :
    (at[c] = "tunnel" /\ (ended[c][e] \/ reset[c][e])) ~> at[c] \in {"done", "cut"}

=============================================================================
