------------------------- MODULE EgressProxy_proofs -------------------------
(* Proofs about EgressProxy for any connections, names, ports and allow    *)
(* list.                                                                   *)
EXTENDS EgressProxy, TLAPS

Opening == {"idle", "asked", "dial", "hijack"}

(***************************************************************************)
(* DialIsLogged rests on the decision a handler carries with it from its   *)
(* log line to its dial.                                                   *)
(***************************************************************************)
Decided ==
  \A c \in Conns :
    /\ at[c] = "dial" => /\ req[c].port # BadPort
                         /\ IsAllowed(Target(req[c]))
                         /\ log[c] = Target(req[c]) /\ logged[c] # "no"
    /\ at[c] \in {"idle", "asked", "dial"} => dialled[c] = Nowhere

(***************************************************************************)
(* EofIsHonest rests on the copies: before the hijack none runs and        *)
(* nothing is carried, and an end is shown EOF only when the copy to it is *)
(* over, or cut off with the process.                                      *)
(***************************************************************************)
NotYet ==
  \A c \in Conns : at[c] \in Opening =>
     /\ dropped[c] = 0
     /\ \A e \in Ends : carried[c][e] = 0 /\ ~fin[c][e] /\ ~copying[c][e]

Counted ==
  \A c \in Conns : /\ carried[c]["client"] + dropped[c] <= sent[c]["client"]
                   /\ carried[c]["upstream"] <= sent[c]["upstream"]

FinIsLast ==
  \A c \in Conns, e \in Ends : fin[c][Other(e)] => ~copying[c][e]

IInv ==
  /\ TypeOK
  /\ Decided /\ DialIsLogged
  /\ NotYet /\ Counted /\ FinIsLast /\ EofIsHonest

-----------------------------------------------------------------------------
LEMMA OtherEnd == \A e \in Ends : Other(e) \in Ends /\ Other(e) # e /\ Other(Other(e)) = e
BY DEF Ends, Other

(* A request whose port is not nonsense has a target, and what is reached    *)
(* for it is the same but for an https URI without a port.                   *)
LEMMA TargetType ==
  ASSUME NEW r \in Requests, r.port # BadPort
  PROVE  /\ Target(r) \in Targets /\ Reached(r) \in Targets
         /\ Target(r)[1] = Reached(r)[1]
         /\ Target(r) # Reached(r) => Portless(r)
BY ProxyAssumption DEF Requests, Target, Reached, OrPort, Portless, Targets

LEMMA Numbers ==
  ASSUME TypeOK, NEW c \in Conns, NEW e \in Ends
  PROVE  /\ sent[c][e] \in 0 .. MaxChunks /\ carried[c][e] \in 0 .. MaxChunks
         /\ dropped[c] \in 0 .. MaxChunks /\ MaxChunks \in Nat
BY ProxyAssumption DEF TypeOK

LEMMA UnreadType ==
  ASSUME TypeOK, Counted, NEW c \in Conns, NEW e \in Ends
  PROVE  /\ Unread(c, e) \in Nat
         /\ Unread(c, e) > 0 => carried[c][e] < MaxChunks
<1>1. CASE e = "client"
  BY <1>1, Numbers DEF Counted, Unread
<1>2. CASE e = "upstream"
  BY <1>2, Numbers DEF Counted, Unread
<1>. QED
  BY <1>1, <1>2 DEF Ends

LEMMA InitIInv == Init => IInv
<1>. SUFFICES ASSUME Init PROVE IInv
  OBVIOUS
<1>1. /\ None \in [Conns -> [Ends -> BOOLEAN]]
      /\ Zero \in [Conns -> [Ends -> 0 .. MaxChunks]]
  BY ProxyAssumption DEF None, Zero
<1>2. TypeOK
  BY <1>1, ProxyAssumption DEF Init, TypeOK
<1>3. Decided /\ DialIsLogged
  BY DEF Init, Decided, DialIsLogged
<1>4. NotYet /\ Counted
  BY DEF Init, NotYet, Counted, None, Zero, Ends
<1>5. FinIsLast /\ EofIsHonest
  BY OtherEnd DEF Init, FinIsLast, EofIsHonest, None
<1>. QED
  BY <1>2, <1>3, <1>4, <1>5 DEF IInv

-----------------------------------------------------------------------------
(* The steps of a handler up to the dial leave the tunnel alone. *)
LEMMA StepDecision ==
  ASSUME IInv, NEW c \in Conns,
         \/ Accept(c) \/ Malformed(c) \/ Decide(c)
         \/ Dial(c) \/ Forward(c) \/ DialFails(c)
  PROVE  IInv'
<1>. USE DEF IInv
<1>1. /\ at \in [Conns -> {"idle", "asked", "dial", "hijack", "tunnel", "done", "cut"}]
      /\ req \in [Conns -> Requests]
  BY DEF TypeOK
<1>2. /\ at[c] \in {"idle", "asked", "dial"}
      /\ \E s \in {"asked", "dial", "hijack", "done"} : at' = [at EXCEPT ![c] = s]
      /\ UNCHANGED <<proc, req, ends, relay>>
  BY DEF Accept, Malformed, Decide, Dial, Forward, DialFails, Goto, decision
<1>3. UNCHANGED <<sent, ended, reset, dropped, carried, fin, copying>>
  BY <1>2 DEF ends, relay
<1>4. TypeOK'
  <2>1. /\ log' \in [Conns -> Targets \union {Nowhere}]
        /\ logged' \in [Conns -> {"no", "yes", "lost"}]
    <3>1. CASE Decide(c)
      BY <1>1, <3>1, TargetType DEF Decide, TypeOK
    <3>2. CASE Malformed(c)
      BY <3>2 DEF Malformed, TypeOK
    <3>3. CASE Accept(c) \/ Dial(c) \/ Forward(c) \/ DialFails(c)
      BY <3>3 DEF Accept, Dial, Forward, DialFails, decision, TypeOK
    <3>. QED
      BY <3>1, <3>2, <3>3
  <2>2. dialled' \in [Conns -> Targets \union {Nowhere}]
    <3>1. CASE Dial(c) \/ Forward(c)
      <4>1. Reached(req[c]) \in Targets
        BY <1>1, <3>1, TargetType DEF Dial, Forward, Decided
      <4>. QED
        BY <3>1, <4>1 DEF Dial, Forward, TypeOK
    <3>2. CASE Accept(c) \/ Malformed(c) \/ Decide(c) \/ DialFails(c)
      BY <3>2 DEF Accept, Malformed, Decide, DialFails, decision, TypeOK
    <3>. QED
      BY <3>1, <3>2
  <2>. QED
    BY <1>1, <1>2, <1>3, <2>1, <2>2 DEF TypeOK
<1>5. Decided' /\ DialIsLogged'
  <2>1. CASE Accept(c) \/ DialFails(c)
    BY <1>1, <2>1 DEF Accept, DialFails, Goto, decision, Decided, DialIsLogged
  <2>2. CASE Malformed(c)
    BY <1>1, <2>2 DEF Malformed, Goto, Decided, DialIsLogged, TypeOK
  <2>3. CASE Decide(c)
    BY <1>1, <2>3 DEF Decide, Goto, Decided, DialIsLogged, TypeOK
  <2>4. CASE Dial(c) \/ Forward(c)
    <3>1. /\ log[c] # Nowhere /\ IsAllowed(log[c]) /\ logged[c] # "no"
          /\ log[c] # Reached(req[c]) => Portless(req[c]) /\ log[c][1] = Reached(req[c])[1]
      BY <1>1, <2>4, TargetType, ProxyAssumption DEF Dial, Forward, Decided, Targets
    <3>2. /\ dialled' = [dialled EXCEPT ![c] = Reached(req[c])]
          /\ at'[c] \in {"hijack", "done"} /\ \A d \in Conns : d # c => at'[d] = at[d]
          /\ UNCHANGED <<req, log, logged>>
      BY <1>1, <2>4 DEF Dial, Forward, Goto
    <3>. QED
      BY <1>1, <3>1, <3>2 DEF Decided, DialIsLogged, TypeOK
  <2>. QED
    BY <2>1, <2>2, <2>3, <2>4
<1>6. NotYet' /\ Counted' /\ FinIsLast' /\ EofIsHonest'
  BY <1>1, <1>2, <1>3
     DEF NotYet, Counted, FinIsLast, EofIsHonest, Unread, Opening
<1>. QED
  BY <1>4, <1>5, <1>6

(* The hijack: what the client sent before it is set aside. *)
LEMMA StepHijack ==
  ASSUME IInv, NEW c \in Conns, Hijack(c) \/ HijackFails(c)
  PROVE  IInv'
<1>. USE DEF IInv
<1>1. UNCHANGED <<proc, req, log, logged, dialled, sent, ended, reset, carried>>
  BY DEF Hijack, HijackFails, decision, ends
<1>2. /\ at[c] = "hijack"
      /\ \E s \in {"tunnel", "done"} : at' = [at EXCEPT ![c] = s]
  BY DEF Hijack, HijackFails, Goto
<1>3. dropped[c] = 0 /\ \A e \in Ends : carried[c][e] = 0 /\ ~fin[c][e] /\ ~copying[c][e]
  BY <1>2 DEF NotYet, Opening
<1>4. TypeOK'
  <2>1. sent[c]["client"] \in 0 .. MaxChunks
    <3>1. "client" \in Ends
      BY DEF Ends
    <3>2. QED
      BY <3>1, Numbers
  <2>2. CASE Hijack(c)
    <3>1. PICK n \in 0 .. sent[c]["client"] : dropped' = [dropped EXCEPT ![c] = n]
      BY <2>2 DEF Hijack
    <3>2. n \in 0 .. MaxChunks
      BY <2>1, <3>1, ProxyAssumption
    <3>. QED
      BY <1>1, <1>2, <2>2, <3>1, <3>2 DEF TypeOK, Hijack
  <2>3. CASE HijackFails(c)
    BY <1>1, <1>2, <2>3 DEF TypeOK, HijackFails, Ends
  <2>. QED
    BY <2>2, <2>3
<1>5. Decided' /\ DialIsLogged'
  BY <1>1, <1>2 DEF TypeOK, Decided, DialIsLogged
<1>6. CASE Hijack(c)
  <2>1. PICK n \in 0 .. sent[c]["client"] : dropped' = [dropped EXCEPT ![c] = n]
    BY <1>6 DEF Hijack
  <2>2. /\ copying' = [copying EXCEPT ![c] = [e \in Ends |-> TRUE]]
        /\ at' = [at EXCEPT ![c] = "tunnel"]
        /\ fin' = fin
    BY <1>6 DEF Hijack, Goto
  <2>3. NotYet'
    BY <1>1, <2>1, <2>2 DEF NotYet, TypeOK, Opening
  <2>4. Counted'
    <3>1. sent[c]["client"] \in Nat /\ carried[c]["client"] = 0
      BY <1>3, Numbers DEF Ends
    <3>2. dropped'[c] = n /\ \A d \in Conns : d # c => dropped'[d] = dropped[d]
      BY <2>1 DEF TypeOK
    <3>. QED
      BY <1>1, <3>1, <3>2 DEF Counted
  <2>5. FinIsLast' /\ EofIsHonest'
    <3>1. ASSUME NEW d \in Conns, NEW e \in Ends, fin'[d][Other(e)]
          PROVE  /\ d # c
                 /\ ~copying'[d][e]
                 /\ Unread(d, e)' = Unread(d, e)
      BY <1>1, <1>3, <2>1, <2>2, <3>1, OtherEnd DEF TypeOK, FinIsLast, Unread
    <3>. QED
      BY <1>1, <2>1, <2>2, <3>1 DEF FinIsLast, EofIsHonest
  <2>. QED
    BY <1>4, <1>5, <2>3, <2>4, <2>5
<1>7. CASE HijackFails(c)
  <2>1. /\ reset[c]["client"]
        /\ fin' = [fin EXCEPT ![c]["upstream"] = TRUE]
        /\ at' = [at EXCEPT ![c] = "done"]
        /\ dropped' = dropped /\ copying' = copying
    BY <1>7 DEF HijackFails, Goto
  <2>2. NotYet' /\ Counted'
    BY <1>1, <2>1 DEF NotYet, Counted, TypeOK, Opening
  <2>3. ASSUME NEW d \in Conns, d # c
        PROVE  fin'[d] = fin[d]
    BY <2>1, <2>3 DEF TypeOK
  <2>4. FinIsLast'
    BY <1>3, <2>1, <2>3 DEF FinIsLast
  <2>5. EofIsHonest'
    BY <1>1, <2>1, <2>3 DEF EofIsHonest, Unread
  <2>. QED
    BY <1>4, <1>5, <2>2, <2>4, <2>5
<1>. QED
  BY <1>6, <1>7

(* One chunk carried. *)
LEMMA StepCopy ==
  ASSUME IInv, NEW c \in Conns, NEW e \in Ends, Copy(c, e)
  PROVE  IInv'
<1>. USE DEF IInv
<1>1. /\ copying[c][e] /\ Unread(c, e) > 0
      /\ carried' = [carried EXCEPT ![c][e] = carried[c][e] + 1]
      /\ UNCHANGED <<proc, at, req, log, logged, dialled, sent, ended, reset,
                     dropped, fin, copying>>
  BY DEF Copy, decision, ends
<1>2. carried \in [Conns -> [Ends -> 0 .. MaxChunks]]
  BY DEF TypeOK
<1>3. carried[c][e] \in 0 .. MaxChunks /\ carried[c][e] < MaxChunks
  BY <1>1, <1>2, UnreadType
<1>4. /\ carried' \in [Conns -> [Ends -> 0 .. MaxChunks]]
      /\ carried'[c][e] = carried[c][e] + 1
      /\ \A d \in Conns, k \in Ends : <<d, k>> # <<c, e>> => carried'[d][k] = carried[d][k]
  BY <1>1, <1>2, <1>3, ProxyAssumption
<1>5. TypeOK'
  BY <1>1, <1>4 DEF TypeOK
<1>6. Decided' /\ DialIsLogged'
  BY <1>1 DEF Decided, DialIsLogged
<1>7. NotYet'
  BY <1>1, <1>4 DEF NotYet
<1>8. Counted'
  <2>1. CASE e = "client"
    <3>1. carried[c]["client"] + 1 + dropped[c] <= sent[c]["client"]
      BY <1>1, <2>1, Numbers DEF Unread
    <3>. QED
      BY <1>1, <1>4, <2>1, <3>1 DEF Counted, Ends
  <2>2. CASE e = "upstream"
    <3>1. carried[c]["upstream"] + 1 <= sent[c]["upstream"]
      BY <1>1, <2>2, Numbers DEF Unread
    <3>. QED
      BY <1>1, <1>4, <2>2, <3>1 DEF Counted, Ends
  <2>. QED
    BY <2>1, <2>2 DEF Ends
<1>9. FinIsLast'
  BY <1>1 DEF FinIsLast
<1>10. EofIsHonest'
  BY <1>1, <1>4 DEF EofIsHonest, FinIsLast, Unread
<1>. QED
  BY <1>5, <1>6, <1>7, <1>8, <1>9, <1>10

(* A copy that returns has nothing left to carry, or an end is gone. *)
LEMMA StepCopyEnds ==
  ASSUME IInv, NEW c \in Conns, NEW e \in Ends, CopyEnds(c, e)
  PROVE  IInv'
<1>. USE DEF IInv
<1>1. /\ Returns(c, e)
      /\ copying' = [copying EXCEPT ![c][e] = FALSE]
      /\ fin' = [fin EXCEPT ![c][Other(e)] = TRUE]
      /\ UNCHANGED <<proc, at, req, log, logged, dialled, sent, ended, reset,
                     dropped, carried>>
  BY DEF CopyEnds, decision, ends
<1>2. /\ copying \in [Conns -> [Ends -> BOOLEAN]] /\ fin \in [Conns -> [Ends -> BOOLEAN]]
      /\ Other(e) \in Ends
  BY OtherEnd DEF TypeOK
<1>3. /\ copying' \in [Conns -> [Ends -> BOOLEAN]] /\ fin' \in [Conns -> [Ends -> BOOLEAN]]
      /\ ~copying'[c][e] /\ fin'[c][Other(e)]
      /\ \A d \in Conns, k \in Ends : <<d, k>> # <<c, e>> =>
           copying'[d][k] = copying[d][k] /\ fin'[d][Other(k)] = fin[d][Other(k)]
  BY <1>1, <1>2, OtherEnd
<1>4. TypeOK'
  BY <1>1, <1>3 DEF TypeOK
<1>5. Decided' /\ DialIsLogged'
  BY <1>1 DEF Decided, DialIsLogged
<1>6. NotYet'
  <2>1. at[c] \notin Opening
    BY <1>1 DEF Returns, NotYet
  <2>2. \A d \in Conns : d # c => copying'[d] = copying[d] /\ fin'[d] = fin[d]
    BY <1>1, <1>2
  <2>. QED
    BY <1>1, <2>1, <2>2 DEF NotYet
<1>7. Counted'
  BY <1>1 DEF Counted
<1>8. FinIsLast'
  BY <1>3 DEF FinIsLast
<1>9. EofIsHonest'
  <2>1. ASSUME NEW d \in Conns, NEW k \in Ends
        PROVE  Unread(d, k)' = Unread(d, k)
    BY <1>1 DEF Unread
  <2>2. ~reset[c]["client"] /\ ~reset[c]["upstream"] => ended[c][e] /\ Unread(c, e) = 0
    BY <1>1 DEF Returns, Ends, Other
  <2>3. ASSUME NEW d \in Conns, NEW k \in Ends, fin'[d][Other(k)], at[d] # "cut",
               ~reset[d]["client"], ~reset[d]["upstream"]
        PROVE  ended[d][k] /\ Unread(d, k) = 0
    <3>1. CASE d = c /\ k = e
      BY <2>2, <2>3, <3>1
    <3>2. CASE ~(d = c /\ k = e)
      <4>1. fin[d][Other(k)]
        BY <1>3, <2>3, <3>2
      <4>. QED
        BY <2>3, <4>1 DEF EofIsHonest
    <3>. QED
      BY <3>1, <3>2
  <2>. QED
    BY <1>1, <2>1, <2>3 DEF EofIsHonest
<1>. QED
  BY <1>4, <1>5, <1>6, <1>7, <1>8, <1>9

(* The ends send, finish and reset. *)
LEMMA StepPeer ==
  ASSUME IInv, NEW c \in Conns, NEW e \in Ends, Peer(c, e)
  PROVE  IInv'
<1>. USE DEF IInv
<1>1. UNCHANGED <<proc, at, req, log, logged, dialled, dropped, carried, fin, copying>>
  BY DEF Peer, Send, HalfClose, Reset, decision, relay
<1>2. Decided' /\ DialIsLogged' /\ NotYet' /\ FinIsLast'
  BY <1>1 DEF Decided, DialIsLogged, NotYet, FinIsLast
<1>3. CASE Send(c, e)
  <2>1. /\ sent[c][e] < MaxChunks /\ ~ended[c][e]
        /\ sent' = [sent EXCEPT ![c][e] = sent[c][e] + 1]
        /\ ended' = ended /\ reset' = reset
    BY <1>3 DEF Send
  <2>2. sent \in [Conns -> [Ends -> 0 .. MaxChunks]]
    BY DEF TypeOK
  <2>3. /\ sent' \in [Conns -> [Ends -> 0 .. MaxChunks]]
        /\ sent'[c][e] = sent[c][e] + 1
        /\ \A d \in Conns, k \in Ends : <<d, k>> # <<c, e>> => sent'[d][k] = sent[d][k]
    BY <2>1, <2>2, ProxyAssumption
  <2>4. TypeOK'
    BY <1>1, <2>1, <2>3 DEF TypeOK
  <2>5. Counted'
    <3>1. ASSUME NEW d \in Conns, NEW k \in Ends PROVE sent'[d][k] >= sent[d][k]
      BY <2>3, Numbers
    <3>2. {"client", "upstream"} = Ends
      BY DEF Ends
    <3>3. ASSUME NEW d \in Conns
          PROVE  /\ carried[d]["client"] + dropped[d] <= sent'[d]["client"]
                 /\ carried[d]["upstream"] <= sent'[d]["upstream"]
      <4>1. /\ sent'[d]["client"] >= sent[d]["client"]
            /\ sent'[d]["upstream"] >= sent[d]["upstream"]
        BY <3>1, <3>2
      <4>2. /\ sent'[d]["client"] \in Nat /\ sent'[d]["upstream"] \in Nat
            /\ sent[d]["client"] \in Nat /\ sent[d]["upstream"] \in Nat
            /\ carried[d]["client"] \in Nat /\ carried[d]["upstream"] \in Nat
            /\ dropped[d] \in Nat
        BY <2>3, <3>2, Numbers
      <4>. QED
        BY <4>1, <4>2 DEF Counted
    <3>. QED
      BY <1>1, <3>3 DEF Counted
  <2>6. EofIsHonest'
    BY <1>1, <2>1, <2>3 DEF EofIsHonest, Unread
  <2>. QED
    BY <1>2, <2>4, <2>5, <2>6
<1>4. CASE HalfClose(c, e)
  <2>1. /\ ended' = [ended EXCEPT ![c][e] = TRUE]
        /\ sent' = sent /\ reset' = reset
    BY <1>4 DEF HalfClose
  <2>2. /\ ended' \in [Conns -> [Ends -> BOOLEAN]]
        /\ \A d \in Conns, k \in Ends : ended[d][k] => ended'[d][k]
    BY <2>1 DEF TypeOK
  <2>3. TypeOK' /\ Counted'
    BY <1>1, <2>1, <2>2 DEF TypeOK, Counted
  <2>4. EofIsHonest'
    BY <1>1, <2>1, <2>2 DEF EofIsHonest, Unread
  <2>. QED
    BY <1>2, <2>3, <2>4
<1>5. CASE Reset(c, e)
  <2>1. /\ reset' = [reset EXCEPT ![c][e] = TRUE]
        /\ sent' = sent /\ ended' = ended
    BY <1>5 DEF Reset
  <2>2. /\ reset' \in [Conns -> [Ends -> BOOLEAN]]
        /\ \A d \in Conns, k \in Ends : reset[d][k] => reset'[d][k]
    BY <2>1 DEF TypeOK
  <2>3. TypeOK' /\ Counted'
    BY <1>1, <2>1, <2>2 DEF TypeOK, Counted
  <2>4. EofIsHonest'
    BY <1>1, <2>1, <2>2 DEF EofIsHonest, Unread, Ends
  <2>. QED
    BY <1>2, <2>3, <2>4
<1>. QED
  BY <1>3, <1>4, <1>5 DEF Peer

(* The process stops, and a handler that is done. *)
LEMMA StepProcess ==
  ASSUME IInv,
         \/ Sigterm \/ Drained \/ GraceOver \/ Kill
         \/ \E c \in Conns : Unlink(c)
         \/ UNCHANGED vars
  PROVE  IInv'
<1>. USE DEF IInv
<1>1. UNCHANGED <<req, log, logged, dialled, sent, ended, reset, dropped, carried>>
  BY DEF Sigterm, Drained, GraceOver, Kill, Exit, Unlink, vars, decision, ends, relay
<1>2. /\ proc' \in {"serving", "stopping", "drained", "gave up", "killed"}
      /\ at' \in [Conns -> {"idle", "asked", "dial", "hijack", "tunnel", "done", "cut"}]
      /\ \A c \in Conns : at'[c] = at[c] \/ at'[c] \in {"done", "cut"}
      /\ \A c \in Conns : at[c] = "cut" => at'[c] = "cut"
      /\ copying' \in [Conns -> [Ends -> BOOLEAN]]
      /\ \A c \in Conns, e \in Ends : copying'[c][e] => copying[c][e]
      /\ fin' \in [Conns -> [Ends -> BOOLEAN]]
      /\ \A c \in Conns, e \in Ends :
           fin'[c][e] => fin[c][e] \/ (at'[c] = "cut" /\ ~copying'[c][Other(e)])
  <2>1. CASE Drained \/ GraceOver \/ Kill
    <3>1. PICK how \in {"drained", "gave up", "killed"} : Exit(how)
      BY <2>1 DEF Drained, GraceOver, Kill
    <3>2. /\ proc' = how /\ copying' = [c \in Conns |-> [e \in Ends |-> FALSE]]
          /\ at' = [c \in Conns |-> IF at[c] \in {"idle", "done"} THEN at[c] ELSE "cut"]
      BY <3>1 DEF Exit, None
    <3>5. PICK shown \in SUBSET (Conns \X Ends) :
            fin' = [c \in Conns |-> [e \in Ends |->
                     fin[c][e] \/ (Connected(c, e) /\ <<c, e>> \in shown)]]
      BY <3>1 DEF Exit
    <3>6. fin' \in [Conns -> [Ends -> BOOLEAN]]
      <4>1. \A c \in Conns, e \in Ends :
              (fin[c][e] \/ (Connected(c, e) /\ <<c, e>> \in shown)) \in BOOLEAN
        OBVIOUS
      <4>. QED
        BY <3>5, <4>1
    <3>7. ASSUME NEW c \in Conns, NEW e \in Ends, fin'[c][e], ~fin[c][e]
          PROVE  at'[c] = "cut" /\ ~copying'[c][Other(e)]
      <4>1. Connected(c, e)
        BY <3>5, <3>7
      <4>2. at[c] \notin {"idle", "done"}
        BY <4>1 DEF Connected, Ends
      <4>. QED
        BY <3>2, <4>2, OtherEnd
    <3>3. /\ at' \in [Conns -> {"idle", "asked", "dial", "hijack", "tunnel", "done", "cut"}]
          /\ \A c \in Conns : at'[c] = at[c] \/ at'[c] \in {"done", "cut"}
          /\ \A c \in Conns : at[c] = "cut" => at'[c] = "cut"
      BY <3>2 DEF TypeOK
    <3>4. /\ copying' \in [Conns -> [Ends -> BOOLEAN]]
          /\ \A c \in Conns, e \in Ends : copying'[c][e] => copying[c][e]
      BY <3>2
    <3>. QED
      BY <3>2, <3>3, <3>4, <3>6, <3>7
  <2>2. CASE Sigterm \/ UNCHANGED vars
    BY <2>2 DEF Sigterm, vars, relay, TypeOK
  <2>3. CASE \E c \in Conns : Unlink(c)
    BY <2>3 DEF Unlink, Goto, relay, TypeOK
  <2>. QED
    BY <2>1, <2>2, <2>3
<1>3. TypeOK'
  BY <1>1, <1>2 DEF TypeOK
<1>4. Decided' /\ DialIsLogged' /\ Counted'
  BY <1>1, <1>2 DEF Decided, DialIsLogged, Counted
<1>5. NotYet'
  BY <1>1, <1>2, OtherEnd DEF NotYet, Opening
<1>6. FinIsLast'
  <2>1. ASSUME NEW c \in Conns, NEW e \in Ends, fin'[c][Other(e)]
        PROVE  ~copying'[c][e]
    <3>1. CASE fin[c][Other(e)]
      BY <1>2, <3>1 DEF FinIsLast
    <3>2. CASE ~fin[c][Other(e)]
      <4>1. ~copying'[c][Other(Other(e))]
        BY <1>2, <2>1, <3>2, OtherEnd
      <4>. QED
        BY <4>1, OtherEnd
    <3>. QED
      BY <3>1, <3>2
  <2>. QED
    BY <2>1 DEF FinIsLast
<1>7. EofIsHonest'
  <2>1. ASSUME NEW c \in Conns, NEW e \in Ends, fin'[c][Other(e)], at'[c] # "cut",
               ~reset[c]["client"], ~reset[c]["upstream"]
        PROVE  ended[c][e] /\ Unread(c, e) = 0
    <3>1. fin[c][Other(e)] /\ at[c] # "cut"
      BY <1>2, <2>1, OtherEnd
    <3>. QED
      BY <2>1, <3>1 DEF EofIsHonest
  <2>2. \A c \in Conns, e \in Ends : Unread(c, e)' = Unread(c, e)
    BY <1>1 DEF Unread
  <2>. QED
    BY <1>1, <2>1, <2>2 DEF EofIsHonest
<1>. QED
  BY <1>3, <1>4, <1>5, <1>6, <1>7

LEMMA StepIInv ==
  ASSUME IInv, [Next]_vars
  PROVE  IInv'
<1>1. CASE \E c \in Conns : Handle(c)
  BY <1>1, StepDecision, StepHijack, StepProcess DEF Handle, Serve
<1>2. CASE \E c \in Conns, e \in Ends : Carry(c, e) \/ Peer(c, e)
  BY <1>2, StepCopy, StepCopyEnds, StepPeer DEF Carry
<1>3. CASE Sigterm \/ Drained \/ GraceOver \/ Kill \/ UNCHANGED vars
  BY <1>3, StepProcess
<1>. QED
  BY <1>1, <1>2, <1>3 DEF Next

LEMMA ProxyInvariant == Spec => []IInv
<1>1. IInv /\ [Next]_vars => IInv'
  BY StepIInv
<1>. QED
  BY InitIInv, <1>1, PTL DEF Spec

-----------------------------------------------------------------------------
(* Every variable of the proxy has its type.                                 *)
THEOREM ProxyTypes == Spec => []TypeOK
<1>1. IInv => TypeOK
  BY DEF IInv
<1>. QED
  BY <1>1, ProxyInvariant, PTL

(* No host is dialled but one that was admitted and that the log already     *)
(* names, port included except for a portless https URI (proxy.go:178-197,   *)
(* 269-280), whatever the list and however the proxy ends.                   *)
THEOREM OnlyLoggedDials == Spec => []DialIsLogged
<1>1. IInv => DialIsLogged
  BY DEF IInv
<1>. QED
  BY <1>1, ProxyInvariant, PTL

(* An end shown EOF by a running proxy has been given all the other sent     *)
(* through the tunnel, unless one of them reset (proxy.go:222-245): a copy   *)
(* that ends, in either direction and order, closes no end early.            *)
THEOREM EofsAreHonest == Spec => []EofIsHonest
<1>1. IInv => EofIsHonest
  BY DEF IInv
<1>. QED
  BY <1>1, ProxyInvariant, PTL

=============================================================================
