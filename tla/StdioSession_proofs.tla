------------------------ MODULE StdioSession_proofs ------------------------
(***************************************************************************)
(* Proofs about StdioSession for any number of calls, any pipe size and    *)
(* any package: its type invariant, and the safety properties that the     *)
(* runs check on two calls.                                                *)
(***************************************************************************)
EXTENDS StdioSession, TLAPS

(***************************************************************************)
(* The inductive invariant follows a call's response on its only way to    *)
(* the call: registered in pending, claimed by the reader (hand), handed   *)
(* over (handed, chan).  No two of these hold of one call at once, which   *)
(* is why a send never finds the channel full.                             *)
(***************************************************************************)
InCall == {"lock", "write", "wait", "woken", "forget"}

IdsFresh ==
  \A c \in Calls : /\ id[c] <= next
                   /\ pc[c] = "idle" => id[c] = 0
                   /\ pc[c] \in InCall => id[c] # 0

IdsUnique == \A c, d \in Calls : c # d /\ id[c] = id[d] => id[c] = 0

Registered ==
  \A i \in Ids : pending[i] # Nobody =>
     /\ id[pending[i]] = i
     /\ pc[pending[i]] \in InCall
     /\ handed[pending[i]] = "no"

Claimed ==
  hand # NoHand => /\ pending[hand.id] = Nobody
                   /\ id[hand.to] = hand.id
                   /\ handed[hand.to] = "no"

Channelled ==
  \A c \in Calls :
     /\ chan[c] # 0 => chan[c] = id[c] /\ handed[c] # "no"
     /\ handed[c] # "no" => id[c] # 0
     /\ handed[c] # "no" /\ pc[c] \in {"lock", "write", "wait", "woken"}
          => chan[c] # 0

Ended ==
  /\ closed => \A i \in Ids : pending[i] = Nobody
  /\ \A c \in Calls : out[c] = "closed" \/ pc[c] = "woken" => closed
  /\ \A c \in Calls : pc[c] = "forget" => out[c] \in {"timeout", "broken"}

IInv ==
  /\ TypeOK
  /\ IdsFresh /\ IdsUnique
  /\ Registered /\ Claimed /\ Channelled /\ Ended
  /\ NeverOrphaned /\ PromptAnswerWins

-----------------------------------------------------------------------------
(* A step of Next is a step of one of the named actions. *)
LEMMA NextCases ==
  ASSUME Next
  PROVE  \/ \E c \in Calls : \/ RefuseCall(c) \/ Register(c) \/ Expire(c)
                             \/ TakeAnswer(c) \/ WakeOnDone(c)
                             \/ ReturnClosed(c) \/ WakeOnDeadline(c)
                             \/ Forget(c)
         \/ \E n \in Notes : Notify(n)
         \/ \E w \in Writers : Lock(w) \/ WriteOk(w) \/ WriteFail(w)
         \/ \E i \in Ids : HandleResponse(i)
         \/ \E r \in SrvReqs : HandleRequest(r)
         \/ SkipFrame \/ Deliver \/ StreamEnd \/ ReaderShut
         \/ CloseShut \/ CloseStdin
         \/ \E i \in Ids : Answer(i)
         \/ \E r \in SrvReqs : Ask(r)
         \/ Chatter \/ ReadStdin \/ Exit \/ Reap
BY DEF Next, CallStep, Select, Write, Read, Package

-----------------------------------------------------------------------------
(* Type correctness. *)
LEMMA TypeInit == Init => TypeOK
<1>. SUFFICES ASSUME Init PROVE TypeOK
  OBVIOUS
<1>. USE SessionAssumption DEF Init
<1>1. /\ next \in 0..MaxId /\ stdin \in 0..PipeCap /\ said \in 0..MaxOut
      /\ id \in [Calls -> 0..MaxId] /\ chan \in [Calls -> 0..MaxId]
  OBVIOUS
<1>2. /\ pending \in [Ids -> Calls \union {Nobody}]
      /\ wmu \in Writers \union {Nobody}
      /\ pc \in [Writers -> PCs]
      /\ out \in [Calls -> Outcomes]
      /\ handed \in [Calls -> {"no", "prompt", "late"}]
  BY DEF PCs, Outcomes
<1>3. stdout \in Seq(Frames)
  OBVIOUS
<1>. QED
  BY <1>1, <1>2, <1>3 DEF TypeOK

LEMMA TypeStep ==
  ASSUME TypeOK, [Next]_vars
  PROVE  TypeOK'
<1>. USE SessionAssumption
     DEF TypeOK, vars, session, callers, reader, pipes, package, Goto, Return
<1>1. ASSUME NEW c \in Calls, RefuseCall(c) PROVE TypeOK'
  BY <1>1 DEF RefuseCall, PCs, Outcomes, Ids, Writers
<1>2. ASSUME NEW c \in Calls, Register(c) PROVE TypeOK'
  BY <1>2 DEF Register, PCs, Outcomes, Ids, Writers
<1>3. ASSUME NEW c \in Calls, Expire(c) PROVE TypeOK'
  BY <1>3 DEF Expire, PCs, Outcomes, Ids, Writers
<1>4. ASSUME NEW c \in Calls, TakeAnswer(c) PROVE TypeOK'
  BY <1>4 DEF TakeAnswer, PCs, Outcomes, Ids, Writers
<1>5. ASSUME NEW c \in Calls, WakeOnDone(c) PROVE TypeOK'
  BY <1>5 DEF WakeOnDone, PCs, Outcomes, Ids, Writers
<1>6. ASSUME NEW c \in Calls, ReturnClosed(c) PROVE TypeOK'
  BY <1>6 DEF ReturnClosed, PCs, Outcomes, Ids, Writers
<1>7. ASSUME NEW c \in Calls, WakeOnDeadline(c) PROVE TypeOK'
  BY <1>7 DEF WakeOnDeadline, PCs, Outcomes, Ids, Writers
<1>8. ASSUME NEW c \in Calls, Forget(c) PROVE TypeOK'
  <2>1. pending' \in [Ids -> Calls \union {Nobody}]
    BY <1>8 DEF Forget
  <2>2. pc' \in [Writers -> PCs]
    BY <1>8 DEF Forget, PCs, Writers
  <2> QED BY <1>8, <2>1, <2>2 DEF Forget
<1>9. ASSUME NEW n \in Notes, Notify(n) PROVE TypeOK'
  BY <1>9 DEF Notify, PCs, Writers
<1>10. ASSUME NEW w \in Writers, Lock(w) PROVE TypeOK'
  BY <1>10 DEF Lock, PCs, Outcomes
<1>11. ASSUME NEW w \in Writers, WriteOk(w) PROVE TypeOK'
  BY <1>11 DEF WriteOk, PCs, Outcomes
<1>12. ASSUME NEW w \in Writers, WriteFail(w) PROVE TypeOK'
  BY <1>12 DEF WriteFail, PCs, Outcomes
<1>13. ASSUME NEW i \in Ids, HandleResponse(i) PROVE TypeOK'
  BY <1>13 DEF HandleResponse, ReadFrame, NoHand
<1>14. ASSUME NEW r \in SrvReqs, HandleRequest(r) PROVE TypeOK'
  BY <1>14 DEF HandleRequest, ReadFrame, PCs, Writers
<1>15. CASE SkipFrame
  BY <1>15 DEF SkipFrame, ReadFrame
<1>16. CASE Deliver
  BY <1>16 DEF Deliver, NoHand, Ids
<1>17. CASE StreamEnd
  BY <1>17 DEF StreamEnd
<1>18. CASE ReaderShut
  BY <1>18 DEF ReaderShut, Shut
<1>19. CASE CloseShut
  BY <1>19 DEF CloseShut, Shut
<1>20. CASE CloseStdin
  BY <1>20 DEF CloseStdin
<1>21. ASSUME NEW i \in Ids, Answer(i) PROVE TypeOK'
  BY <1>21 DEF Answer, Say, Frames
<1>22. ASSUME NEW r \in SrvReqs, Ask(r) PROVE TypeOK'
  BY <1>22 DEF Ask, Say, Frames
<1>23. CASE Chatter
  BY <1>23 DEF Chatter, Say, Frames
<1>24. CASE ReadStdin
  BY <1>24 DEF ReadStdin
<1>25. CASE Exit
  BY <1>25 DEF Exit
<1>26. CASE Reap
  BY <1>26 DEF Reap
<1>27. CASE UNCHANGED vars
  BY <1>27
<1>28. QED
  BY NextCases, <1>1, <1>2, <1>3, <1>4, <1>5, <1>6, <1>7, <1>8, <1>9, <1>10, <1>11, <1>12, <1>13, <1>14, <1>15, <1>16, <1>17, <1>18, <1>19, <1>20, <1>21, <1>22, <1>23, <1>24, <1>25, <1>26, <1>27

(* Every variable keeps its type (the state of probe.go's stdioSession and   *)
(* of the goroutines around it).                                             *)
THEOREM TypeCorrect == Spec => []TypeOK
<1>1. Init => TypeOK
  BY TypeInit
<1>2. TypeOK /\ [Next]_vars => TypeOK'
  BY TypeStep
<1>3. QED
  BY <1>1, <1>2, PTL DEF Spec

-----------------------------------------------------------------------------
(* The inductive invariant is established and kept. *)
LEMMA SafetyInit == Init => IInv
<1>. SUFFICES ASSUME Init PROVE IInv
  OBVIOUS
<1>1. TypeOK
  BY TypeInit
<1>2. /\ IdsFresh /\ IdsUnique /\ Registered /\ Claimed /\ Channelled
      /\ Ended /\ NeverOrphaned /\ PromptAnswerWins
  BY SessionAssumption
     DEF Init, IdsFresh, IdsUnique, Registered, Claimed, Channelled, Ended,
         NeverOrphaned, PromptAnswerWins, InCall, Writers
<1>. QED
  BY <1>1, <1>2 DEF IInv

(* What the invariant reads; most steps of the package leave it all alone. *)
watched == <<next, pending, closed, pc, id, chan, out, handed, hand>>

LEMMA SafetyStutter ==
  ASSUME IInv, TypeOK', UNCHANGED watched
  PROVE  IInv'
BY DEF IInv, watched, IdsFresh, IdsUnique, Registered, Claimed, Channelled,
       Ended, NeverOrphaned, PromptAnswerWins

LEMMA SafetyStep ==
  ASSUME IInv, [Next]_vars
  PROVE  IInv'
<1>. USE SessionAssumption
     DEF IInv, TypeOK, session, callers, reader, pipes, package,
         Goto, Return, InCall, Writers
<1>0. TypeOK'
  BY TypeStep DEF IInv
<1>1. ASSUME NEW c \in Calls, RefuseCall(c) PROVE IInv'
  <2>. USE <1>1 DEF RefuseCall
  <2>1. PromptAnswerWins'
    BY DEF PromptAnswerWins, Channelled, IdsFresh
  <2>2. IdsFresh' /\ IdsUnique' /\ Registered' /\ Claimed'
    BY DEF IdsFresh, IdsUnique, Registered, Claimed
  <2>3. Channelled' /\ Ended' /\ NeverOrphaned'
    BY DEF Channelled, Ended, NeverOrphaned
  <2>. QED
    BY <1>0, <2>1, <2>2, <2>3 DEF IInv
<1>2. ASSUME NEW c \in Calls, Register(c) PROVE IInv'
  <2>. USE <1>2 DEF Register
  <2>1. IdsUnique'
    BY DEF IdsUnique, IdsFresh
  <2>2. Registered'
    BY DEF Registered, IdsFresh, Channelled
  <2>3. Claimed'
    BY DEF Claimed, IdsFresh, NoHand, Ids
  <2>4. Channelled'
    BY DEF Channelled, IdsFresh
  <2>5. NeverOrphaned'
    <3>. SUFFICES ASSUME NEW d \in Calls, ~closed',
                         pc'[d] \in {"lock", "write", "wait"}
                  PROVE  \/ pending'[id'[d]] = d
                         \/ hand'.to = d
                         \/ chan'[d] # 0
      BY DEF NeverOrphaned
    <3>1. CASE d = c
      BY <3>1 DEF Ids
    <3>2. CASE d # c
      <4>1. id'[d] = id[d] /\ id[d] # next + 1
        BY <3>2 DEF IdsFresh
      <4>. QED
        BY <3>2, <4>1 DEF NeverOrphaned
    <3>. QED
      BY <3>1, <3>2
  <2>6. IdsFresh' /\ Ended' /\ PromptAnswerWins'
    BY DEF IdsFresh, Ended, PromptAnswerWins
  <2>. QED
    BY <1>0, <2>1, <2>2, <2>3, <2>4, <2>5, <2>6 DEF IInv
<1>3. ASSUME NEW c \in Calls, TakeAnswer(c) PROVE IInv'
  <2>. USE <1>3 DEF TakeAnswer
  <2>1. Registered'
    BY DEF Registered, Channelled
  <2>2. IdsFresh' /\ IdsUnique' /\ Claimed' /\ Channelled'
    BY DEF IdsFresh, IdsUnique, Claimed, Channelled
  <2>3. Ended' /\ NeverOrphaned' /\ PromptAnswerWins'
    BY DEF Ended, NeverOrphaned, PromptAnswerWins
  <2>. QED
    BY <1>0, <2>1, <2>2, <2>3 DEF IInv
<1>4. ASSUME NEW c \in Calls, WakeOnDone(c) PROVE IInv'
  <2>. USE <1>4 DEF WakeOnDone
  <2>1. IdsFresh' /\ IdsUnique' /\ Registered' /\ Claimed'
    BY DEF IdsFresh, IdsUnique, Registered, Claimed
  <2>2. Channelled' /\ Ended' /\ NeverOrphaned' /\ PromptAnswerWins'
    BY DEF Channelled, Ended, NeverOrphaned, PromptAnswerWins
  <2>. QED
    BY <1>0, <2>1, <2>2 DEF IInv
<1>5. ASSUME NEW c \in Calls, ReturnClosed(c) PROVE IInv'
  <2>. USE <1>5 DEF ReturnClosed
  <2>1. Registered'
    BY DEF Registered, Ended
  <2>2. PromptAnswerWins'
    BY DEF PromptAnswerWins, Channelled
  <2>3. IdsFresh' /\ IdsUnique' /\ Claimed' /\ Channelled'
    BY DEF IdsFresh, IdsUnique, Claimed, Channelled
  <2>4. Ended' /\ NeverOrphaned'
    BY DEF Ended, NeverOrphaned
  <2>. QED
    BY <1>0, <2>1, <2>2, <2>3, <2>4 DEF IInv
<1>6. ASSUME NEW c \in Calls, WakeOnDeadline(c) PROVE IInv'
  <2>. USE <1>6 DEF WakeOnDeadline
  <2>1. IdsFresh' /\ IdsUnique' /\ Registered' /\ Claimed'
    BY DEF IdsFresh, IdsUnique, Registered, Claimed
  <2>2. Channelled' /\ Ended' /\ NeverOrphaned' /\ PromptAnswerWins'
    BY DEF Channelled, Ended, NeverOrphaned, PromptAnswerWins
  <2>. QED
    BY <1>0, <2>1, <2>2 DEF IInv
<1>7. ASSUME NEW c \in Calls, Forget(c) PROVE IInv'
  <2>. USE <1>7 DEF Forget
  <2>1. NeverOrphaned'
    BY DEF NeverOrphaned, IdsFresh, IdsUnique
  <2>2. IdsFresh' /\ IdsUnique' /\ Registered' /\ Claimed'
    BY DEF IdsFresh, IdsUnique, Registered, Claimed
  <2>3. Channelled' /\ Ended' /\ PromptAnswerWins'
    BY DEF Channelled, Ended, PromptAnswerWins
  <2>. QED
    BY <1>0, <2>1, <2>2, <2>3 DEF IInv
<1>8. ASSUME NEW n \in Notes, Notify(n) PROVE IInv'
  <2>. USE <1>8 DEF Notify
  <2>1. IdsFresh' /\ IdsUnique' /\ Registered' /\ Claimed'
    BY DEF IdsFresh, IdsUnique, Registered, Claimed
  <2>2. Channelled' /\ Ended' /\ NeverOrphaned' /\ PromptAnswerWins'
    BY DEF Channelled, Ended, NeverOrphaned, PromptAnswerWins
  <2>. QED
    BY <1>0, <2>1, <2>2 DEF IInv
<1>9. ASSUME NEW w \in Writers, Lock(w) PROVE IInv'
  <2>. USE <1>9 DEF Lock
  <2>1. IdsFresh' /\ IdsUnique' /\ Registered' /\ Claimed'
    BY DEF IdsFresh, IdsUnique, Registered, Claimed
  <2>2. Channelled' /\ Ended' /\ NeverOrphaned' /\ PromptAnswerWins'
    BY DEF Channelled, Ended, NeverOrphaned, PromptAnswerWins
  <2>. QED
    BY <1>0, <2>1, <2>2 DEF IInv
<1>10. ASSUME NEW w \in Writers, WriteOk(w) PROVE IInv'
  <2>. USE <1>10 DEF WriteOk
  <2>1. IdsFresh' /\ IdsUnique' /\ Registered' /\ Claimed'
    BY DEF IdsFresh, IdsUnique, Registered, Claimed
  <2>2. Channelled' /\ Ended' /\ NeverOrphaned' /\ PromptAnswerWins'
    BY DEF Channelled, Ended, NeverOrphaned, PromptAnswerWins
  <2>. QED
    BY <1>0, <2>1, <2>2 DEF IInv
<1>11. ASSUME NEW w \in Writers, WriteFail(w) PROVE IInv'
  <2>. USE <1>11 DEF WriteFail
  <2>1. IdsFresh' /\ IdsUnique' /\ Registered' /\ Claimed'
    BY DEF IdsFresh, IdsUnique, Registered, Claimed
  <2>2. Channelled' /\ Ended' /\ NeverOrphaned' /\ PromptAnswerWins'
    BY DEF Channelled, Ended, NeverOrphaned, PromptAnswerWins
  <2>. QED
    BY <1>0, <2>1, <2>2 DEF IInv
<1>12. ASSUME NEW i \in Ids, HandleResponse(i) PROVE IInv'
  <2>. USE <1>12 DEF HandleResponse, ReadFrame
  <2>1. Claimed'
    BY DEF Claimed, Registered
  <2>2. NeverOrphaned'
    BY DEF NeverOrphaned, Registered, NoHand
  <2>3. IdsFresh' /\ IdsUnique' /\ Registered' /\ Channelled'
    BY DEF IdsFresh, IdsUnique, Registered, Channelled
  <2>4. Ended' /\ PromptAnswerWins'
    BY DEF Ended, PromptAnswerWins
  <2>. QED
    BY <1>0, <2>1, <2>2, <2>3, <2>4 DEF IInv
<1>13. ASSUME NEW r \in SrvReqs, HandleRequest(r) PROVE IInv'
  <2>. USE <1>13 DEF HandleRequest, ReadFrame
  <2>1. IdsFresh' /\ IdsUnique' /\ Registered' /\ Claimed'
    BY DEF IdsFresh, IdsUnique, Registered, Claimed
  <2>2. Channelled' /\ Ended' /\ NeverOrphaned' /\ PromptAnswerWins'
    BY DEF Channelled, Ended, NeverOrphaned, PromptAnswerWins
  <2>. QED
    BY <1>0, <2>1, <2>2 DEF IInv
<1>14. CASE Deliver
  <2>. USE <1>14 DEF Deliver
  <2>1. Registered'
    BY DEF Registered, Claimed
  <2>2. Channelled'
    BY DEF Channelled, Claimed, NoHand, Ids
  <2>3. NeverOrphaned'
    BY DEF NeverOrphaned, NoHand, Ids
  <2>4. PromptAnswerWins'
    BY DEF PromptAnswerWins, Ended
  <2>5. IdsFresh' /\ IdsUnique' /\ Claimed' /\ Ended'
    BY DEF IdsFresh, IdsUnique, Claimed, Ended
  <2>. QED
    BY <1>0, <2>1, <2>2, <2>3, <2>4, <2>5 DEF IInv
<1>15. CASE ReaderShut
  <2>. USE <1>15 DEF ReaderShut, Shut
  <2>1. IdsFresh' /\ IdsUnique' /\ Registered' /\ Claimed'
    BY DEF IdsFresh, IdsUnique, Registered, Claimed
  <2>2. Channelled' /\ Ended' /\ NeverOrphaned' /\ PromptAnswerWins'
    BY DEF Channelled, Ended, NeverOrphaned, PromptAnswerWins
  <2>. QED
    BY <1>0, <2>1, <2>2 DEF IInv
<1>16. CASE CloseShut
  <2>. USE <1>16 DEF CloseShut, Shut
  <2>1. IdsFresh' /\ IdsUnique' /\ Registered' /\ Claimed'
    BY DEF IdsFresh, IdsUnique, Registered, Claimed
  <2>2. Channelled' /\ Ended' /\ NeverOrphaned' /\ PromptAnswerWins'
    BY DEF Channelled, Ended, NeverOrphaned, PromptAnswerWins
  <2>. QED
    BY <1>0, <2>1, <2>2 DEF IInv
<1>17. ASSUME NEW c \in Calls, Expire(c) PROVE IInv'
  BY <1>0, <1>17, SafetyStutter DEF Expire, watched
<1>18. CASE SkipFrame
  BY <1>0, <1>18, SafetyStutter DEF SkipFrame, ReadFrame, watched
<1>19. CASE StreamEnd
  BY <1>0, <1>19, SafetyStutter DEF StreamEnd, watched
<1>20. CASE CloseStdin
  BY <1>0, <1>20, SafetyStutter DEF CloseStdin, watched
<1>21. ASSUME NEW i \in Ids, Answer(i) PROVE IInv'
  BY <1>0, <1>21, SafetyStutter DEF Answer, Say, watched
<1>22. ASSUME NEW r \in SrvReqs, Ask(r) PROVE IInv'
  BY <1>0, <1>22, SafetyStutter DEF Ask, Say, watched
<1>23. CASE Chatter
  BY <1>0, <1>23, SafetyStutter DEF Chatter, Say, watched
<1>24. CASE ReadStdin
  BY <1>0, <1>24, SafetyStutter DEF ReadStdin, watched
<1>25. CASE Exit
  BY <1>0, <1>25, SafetyStutter DEF Exit, watched
<1>26. CASE Reap
  BY <1>0, <1>26, SafetyStutter DEF Reap, watched
<1>27. CASE UNCHANGED vars
  BY <1>0, <1>27, SafetyStutter DEF vars, watched
<1>. QED
  BY NextCases, <1>1, <1>2, <1>3, <1>4, <1>5, <1>6, <1>7, <1>8, <1>9, <1>10,
         <1>11, <1>12, <1>13, <1>14, <1>15, <1>16, <1>17, <1>18, <1>19,
         <1>20, <1>21, <1>22, <1>23, <1>24, <1>25, <1>26, <1>27

LEMMA SafetyInvariant == Spec => []IInv
<1>1. Init => IInv
  BY SafetyInit
<1>2. IInv /\ [Next]_vars => IInv'
  BY SafetyStep
<1>. QED
  BY <1>1, <1>2, PTL DEF Spec

-----------------------------------------------------------------------------
(* The reader's send of a response never finds the channel full, whatever    *)
(* the package answers and however often (probe.go:178-185).                 *)
THEOREM ReaderNeverBlocked == Spec => []ReaderNeverBlocks
<1>1. IInv => ReaderNeverBlocks
  BY DEF IInv, TypeOK, Claimed, Channelled, ReaderNeverBlocks
<1>. QED
  BY <1>1, SafetyInvariant, PTL

(* A call only ever receives the response to its own request (probe.go:      *)
(* 180, 253-257).                                                            *)
THEOREM OnlyOwnAnswer == Spec => []OwnAnswer
<1>1. IInv => OwnAnswer
  BY DEF IInv, Channelled, IdsUnique, OwnAnswer
<1>. QED
  BY <1>1, SafetyInvariant, PTL

(* No return path of a call leaves its entry in pending (probe.go:264-288).  *)
THEOREM NoEntryLeaks == Spec => []NoLeakedEntry
<1>1. IInv => NoLeakedEntry
  BY DEF IInv, Registered, NoLeakedEntry, InCall
<1>. QED
  BY <1>1, SafetyInvariant, PTL

(* A call waiting on an open session can still be reached by its response:   *)
(* it is registered, or the response is claimed for it or in its channel.    *)
THEOREM NobodyOrphaned == Spec => []NeverOrphaned
<1>1. IInv => NeverOrphaned
  BY DEF IInv
<1>. QED
  BY <1>1, SafetyInvariant, PTL

(* A response that came before the session's end is returned in preference   *)
(* to it, whichever case of the select fires (probe.go:273-279).             *)
THEOREM PromptAnswersWin == Spec => []PromptAnswerWins
<1>1. IInv => PromptAnswerWins
  BY DEF IInv
<1>. QED
  BY <1>1, SafetyInvariant, PTL

-----------------------------------------------------------------------------
(* The session implements its contract. *)
phases == [c \in Calls |-> Phase(c)]

LEMMA ContractInit == Init => Contract!Init
BY DEF Init, Contract!Init, Phase, Writers

(* Steps that change neither the phases, closed nor handed are stutters. *)
LEMMA ContractStutter ==
  ASSUME UNCHANGED <<closed, handed>>,
         \A c \in Calls : Phase(c)' = Phase(c)
  PROVE  UNCHANGED Contract!vars
BY DEF Contract!vars

(* A step that moves one call's phase and nothing else. *)
LEMMA ContractMove ==
  ASSUME IInv, NEW c \in Calls, UNCHANGED handed, NEW s,
         pc' = [pc EXCEPT ![c] = s],
         \A d \in Calls \ {c} : out'[d] = out[d]
  PROVE  phases' = [phases EXCEPT ![c] = Phase(c)']
BY DEF IInv, TypeOK, Phase, phases, Writers

LEMMA ContractStep ==
  ASSUME IInv, [Next]_vars
  PROVE  [Contract!Next]_(Contract!vars)
<1>. USE SessionAssumption
     DEF IInv, TypeOK, session, callers, reader, pipes, package, Goto, Return,
         Writers
<1>1. ASSUME NEW c \in Calls, RefuseCall(c) PROVE Contract!Begin(c)
  BY <1>1, ContractMove DEF RefuseCall, Contract!Begin, Phase, phases
<1>2. ASSUME NEW c \in Calls, Register(c) PROVE Contract!Begin(c)
  BY <1>2, ContractMove DEF Register, Contract!Begin, Phase, phases
<1>3. ASSUME NEW c \in Calls, TakeAnswer(c) PROVE Contract!Finish(c, "ok")
  BY <1>3, ContractMove DEF TakeAnswer, Contract!Finish, Phase, phases, Channelled
<1>4. ASSUME NEW c \in Calls, ReturnClosed(c) PROVE Contract!Finish(c, "closed")
  BY <1>4, ContractMove DEF ReturnClosed, Contract!Finish, Phase, phases, Channelled,
     Ended
<1>5. ASSUME NEW c \in Calls, Forget(c) PROVE Contract!Finish(c, out[c])
  BY <1>5, ContractMove DEF Forget, Contract!Finish, Phase, phases, Ended
<1>6. CASE Deliver
  <2>1. /\ hand.to \in Calls /\ id[hand.to] # 0
        /\ handed[hand.to] = "no"
    BY <1>6 DEF Deliver, Claimed, Ids
  <2>2. Phase(hand.to) # "idle" /\ UNCHANGED <<phases, closed>>
    BY <1>6, <2>1 DEF Deliver, Phase, phases, IdsFresh, Outcomes
  <2>. QED
    BY <1>6, <2>1, <2>2 DEF Deliver, Contract!Next, Contract!Hand, phases
<1>7. CASE ReaderShut
  BY <1>7 DEF ReaderShut, Shut, Contract!Next, Contract!End, Contract!vars, Phase
<1>8. CASE CloseShut
  BY <1>8 DEF CloseShut, Shut, Contract!Next, Contract!End, Contract!vars, Phase
<1>9. ASSUME NEW c \in Calls, Expire(c) \/ WakeOnDone(c) \/ WakeOnDeadline(c)
      PROVE  UNCHANGED Contract!vars
  BY <1>9, ContractStutter DEF Expire, WakeOnDone, WakeOnDeadline, Phase
<1>10. ASSUME NEW w \in Writers,
              Lock(w) \/ WriteOk(w) \/ WriteFail(w)
       PROVE  UNCHANGED Contract!vars
  BY <1>10, ContractStutter DEF Lock, WriteOk, WriteFail, Phase
<1>11. ASSUME NEW w \in Writers \ Calls, Notify(w) \/ HandleRequest(w)
       PROVE  UNCHANGED Contract!vars
  BY <1>11, ContractStutter DEF Notify, HandleRequest, Phase
<1>12. ASSUME NEW i \in Ids, HandleResponse(i) \/ Answer(i)
       PROVE  UNCHANGED Contract!vars
  BY <1>12, ContractStutter DEF HandleResponse, Answer, Say, Phase
<1>13. ASSUME NEW r \in SrvReqs, Ask(r) PROVE UNCHANGED Contract!vars
  BY <1>13, ContractStutter DEF Ask, Say, Phase
<1>14. CASE SkipFrame \/ StreamEnd \/ CloseStdin
  BY <1>14, ContractStutter DEF SkipFrame, StreamEnd, CloseStdin, Phase
<1>15. CASE Chatter \/ ReadStdin \/ Exit \/ Reap
  BY <1>15, ContractStutter DEF Chatter, Say, ReadStdin, Exit, Reap, Phase
<1>16. CASE UNCHANGED vars
  BY <1>16, ContractStutter DEF vars, Phase
<1>. QED
  <2>1. \A c \in Calls : Contract!Begin(c) => Contract!Next
    BY DEF Contract!Next
  <2>2. \A c \in Calls : \A o \in {"ok", "closed", "timeout", "broken"} :
           Contract!Finish(c, o) => Contract!Next
    BY DEF Contract!Next
  <2>3. ASSUME NEW c \in Calls, Forget(c) PROVE Contract!Next
    BY <1>5, <2>2, <2>3 DEF Forget, Ended
  <2>. QED
    BY <1>1, <1>2, <1>3, <1>4, <1>6, <1>7, <1>8, <1>9, <1>10, <1>11, <1>12,
       <1>13, <1>14, <1>15, <1>16, <2>1, <2>2, <2>3, NextCases

(* The session of probe.go keeps the promise of the Session interface and    *)
(* of ErrSessionClosed (probe.go:54-70): see SessionContract.                *)
THEOREM ContractHolds == Spec => ContractSpec
<1>1. Init => Contract!Init
  BY ContractInit
<1>2. IInv /\ [Next]_vars => [Contract!Next]_(Contract!vars)
  BY ContractStep
<1>. QED
  BY <1>1, <1>2, SafetyInvariant, PTL DEF Spec, ContractSpec, Contract!Spec

=============================================================================
