------------------------- MODULE SmokeStack_proofs -------------------------
(* Proofs about SmokeStack for any set of package containers. *)
EXTENDS SmokeStack, TLAPS

(***************************************************************************)
(* DownNilStopsAll is not inductive: that a docker run still under way     *)
(* cannot start its container after a Down returned nil rests on the       *)
(* network being gone, which rests on the order of Up and of Down.         *)
(***************************************************************************)
BeforeUp ==
  pc = "create" => ~netMade /\ ~proxyMade /\ result = "none"

BeforeStart ==
  pc \in {"create", "proxy", "connect", "wait"} =>
     /\ \A p \in Pkgs : cli[p] = "none"
     /\ pc # "connect" /\ pc # "wait" => \A b \in Boxes : box[b] = "none"

AfterUp ==
  pc \in {"proxy", "connect", "wait", "ready"} => netMade /\ proxyMade

NetKnown ==
  /\ net /\ ~netMade => \A p \in Pkgs : cli[p] # "created"
  /\ net /\ ~netMade => \A p \in Pkgs : cli[p] # "launched"

NilMeansNoNet == result = "nil" => ~netMade

IInv ==
  /\ TypeOK
  /\ BeforeUp /\ BeforeStart /\ AfterUp /\ NetKnown /\ NilMeansNoNet
  /\ Recorded

LEMMA InitIInv == Init => IInv
BY StackAssumption
   DEF Init, IInv, TypeOK, BeforeUp, BeforeStart, AfterUp, NetKnown,
       NilMeansNoNet, Recorded, Boxes

LEMMA StepIInv ==
  ASSUME IInv, [Next]_vars
  PROVE  IInv'
<1>. USE StackAssumption
     DEF IInv, TypeOK, BeforeUp, BeforeStart, AfterUp, NetKnown, NilMeansNoNet,
         Recorded, Boxes, stack, down, docker
<1>1. CASE NetworkCreate
  <2>1. TypeOK'
    BY <1>1 DEF NetworkCreate
  <2>2. BeforeUp'
    BY <1>1 DEF NetworkCreate
  <2>3. BeforeStart'
    BY <1>1 DEF NetworkCreate
  <2>4. AfterUp'
    BY <1>1 DEF NetworkCreate
  <2>5. NetKnown'
    BY <1>1 DEF NetworkCreate
  <2>6. NilMeansNoNet'
    BY <1>1 DEF NetworkCreate
  <2>7. Recorded'
    BY <1>1 DEF NetworkCreate
  <2>. QED
    BY <2>1, <2>2, <2>3, <2>4, <2>5, <2>6, <2>7
<1>2. CASE RunProxy
  BY <1>2 DEF RunProxy
<1>3. CASE ConnectBridge
  BY <1>3 DEF ConnectBridge
<1>4. CASE WaitRunning
  BY <1>4 DEF WaitRunning
<1>5. ASSUME NEW p \in Pkgs, Start(p) PROVE IInv'
  BY <1>5 DEF Start
<1>6. CASE DownBegin
  BY <1>6 DEF DownBegin
<1>7. ASSUME NEW p \in Pkgs, RemovePkg(p) PROVE IInv'
  <2>1. TypeOK'
    BY <1>7 DEF RemovePkg, RemoveFails, BoxMaybeGone
  <2>2. BeforeUp'
    BY <1>7 DEF RemovePkg, RemoveFails, BoxMaybeGone
  <2>3. BeforeStart'
    BY <1>7 DEF RemovePkg, RemoveFails, BoxMaybeGone
  <2>4. AfterUp'
    BY <1>7 DEF RemovePkg, RemoveFails, BoxMaybeGone
  <2>5. NetKnown'
    BY <1>7 DEF RemovePkg, RemoveFails, BoxMaybeGone
  <2>6. NilMeansNoNet'
    BY <1>7 DEF RemovePkg, RemoveFails, BoxMaybeGone
  <2>7. Recorded'
    BY <1>7 DEF RemovePkg, RemoveFails, BoxMaybeGone
  <2>. QED
    BY <2>1, <2>2, <2>3, <2>4, <2>5, <2>6, <2>7
<1>8. CASE RemoveProxy
  <2>1. TypeOK'
    BY <1>8 DEF RemoveProxy, RemoveFails, BoxMaybeGone
  <2>2. BeforeUp'
    BY <1>8 DEF RemoveProxy, RemoveFails, BoxMaybeGone
  <2>3. BeforeStart'
    BY <1>8 DEF RemoveProxy, RemoveFails, BoxMaybeGone
  <2>4. AfterUp'
    BY <1>8 DEF RemoveProxy, RemoveFails, BoxMaybeGone
  <2>5. NetKnown'
    BY <1>8 DEF RemoveProxy, RemoveFails, BoxMaybeGone
  <2>6. NilMeansNoNet'
    BY <1>8 DEF RemoveProxy, RemoveFails, BoxMaybeGone
  <2>7. Recorded'
    BY <1>8 DEF RemoveProxy, RemoveFails, BoxMaybeGone
  <2>. QED
    BY <2>1, <2>2, <2>3, <2>4, <2>5, <2>6, <2>7
<1>9. CASE RemoveNetwork
  <2>1. TypeOK'
    BY <1>9 DEF RemoveNetwork, RemoveFails
  <2>2. BeforeUp'
    BY <1>9 DEF RemoveNetwork, RemoveFails
  <2>3. BeforeStart'
    BY <1>9 DEF RemoveNetwork, RemoveFails
  <2>4. AfterUp'
    BY <1>9 DEF RemoveNetwork, RemoveFails
  <2>5. NetKnown'
    BY <1>9 DEF RemoveNetwork, RemoveFails
  <2>6. NilMeansNoNet'
    BY <1>9 DEF RemoveNetwork, RemoveFails
  <2>7. Recorded'
    BY <1>9 DEF RemoveNetwork, RemoveFails
  <2>. QED
    BY <2>1, <2>2, <2>3, <2>4, <2>5, <2>6, <2>7
<1>10. ASSUME NEW p \in Pkgs, Land(p) PROVE IInv'
  BY <1>10 DEF Land
<1>11. ASSUME NEW p \in Pkgs, Boot(p) PROVE IInv'
  BY <1>11 DEF Boot
<1>12. ASSUME NEW p \in Pkgs, LaunchEnds(p) PROVE IInv'
  BY <1>12 DEF LaunchEnds
<1>13. ASSUME NEW b \in Boxes, BoxExits(b) PROVE IInv'
  BY <1>13 DEF BoxExits
<1>14. CASE Cancel
  BY <1>14 DEF Cancel
<1>15. CASE UNCHANGED vars
  BY <1>15 DEF vars
<1>. QED
  BY <1>1, <1>2, <1>3, <1>4, <1>5, <1>6, <1>7, <1>8, <1>9, <1>10, <1>11,
     <1>12, <1>13, <1>14, <1>15 DEF Next, Up, DownStep, Docker

LEMMA StackInvariant == Spec => []IInv
<1>1. IInv /\ [Next]_vars => IInv'
  BY StepIInv
<1>. QED
  BY InitIInv, <1>1, PTL DEF Spec

(* Every variable keeps its type.                                            *)
THEOREM StackTypes == Spec => []TypeOK
<1>1. IInv => TypeOK
  BY DEF IInv
<1>. QED
  BY <1>1, StackInvariant, PTL

(* A container that could outlive the run is on record (container.go:        *)
(* 422-425).                                                                 *)
THEOREM AllRecorded == Spec => []Recorded
<1>1. IInv => Recorded
  BY DEF IInv
<1>. QED
  BY <1>1, StackInvariant, PTL

(* After a Down that returned nil no container of the run is running, nor    *)
(* will one ever be (container.go:588-621).                                  *)
THEOREM NilDownStopsAll == Spec => []DownNilStopsAll
<1>1. IInv => DownNilStopsAll
  BY DEF IInv, NilMeansNoNet, Recorded, DownNilStopsAll
<1>. QED
  BY <1>1, StackInvariant, PTL

=============================================================================
