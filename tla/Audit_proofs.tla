---------------------------- MODULE Audit_proofs ----------------------------
(***************************************************************************)
(* For any servers, recipes, records and cap.  What main lets through by a *)
(* waiver was checked at most MaxWaiverDays ago, and no merged recipe is   *)
(* refused for its dates later: a check bounds every expires by its own    *)
(* day, days only pass, and the merge carries the check's day along.  A    *)
(* pass is justified.  Versions are ordered, findings name the nearest     *)
(* fixes, and licences are read as SPDX means them, for inputs of any      *)
(* length: induction is over the naturals, by a least counterexample, and  *)
(* a recursive function is first shown to exist.                           *)
(***************************************************************************)
EXTENDS Audit, WellFoundedInduction, TLAPS

Offered == {o.recipe : o \in UNION {Outside(w).offers : w \in Worlds}}

AuditTypes ==
  /\ world \in Worlds
  /\ today \in Int
  /\ main \in [Servers -> {NoRecipe} \union Offered]
  /\ checked \in [Servers -> Int]

\* The open pull request's audit was no later than today, and if it passed
\* the recipe's dates were right on its day.
PullDated ==
  pull # NoPull =>
    /\ pull.server \in Servers
    /\ pull.recipe \in Offered
    /\ pull.day \in Int
    /\ pull.day <= today
    /\ ~Fails(pull.report) => checkWaiverDates(pull.recipe, pull.day)

\* The same of what was merged.
MainDated ==
  \A s \in Servers : main[s] # NoRecipe =>
    checked[s] <= today /\ checkWaiverDates(main[s], checked[s])

IInv == AuditTypes /\ PullDated /\ MainDated

\* What the assumption says of a recipe that is offered.
LEMMA OfferedTyped ==
  ASSUME NEW r \in Offered
  PROVE  /\ r # NoRecipe
         /\ r.vettedOn \in Int
         /\ \A i \in DOMAIN r.waivers : r.waivers[i].expires \in Int
<1> DEFINE W == [id : STRING, package : STRING, expires : Int, complete : BOOLEAN]
<1>1. r # NoRecipe /\ r.vettedOn \in Int /\ r.waivers \in Seq(W)
  BY AuditAssumption DEF Offered
<1>2. ASSUME NEW i \in DOMAIN r.waivers PROVE r.waivers[i].expires \in Int
  <2>1. r.waivers[i] \in W
    <3> HIDE DEF W
    <3> QED BY <1>1
  <2> QED BY <2>1
<1> QED BY <1>1, <1>2

\* A recipe whose dates are right stays so: only expires and vetted_on too
\* far ahead are refused (checkWaiverDates).
LEMMA DatesStay ==
  ASSUME NEW r \in Offered, NEW d \in Int, NEW e \in Int, d <= e, checkWaiverDates(r, d)
  PROVE  checkWaiverDates(r, e)
<1>1. r.vettedOn <= e
  BY OfferedTyped DEF checkWaiverDates
<1>2. ASSUME NEW i \in DOMAIN r.waivers
      PROVE  r.waivers[i].expires <= e + MaxWaiverDays
  <2>1. r.waivers[i].expires \in Int
    BY OfferedTyped
  <2>2. r.waivers[i].expires <= d + MaxWaiverDays
    BY DEF checkWaiverDates
  <2> QED BY <2>1, <2>2, AuditAssumption
<1> QED BY <1>1, <1>2 DEF checkWaiverDates

\* An audit that passes has found the dates right (Run's early return).
LEMMA PassMeansDated ==
  ASSUME NEW r, NEW records, NEW d, NEW reached, ~Fails(Run(r, records, d, reached))
  PROVE  checkWaiverDates(r, d)
  BY DEF Run, Refused, Fails

LEMMA DatedInit == Init => IInv
<1> SUFFICES ASSUME Init PROVE IInv
  OBVIOUS
<1>1. AuditTypes
  BY DEF Init, AuditTypes
<1>2. PullDated
  BY DEF Init, PullDated
<1>3. MainDated
  BY DEF Init, MainDated
<1> QED BY <1>1, <1>2, <1>3 DEF IInv

LEMMA DatedNext == IInv /\ [Next]_vars => IInv'
<1> SUFFICES ASSUME IInv, [Next]_vars PROVE IInv'
  OBVIOUS
<1> USE DEF IInv
<1>1. CASE NextDay
  <2>1. today \in Int /\ today' = today + 1
    BY <1>1 DEF NextDay, AuditTypes
  <2>2. AuditTypes'
    BY <1>1, <2>1 DEF NextDay, AuditTypes
  <2>3. PullDated'
    BY <1>1, <2>1 DEF NextDay, PullDated
  <2>4. MainDated'
    BY <1>1, <2>1 DEF NextDay, MainDated, AuditTypes
  <2> QED BY <2>2, <2>3, <2>4
<1>2. ASSUME NEW record, Disclose(record) PROVE IInv'
  BY <1>2 DEF Disclose, AuditTypes, PullDated, MainDated
<1>3. ASSUME NEW offer \in Outside(world).offers, NEW reached \in BOOLEAN, Check(offer, reached)
      PROVE  IInv'
  <2>1. offer.recipe \in Offered /\ offer.server \in Servers
    BY AuditAssumption DEF Offered, AuditTypes
  <2>2. /\ pull'.server = offer.server
        /\ pull'.recipe = offer.recipe
        /\ pull'.day = today
        /\ pull'.report = Run(offer.recipe, known, today, reached)
    BY <1>3 DEF Check
  <2>3. AuditTypes' /\ MainDated'
    BY <1>3 DEF Check, AuditTypes, MainDated
  <2>4. ~Fails(pull'.report) => checkWaiverDates(offer.recipe, today)
    BY <2>2, PassMeansDated
  <2>5. PullDated'
    BY <1>3, <2>1, <2>2, <2>4 DEF PullDated, AuditTypes, Check
  <2> QED BY <2>3, <2>5
<1>4. CASE Merge
  <2>1. /\ pull.server \in Servers /\ pull.recipe \in Offered
        /\ pull.day \in Int /\ pull.day <= today
        /\ checkWaiverDates(pull.recipe, pull.day)
    BY <1>4 DEF Merge, PullDated
  <2>2. AuditTypes'
    BY <1>4, <2>1 DEF Merge, AuditTypes
  <2>3. PullDated'
    BY <1>4 DEF Merge, PullDated
  <2>4. MainDated'
    BY <1>4, <2>1 DEF Merge, MainDated, AuditTypes
  <2> QED BY <2>2, <2>3, <2>4
<1>5. CASE Trigger
  BY <1>5 DEF Trigger, AuditTypes, PullDated, MainDated
<1>6. ASSUME NEW lost, Schedule(lost) PROVE IInv'
  BY <1>6 DEF Schedule, AuditTypes, PullDated, MainDated
<1>7. CASE CloseIssue
  BY <1>7 DEF CloseIssue, AuditTypes, PullDated, MainDated
<1>8. CASE UNCHANGED vars
  BY <1>8 DEF vars, AuditTypes, PullDated, MainDated
<1> QED BY <1>1, <1>2, <1>3, <1>4, <1>5, <1>6, <1>7, <1>8 DEF Next

\* A waiver that lets something through today expires today or later, and
\* its check bounded when.
LEMMA WaivedIsRecent == IInv => ExceptionEnds
<1> SUFFICES ASSUME IInv, NEW s \in OnMain, WaivedOnMain(s) # {}
             PROVE  today <= checked[s] + MaxWaiverDays
  BY DEF ExceptionEnds
<1>1. s \in Servers /\ main[s] \in Offered /\ checked[s] \in Int /\ today \in Int
  BY DEF OnMain, IInv, AuditTypes
<1>2. checkWaiverDates(main[s], checked[s])
  BY <1>1 DEF OnMain, IInv, MainDated
<1>3. PICK v : \E i \in Deciding(main[s].waivers, v) : ~Expired(main[s].waivers[i], today)
  BY DEF WaivedOnMain, Waived
<1>4. PICK i \in Deciding(main[s].waivers, v) : ~Expired(main[s].waivers[i], today)
  BY <1>3
<1>5. i \in DOMAIN main[s].waivers
  BY DEF Deciding
<1>6. main[s].waivers[i].expires \in Int
  BY <1>1, <1>5, OfferedTyped
<1>7. main[s].waivers[i].expires <= checked[s] + MaxWaiverDays
  BY <1>2, <1>5 DEF checkWaiverDates
<1>8. today <= main[s].waivers[i].expires
  BY <1>1, <1>4, <1>6 DEF Expired
<1> QED BY <1>1, <1>6, <1>7, <1>8, AuditAssumption

LEMMA DatedAlways == Spec => []IInv
  BY DatedInit, DatedNext, PTL DEF Spec

\* However late a pull request is merged, what a waiver lets through on main
\* was checked at most MaxWaiverDays ago (audit.go's checkWaiverDates).
THEOREM ExceptionsEnd == Spec => []ExceptionEnds
  BY DatedAlways, WaivedIsRecent, PTL

\* A merged recipe is never refused for its dates, on whatever later day the
\* scheduled audit reads it (checkWaiverDates).
THEOREM MainStaysReadable == Spec => []MainIsReadable
<1>1. IInv => MainIsReadable
  <2> SUFFICES ASSUME IInv, NEW s \in OnMain PROVE checkWaiverDates(main[s], today)
    BY DEF MainIsReadable
  <2>1. main[s] \in Offered /\ checked[s] \in Int /\ today \in Int
    BY DEF OnMain, IInv, AuditTypes
  <2>2. checked[s] <= today /\ checkWaiverDates(main[s], checked[s])
    BY DEF OnMain, IInv, MainDated
  <2> QED BY <2>1, <2>2, DatesStay
<1> QED BY <1>1, DatedAlways, PTL

-----------------------------------------------------------------------------
\* A finding some waiver matches is decided by the first that does.
LEMMA FirstDecides ==
  ASSUME NEW S, NEW waivers \in Seq(S), NEW v,
         NEW i \in DOMAIN waivers, Matches(waivers[i], v)
  PROVE  Deciding(waivers, v) # {}
<1> DEFINE Matching == {j \in DOMAIN waivers : Matches(waivers[j], v)}
           Less == {p \in Nat \X Nat : p[1] < p[2]}
<1>1. Matching \subseteq Nat /\ Matching # {}
  OBVIOUS
<1>2. PICK j \in Matching : \A k \in Matching : ~ (<<k, j>> \in Less)
  <2>1. IsWellFoundedOn(Less, Nat)
    BY NatLessThanWellFounded DEF OpToRel
  <2> HIDE DEF Matching, Less
  <2> QED BY <1>1, <2>1, WFMin
<1>3. ASSUME NEW k \in 1 .. j - 1 PROVE ~Matches(waivers[k], v)
  <2>1. k \in DOMAIN waivers /\ k \in Nat /\ j \in Nat /\ k < j
    BY <1>1, <1>2
  <2>2. k \notin Matching
    BY <1>2, <2>1
  <2> QED BY <2>1, <2>2
<1> QED BY <1>2, <1>3 DEF Deciding

\* What it takes for vulnFindings to have no blocking line.
LEMMA NothingBlocks ==
  ASSUME NEW vulns, NEW waivers, NEW day
  PROVE  vulnFindings(vulns, waivers, day) = {} <=>
           /\ \A v \in vulns : Blocks(v) =>
                \E i \in Deciding(waivers, v) : ~Expired(waivers[i], day)
           /\ \A i \in DOMAIN waivers :
                /\ ~Expired(waivers[i], day)
                /\ \E v \in vulns : Blocks(v) /\ i \in Deciding(waivers, v)
<1> DEFINE blocking == {u \in vulns : Blocks(u)}
           open == blocking \ Waived(vulns, waivers, day)
           stale == {k \in DOMAIN waivers :
                       \/ Expired(waivers[k], day)
                       \/ \A v \in blocking : k \notin Deciding(waivers, v)}
<1>1. vulnFindings(vulns, waivers, day) = {} <=> open = {} /\ stale = {}
  BY DEF vulnFindings
<1>2. open = {} <=> \A v \in vulns : Blocks(v) =>
                      \E i \in Deciding(waivers, v) : ~Expired(waivers[i], day)
  BY DEF Waived
<1>3. stale = {} <=> \A i \in DOMAIN waivers :
                       /\ ~Expired(waivers[i], day)
                       /\ \E v \in vulns : Blocks(v) /\ i \in Deciding(waivers, v)
  OBVIOUS
<1> QED BY <1>1, <1>2, <1>3

\* What it takes for an audit that is not refused to pass.
LEMMA PassIs ==
  ASSUME NEW r, NEW reached
  PROVE  LET report == Run(r, known, today, reached)
             vulns == Query(known, ReadLock(r.lock))
         IN  ~report.err =>
               (~Fails(report) <=>
                  /\ vulnFindings(vulns, r.waivers, today) = {}
                  /\ ClassifyLicense(r.licence) # "refuses"
                  /\ \A d \in ReadLock(r.lock) :
                       d.licence # NoLicence => ClassifyLicense(d.licence) # "refuses")
<1> DEFINE report == Run(r, known, today, reached)
           deps == ReadLock(r.lock)
           found == vulnFindings(Query(known, deps), r.waivers, today)
           own == IF ClassifyLicense(r.licence) = "refuses" THEN {<<"server licence">>} ELSE {}
           theirs == {<<"licence", d.name>> :
                        d \in {e \in deps : /\ e.licence # NoLicence
                                            /\ ClassifyLicense(e.licence) = "refuses"}}
<1> SUFFICES ASSUME ~report.err
             PROVE  ~Fails(report) <=>
                      /\ found = {}
                      /\ ClassifyLicense(r.licence) # "refuses"
                      /\ \A d \in deps :
                           d.licence # NoLicence => ClassifyLicense(d.licence) # "refuses"
  OBVIOUS
<1>1. report.blocking = found \union own \union theirs
  BY DEF Run, Refused
<1>2. own = {} <=> ClassifyLicense(r.licence) # "refuses"
  OBVIOUS
<1>3. theirs = {} <=> \A d \in deps :
                        d.licence # NoLicence => ClassifyLicense(d.licence) # "refuses"
  OBVIOUS
<1> HIDE DEF report, found, own, theirs, deps
<1> QED BY <1>1, <1>2, <1>3 DEF Fails

LEMMA AuditJustified ==
  ASSUME NEW r \in Offered, today \in Int, NEW reached
  PROVE  LET report == Run(r, known, today, reached)
         IN  /\ ~Fails(report) => Justified(r)
             /\ ~report.err /\ Justified(r) /\ ~Shadowed(r.waivers, Blocking(r))
                  => ~Fails(report)
<1> DEFINE report == Run(r, known, today, reached)
           vulns == Query(known, ReadLock(r.lock))
           Decided == \A v \in vulns : Blocks(v) =>
                        \E i \in Deciding(r.waivers, v) : ~Expired(r.waivers[i], today)
           Used == \A i \in DOMAIN r.waivers :
                     /\ ~Expired(r.waivers[i], today)
                     /\ \E v \in vulns : Blocks(v) /\ i \in Deciding(r.waivers, v)
           Licensed == /\ ClassifyLicense(r.licence) # "refuses"
                       /\ \A d \in ReadLock(r.lock) :
                            d.licence # NoLicence => ClassifyLicense(d.licence) # "refuses"
<1>1. ~report.err => (~Fails(report) <=> Decided /\ Used /\ Licensed)
  <2>1. vulnFindings(vulns, r.waivers, today) = {} <=> Decided /\ Used
    BY NothingBlocks
  <2> HIDE DEF Decided, Used
  <2> QED BY <2>1, PassIs
<1>2. \A i \in DOMAIN r.waivers :
        ~Expired(r.waivers[i], today) <=> r.waivers[i] \in Live(r)
  BY OfferedTyped DEF Expired, Live
<1>3. \A w \in Live(r) : \E i \in DOMAIN r.waivers : w = r.waivers[i]
  BY DEF Live
<1>4. \A v : v \in Blocking(r) <=> v \in vulns /\ Blocks(v)
  BY DEF Blocking
<1>5. Licensed <=> \A l \in {r.licence} \union ({d.licence : d \in ReadLock(r.lock)} \ {NoLicence}) :
                     ClassifyLicense(l) # "refuses"
  OBVIOUS
<1>6. \A v : \A i \in Deciding(r.waivers, v) : i \in DOMAIN r.waivers /\ Matches(r.waivers[i], v)
  BY DEF Deciding
<1> HIDE DEF report, vulns, Licensed
<1>7. ASSUME ~Fails(report) PROVE Justified(r)
  <2>1. Decided /\ Used /\ Licensed
    BY <1>1, <1>7 DEF Fails
  <2>2. \A v \in Blocking(r) : \E w \in Live(r) : Matches(w, v)
    BY <2>1, <1>2, <1>4, <1>6
  <2>3. \A i \in DOMAIN r.waivers :
          r.waivers[i] \in Live(r) /\ \E v \in Blocking(r) : Matches(r.waivers[i], v)
    BY <2>1, <1>2, <1>4, <1>6
  <2> QED BY <2>1, <2>2, <2>3, <1>5 DEF Justified
<1>8. ASSUME ~report.err, Justified(r), ~Shadowed(r.waivers, Blocking(r))
      PROVE  ~Fails(report)
  <2>1. \A i \in DOMAIN r.waivers : ~Expired(r.waivers[i], today)
    BY <1>2, <1>8 DEF Justified
  <2>2. Decided
    <3> SUFFICES ASSUME NEW v \in vulns, Blocks(v)
                 PROVE  \E i \in Deciding(r.waivers, v) : ~Expired(r.waivers[i], today)
      OBVIOUS
    <3>1. PICK i \in DOMAIN r.waivers : Matches(r.waivers[i], v)
      BY <1>3, <1>4, <1>8 DEF Justified
    <3>2. Deciding(r.waivers, v) # {}
      BY <3>1, FirstDecides, AuditAssumption DEF Offered
    <3> QED BY <3>2, <2>1, <1>6
  <2>3. Used
    <3> SUFFICES ASSUME NEW i \in DOMAIN r.waivers
                 PROVE  \E v \in vulns : Blocks(v) /\ i \in Deciding(r.waivers, v)
      BY <2>1
    <3>1. \E v \in Blocking(r) : Matches(r.waivers[i], v)
      BY <1>8 DEF Justified
    <3> QED BY <3>1, <1>4, <1>8 DEF Shadowed
  <2>4. Licensed
    BY <1>5, <1>8 DEF Justified
  <2> QED BY <1>1, <1>8, <2>2, <2>3, <2>4
<1> QED BY <1>7, <1>8 DEF report

\* An audit passes exactly when every blocking finding has a live waiver,
\* every waiver is one of those and no licence refuses, whatever the order
\* of the waivers and the ids they name, a shadowed waiver excepted
\* (vulnFindings and Run in audit.go).
THEOREM PassesAreJustified == Spec => PassIsJustified
<1> DEFINE Fits == pull' \notin {pull, NoPull} =>
             /\ ~Fails(pull'.report) => Justified(pull'.recipe)
             /\ (/\ ~pull'.report.err /\ Justified(pull'.recipe)
                 /\ ~Shadowed(pull'.recipe.waivers, Blocking(pull'.recipe)))
                  => ~Fails(pull'.report)
<1>1. IInv /\ [Next]_vars => [Fits]_vars
  <2> SUFFICES ASSUME IInv, Next, pull' \notin {pull, NoPull}
               PROVE  Fits
    OBVIOUS
  <2>1. PICK offer \in Outside(world).offers, reached \in BOOLEAN : Check(offer, reached)
    BY DEF Next, NextDay, Disclose, Merge, Trigger, Schedule, CloseIssue
  <2>2. offer.recipe \in Offered /\ today \in Int
    BY AuditAssumption DEF Offered, IInv, AuditTypes
  <2>3. /\ pull'.recipe = offer.recipe
        /\ pull'.report = Run(offer.recipe, known, today, reached)
    BY <2>1 DEF Check
  <2> QED BY <2>2, <2>3, AuditJustified
<1> QED BY <1>1, DatedAlways, PTL DEF Spec, PassIsJustified

-----------------------------------------------------------------------------
\* Induction over the naturals, said of sets: a property is the set of what
\* has it.

\* A set of naturals has a least, and one up to n a greatest.
LEMMA HasLeast ==
  ASSUME NEW T \in SUBSET Nat, T # {}
  PROVE  \E m \in T : \A k \in T : m <= k
<1> DEFINE Less == {p \in Nat \X Nat : p[1] < p[2]}
<1>1. IsWellFoundedOn(Less, Nat)
  BY NatLessThanWellFounded DEF OpToRel
<1>2. PICK m \in T : \A k \in T : ~ (<<k, m>> \in Less)
  <2> HIDE DEF Less
  <2> QED BY <1>1, WFMin
<1>3. ASSUME NEW k \in T PROVE m <= k
  <2>1. k \in Nat /\ m \in Nat /\ <<k, m>> \in Nat \X Nat
    OBVIOUS
  <2>2. ~ (k < m)
    BY <1>2, <2>1
  <2> QED BY <2>1, <2>2
<1> QED BY <1>3

LEMMA HasGreatest ==
  ASSUME NEW n \in Nat, NEW T \in SUBSET (0 .. n), T # {}
  PROVE  \E m \in T : \A k \in T : k <= m
<1> DEFINE U == {k \in 0 .. n : n - k \in T}
<1>1. U # {}
  <2>1. PICK k \in T : TRUE
    OBVIOUS
  <2>2. n - k \in U
    BY <2>1
  <2> QED BY <2>2
<1>2. PICK m \in U : \A k \in U : m <= k
  <2>1. U \in SUBSET Nat
    OBVIOUS
  <2> HIDE DEF U
  <2> QED BY <1>1, <2>1, HasLeast
<1>3. ASSUME NEW k \in T PROVE k <= n - m
  <2>1. k \in 0 .. n
    OBVIOUS
  <2>2. n - k \in 0 .. n /\ n - (n - k) = k
    BY <2>1
  <2>3. n - k \in U
    BY <2>2
  <2>4. m <= n - k
    BY <1>2, <2>3
  <2> QED BY <1>2, <2>1, <2>4
<1> QED BY <1>2, <1>3

\* What holds of 0, and of k + 1 when of k, holds up to n.
LEMMA UpToBound ==
  ASSUME NEW n \in Nat, NEW S, 0 \in S,
         \A k \in 0 .. n : k \in S /\ k < n => k + 1 \in S
  PROVE  \A k \in 0 .. n : k \in S
<1> DEFINE T == (0 .. n) \ S
<1> SUFFICES ASSUME T # {} PROVE FALSE
  OBVIOUS
<1>1. PICK m \in T : \A k \in T : m <= k
  <2>1. T \in SUBSET Nat
    OBVIOUS
  <2> HIDE DEF T
  <2> QED BY <2>1, HasLeast
<1>2. m # 0 /\ m - 1 \in 0 .. n /\ m - 1 \notin T
  BY <1>1
<1>3. m - 1 \in S /\ m - 1 < n
  BY <1>2
<1> QED BY <1>1, <1>2, <1>3

\* A function defined by recursion on 0 .. n exists.
IsRecursive(f, n, D, base, step) ==
  /\ f \in [0 .. n -> D]
  /\ f[0] = base
  /\ \A k \in 1 .. n : f[k] = step[<<k, f[k - 1]>>]

LEMMA RecursionExists ==
  ASSUME NEW n \in Nat, NEW D, NEW base \in D, NEW step \in [(1 .. n) \X D -> D]
  PROVE  \E f : IsRecursive(f, n, D, base, step)
<1> DEFINE Holds(f, m) == IsRecursive(f, m, D, base, step)
           S == {m \in 0 .. n : \E f : Holds(f, m)}
<1>1. 0 \in S
  <2> DEFINE g == [k \in 0 .. 0 |-> base]
  <2>1. g \in [0 .. 0 -> D] /\ g[0] = base
    OBVIOUS
  <2>2. \A k \in 1 .. 0 : FALSE
    OBVIOUS
  <2> HIDE DEF g
  <2>3. Holds(g, 0)
    BY <2>1, <2>2 DEF IsRecursive
  <2> QED BY <2>3
<1>2. ASSUME NEW m \in 0 .. n, m \in S, m < n PROVE m + 1 \in S
  <2>1. PICK f : /\ f \in [0 .. m -> D] /\ f[0] = base
                 /\ \A k \in 1 .. m : f[k] = step[<<k, f[k - 1]>>]
    BY <1>2 DEF IsRecursive
  <2> DEFINE g == [k \in 0 .. m + 1 |-> IF k = m + 1 THEN step[<<m + 1, f[m]>>] ELSE f[k]]
  <2>2. step[<<m + 1, f[m]>>] \in D
    BY <1>2, <2>1
  <2>3. g \in [0 .. m + 1 -> D] /\ g[0] = base
    BY <1>2, <2>1, <2>2
  <2>4. ASSUME NEW k \in 1 .. m + 1 PROVE g[k] = step[<<k, g[k - 1]>>]
    <3>1. k - 1 \in 0 .. m + 1 /\ k - 1 # m + 1 /\ g[k - 1] = f[k - 1]
      BY <1>2
    <3>2. CASE k = m + 1
      BY <3>1, <3>2
    <3>3. CASE k # m + 1
      <4>1. k \in 1 .. m /\ g[k] = f[k]
        BY <1>2, <3>3
      <4> QED BY <2>1, <3>1, <4>1
    <3> QED BY <3>2, <3>3
  <2>5. Holds(g, m + 1)
    BY <2>3, <2>4 DEF IsRecursive
  <2>6. m + 1 \in 0 .. n
    BY <1>2
  <2> QED BY <2>5, <2>6
<1>3. n \in S
  <2>1. \A k \in 0 .. n : k \in S
    <3> HIDE DEF S
    <3> QED BY <1>1, <1>2, UpToBound
  <2> QED BY <2>1
<1> QED BY <1>3

\* What holds of k when of every number below it, holds of all.
LEMMA ByLesser ==
  ASSUME NEW S, \A k \in Nat : (\A m \in Nat : m < k => m \in S) => k \in S
  PROVE  Nat \subseteq S
<1> SUFFICES ASSUME Nat \ S # {} PROVE FALSE
  OBVIOUS
<1>1. PICK k \in Nat \ S : \A m \in Nat \ S : k <= m
  BY HasLeast
<1>2. \A m \in Nat : m < k => m \in S
  BY <1>1
<1> QED BY <1>1, <1>2

\* What holds of x when of all that rank lower, holds of all.
LEMMA ByRank ==
  ASSUME NEW S, NEW T, NEW rank \in [S -> Nat],
         \A x \in S : (\A y \in S : rank[y] < rank[x] => y \in T) => x \in T
  PROVE  S \subseteq T
<1> DEFINE Ranks == {k \in Nat : \A x \in S : rank[x] = k => x \in T}
<1>1. ASSUME NEW k \in Nat, \A m \in Nat : m < k => m \in Ranks PROVE k \in Ranks
  <2> SUFFICES ASSUME NEW x \in S, rank[x] = k PROVE x \in T
    OBVIOUS
  <2>1. ASSUME NEW y \in S, rank[y] < rank[x] PROVE y \in T
    <3>1. rank[y] \in Ranks
      <4>1. rank[y] \in Nat
        OBVIOUS
      <4> HIDE DEF Ranks
      <4> QED BY <1>1, <2>1, <4>1
    <3> QED BY <3>1
  <2> QED BY <2>1
<1>2. Nat \subseteq Ranks
  <2> HIDE DEF Ranks
  <2> QED BY <1>1, ByLesser
<1> SUFFICES ASSUME NEW x \in S PROVE x \in T
  OBVIOUS
<1>3. rank[x] \in Ranks
  <2>1. rank[x] \in Nat
    OBVIOUS
  <2> HIDE DEF Ranks
  <2> QED BY <1>2, <2>1
<1> QED BY <1>3

\* step makes of a function another; what it is at x is told by what the
\* first is where the rank is lower.
Recurs(S, V, D, step, bound, rank) ==
  /\ D \in SUBSET [S -> V] /\ D # {}
  /\ step \in [D -> D]
  /\ bound \in Nat /\ rank \in [S -> Nat] /\ \A x \in S : rank[x] < bound
  /\ \A f, g \in D, x \in S :
       (\A y \in S : rank[y] < rank[x] => f[y] = g[y]) => step[f][x] = step[g][x]

\* Such a recursion defines a function.
LEMMA FixpointExists ==
  ASSUME NEW S, NEW V, NEW D, NEW step, NEW bound, NEW rank,
         Recurs(S, V, D, step, bound, rank)
  PROVE  \E f \in D : f = step[f]
<1> DEFINE next == [p \in (1 .. bound) \X D |-> step[p[2]]]
           Settled(f, k) == \A x \in S : rank[x] < k => f[x] = step[f][x]
<1>1. bound \in Nat /\ D # {}
  BY DEF Recurs
<1>2. \A f \in D : step[f] \in D
  BY DEF Recurs
<1>3. \A x \in S : rank[x] \in Nat /\ rank[x] < bound
  BY DEF Recurs
<1>4. ASSUME NEW f \in D, NEW g \in D, NEW x \in S, \A y \in S : rank[y] < rank[x] => f[y] = g[y]
      PROVE  step[f][x] = step[g][x]
  BY <1>4 DEF Recurs
<1>5. PICK base \in D : TRUE
  BY <1>1
<1>6. next \in [(1 .. bound) \X D -> D]
  BY <1>2
<1>7. PICK F : F \in [0 .. bound -> D] /\ \A k \in 1 .. bound : F[k] = next[<<k, F[k - 1]>>]
  <2> HIDE DEF next
  <2>1. PICK F : IsRecursive(F, bound, D, base, next)
    BY <1>1, <1>5, <1>6, RecursionExists
  <2> QED BY <2>1 DEF IsRecursive
<1>8. \A k \in 1 .. bound : F[k - 1] \in D /\ F[k] = step[F[k - 1]]
  <2> SUFFICES ASSUME NEW k \in 1 .. bound PROVE F[k - 1] \in D /\ F[k] = step[F[k - 1]]
    OBVIOUS
  <2>1. k - 1 \in 0 .. bound
    BY <1>1
  <2>2. F[k - 1] \in D
    BY <1>7, <2>1
  <2> QED BY <1>7, <2>2
<1> DEFINE T == {k \in 0 .. bound : Settled(F[k], k)}
<1> HIDE DEF next
<1>9. 0 \in T
  <2>1. Settled(F[0], 0)
    BY <1>3
  <2>2. 0 \in 0 .. bound
    BY <1>1
  <2> HIDE DEF Settled
  <2> QED BY <2>1, <2>2
<1>10. ASSUME NEW k \in 0 .. bound, k \in T, k < bound PROVE k + 1 \in T
  <2>1. k + 1 \in 1 .. bound /\ (k + 1) - 1 = k /\ k + 1 \in 0 .. bound
    <3> HIDE DEF T
    <3> QED BY <1>1, <1>10
  <2>2. F[k] \in D /\ F[k + 1] \in D /\ F[k + 1] = step[F[k]]
    BY <1>7, <1>8, <2>1
  <2>3. Settled(F[k + 1], k + 1)
    <3> SUFFICES ASSUME NEW x \in S, rank[x] < k + 1 PROVE F[k + 1][x] = step[F[k + 1]][x]
      OBVIOUS
    <3>1. ASSUME NEW y \in S, rank[y] < rank[x] PROVE F[k][y] = F[k + 1][y]
      <4>1. rank[y] < k
        <5>1. rank[y] \in Nat /\ rank[x] \in Nat /\ k \in Nat
          BY <1>1, <1>3
        <5> HIDE DEF T
        <5> QED BY <3>1, <5>1
      <4>2. F[k][y] = step[F[k]][y]
        BY <1>10, <4>1
      <4> QED BY <2>2, <4>2
    <3>2. step[F[k]][x] = step[F[k + 1]][x]
      <4> HIDE DEF T
      <4> QED BY <1>4, <2>2, <3>1
    <3> QED BY <2>2, <3>2
  <2> HIDE DEF Settled
  <2> QED BY <2>1, <2>3
<1>11. Settled(F[bound], bound) /\ F[bound] \in D
  <2>1. \A k \in 0 .. bound : k \in T
    <3> HIDE DEF T
    <3> QED BY <1>1, <1>9, <1>10, UpToBound
  <2>2. bound \in 0 .. bound
    BY <1>1
  <2> HIDE DEF Settled
  <2> QED BY <1>7, <2>1, <2>2
<1>12. \A x \in S : F[bound][x] = step[F[bound]][x]
  BY <1>3, <1>11
<1>13. F[bound] \in [S -> V] /\ step[F[bound]] \in [S -> V]
  BY <1>2, <1>11 DEF Recurs
<1>14. F[bound] = step[F[bound]]
  BY <1>12, <1>13
<1> QED BY <1>11, <1>14

-----------------------------------------------------------------------------
\* The comparisons are orders.  x, y and z are what comparing a with b, b
\* with c and a with c returns.
Compose(x, y, z) == x <= 0 /\ y <= 0 => z <= 0 /\ (z = 0 <=> x = 0 /\ y = 0)

\* cmpInt orders the integers.
LEMMA CmpIntOrders ==
  ASSUME NEW a \in Int, NEW b \in Int, NEW c \in Int
  PROVE  /\ cmpInt(a, b) \in {-1, 0, 1}
         /\ cmpInt(b, a) = -cmpInt(a, b)
         /\ cmpInt(a, b) = 0 <=> a = b
         /\ Compose(cmpInt(a, b), cmpInt(b, c), cmpInt(a, c))
  BY DEF cmpInt, Compose

\* So does one order and, where it does not tell, another.
LEMMA ThenComposes ==
  ASSUME NEW x \in Int, NEW y \in Int, NEW z \in Int, Compose(x, y, z),
         NEW u \in Int, NEW v \in Int, NEW w \in Int, Compose(u, v, w)
  PROVE  Compose(Then(x, u), Then(y, v), Then(z, w))
  BY DEF Then, Compose

\* Lexical is the first comparison that tells.
LEMMA LexicalIs ==
  ASSUME NEW n \in Nat, NEW cs \in [1 .. n -> Int]
  PROVE  \/ Lexical(cs) = 0 /\ \A i \in 1 .. n : cs[i] = 0
         \/ \E i \in 1 .. n : /\ cs[i] # 0 /\ Lexical(cs) = cs[i]
                              /\ \A j \in 1 .. n : j < i => cs[j] = 0
<1> DEFINE telling == {i \in DOMAIN cs : cs[i] # 0}
           First(i) == \A j \in telling : i <= j
<1>1. CASE telling = {}
  BY <1>1 DEF Lexical
<1>2. CASE telling # {}
  <2>1. \E i \in telling : First(i)
    <3>1. telling \in SUBSET Nat
      OBVIOUS
    <3> HIDE DEF telling
    <3> QED BY <1>2, <3>1, HasLeast
  <2> DEFINE first == CHOOSE i \in telling : First(i)
  <2>2. first \in telling /\ First(first)
    <3> HIDE DEF telling, First
    <3> QED BY <2>1
  <2>3. Lexical(cs) = cs[first]
    BY <1>2 DEF Lexical
  <2> HIDE DEF first
  <2>4. \A j \in 1 .. n : j < first => cs[j] = 0
    BY <2>2
  <2> QED BY <2>2, <2>3, <2>4
<1> QED BY <1>1, <1>2

LEMMA LexicalFirst ==
  ASSUME NEW n \in Nat, NEW cs \in [1 .. n -> Int], NEW i \in 1 .. n, cs[i] # 0,
         \A j \in 1 .. n : j < i => cs[j] = 0
  PROVE  Lexical(cs) = cs[i]
<1>1. PICK k \in 1 .. n : /\ cs[k] # 0 /\ Lexical(cs) = cs[k]
                          /\ \A j \in 1 .. n : j < k => cs[j] = 0
  BY LexicalIs
<1>2. k = i
  BY <1>1
<1> QED BY <1>1, <1>2

LEMMA LexicalTyped ==
  ASSUME NEW n \in Nat, NEW cs \in [1 .. n -> {-1, 0, 1}]
  PROVE  Lexical(cs) \in {-1, 0, 1}
<1>1. cs \in [1 .. n -> Int]
  OBVIOUS
<1> QED BY <1>1, LexicalIs

\* Lexical turns around with what it compares, is not changed by equal
\* places at the end, and orders when each place does.
LEMMA LexicalFlips ==
  ASSUME NEW n \in Nat, NEW f \in [1 .. n -> Int], NEW g \in [1 .. n -> Int],
         \A i \in 1 .. n : g[i] = -f[i]
  PROVE  Lexical(g) = -Lexical(f)
<1>1. CASE \A i \in 1 .. n : f[i] = 0
  BY <1>1, LexicalIs
<1>2. CASE \E i \in 1 .. n : f[i] # 0
  <2>1. PICK i \in 1 .. n : /\ f[i] # 0 /\ Lexical(f) = f[i]
                            /\ \A j \in 1 .. n : j < i => f[j] = 0
    BY <1>2, LexicalIs
  <2>2. PICK k \in 1 .. n : /\ g[k] # 0 /\ Lexical(g) = g[k]
                            /\ \A j \in 1 .. n : j < k => g[j] = 0
    <3>1. g[i] # 0
      BY <2>1
    <3> QED BY <3>1, LexicalIs
  <2>3. i = k
    BY <2>1, <2>2
  <2> QED BY <2>1, <2>2, <2>3
<1> QED BY <1>1, <1>2

LEMMA LexicalPads ==
  ASSUME NEW n \in Nat, NEW m \in Nat, n <= m,
         NEW f \in [1 .. n -> Int], NEW g \in [1 .. m -> Int],
         \A i \in 1 .. m : g[i] = IF i <= n THEN f[i] ELSE 0
  PROVE  Lexical(g) = Lexical(f)
<1>1. CASE \A i \in 1 .. n : f[i] = 0
  <2>1. Lexical(f) = 0
    BY <1>1, LexicalIs
  <2>2. \A i \in 1 .. m : g[i] = 0
    BY <1>1
  <2> QED BY <2>1, <2>2, LexicalIs
<1>2. CASE \E i \in 1 .. n : f[i] # 0
  <2>1. PICK i \in 1 .. n : /\ f[i] # 0 /\ Lexical(f) = f[i]
                            /\ \A j \in 1 .. n : j < i => f[j] = 0
    BY <1>2, LexicalIs
  <2>2. i \in 1 .. m /\ g[i] = f[i]
    BY <2>1
  <2>3. PICK k \in 1 .. m : /\ g[k] # 0 /\ Lexical(g) = g[k]
                            /\ \A j \in 1 .. m : j < k => g[j] = 0
    BY <2>1, <2>2, LexicalIs
  <2>4. i = k
    BY <2>1, <2>2, <2>3
  <2> QED BY <2>1, <2>2, <2>3, <2>4
<1> QED BY <1>1, <1>2

LEMMA LexicalComposes ==
  ASSUME NEW n \in Nat,
         NEW f \in [1 .. n -> Int], NEW g \in [1 .. n -> Int], NEW h \in [1 .. n -> Int],
         \A i \in 1 .. n : Compose(f[i], g[i], h[i])
  PROVE  Compose(Lexical(f), Lexical(g), Lexical(h))
<1> SUFFICES ASSUME Lexical(f) <= 0, Lexical(g) <= 0
             PROVE  Lexical(h) <= 0 /\ (Lexical(h) = 0 <=> Lexical(f) = 0 /\ Lexical(g) = 0)
  BY DEF Compose
<1>1. CASE \A i \in 1 .. n : f[i] = 0 /\ g[i] = 0
  <2>1. Lexical(f) = 0 /\ Lexical(g) = 0
    BY <1>1, LexicalIs
  <2>2. \A i \in 1 .. n : h[i] = 0
    BY <1>1 DEF Compose
  <2> QED BY <2>1, <2>2, LexicalIs
<1>2. CASE \E i \in 1 .. n : f[i] # 0 \/ g[i] # 0
  <2> DEFINE T == {i \in 1 .. n : f[i] # 0 \/ g[i] # 0}
  <2>1. PICK i \in T : \A k \in T : i <= k
    <3>1. T \in SUBSET Nat
      OBVIOUS
    <3>2. T # {}
      BY <1>2
    <3> HIDE DEF T
    <3> QED BY <3>1, <3>2, HasLeast
  <2>2. i \in 1 .. n /\ \A j \in 1 .. n : j < i => f[j] = 0 /\ g[j] = 0
    BY <2>1
  <2>3. \A j \in 1 .. n : j < i => h[j] = 0
    BY <2>2 DEF Compose
  <2>4. f[i] # 0 => Lexical(f) = f[i]
    BY <2>2, LexicalFirst
  <2>5. g[i] # 0 => Lexical(g) = g[i]
    BY <2>2, LexicalFirst
  <2>6. f[i] <= 0 /\ g[i] <= 0 /\ (f[i] < 0 \/ g[i] < 0)
    BY <2>1, <2>4, <2>5
  <2>7. h[i] \in Int /\ h[i] < 0 /\ h[i] # 0
    <3>1. Compose(f[i], g[i], h[i]) /\ f[i] \in Int /\ g[i] \in Int /\ h[i] \in Int
      BY <2>2
    <3> QED BY <2>6, <3>1 DEF Compose
  <2>8. Lexical(h) = h[i]
    BY <2>2, <2>3, <2>7, LexicalFirst
  <2> QED BY <2>4, <2>5, <2>6, <2>7, <2>8
<1> QED BY <1>1, <1>2

Ids == [num : BOOLEAN, val : Nat]

\* Two sequences of identifiers compared at i, the shorter padded with what
\* sorts below every identifier.
PadIds(p, q, i) ==
  IF i <= Len(p) /\ i <= Len(q) THEN CompareIds(p[i], q[i])
  ELSE IF i <= Len(p) THEN 1 ELSE IF i <= Len(q) THEN -1 ELSE 0

\* Identifiers, alone and at a place of two sequences, are ordered.
LEMMA IdsOrder ==
  ASSUME NEW x \in Ids, NEW y \in Ids, NEW z \in Ids
  PROVE  /\ CompareIds(x, y) \in {-1, 0, 1}
         /\ CompareIds(y, x) = -CompareIds(x, y)
         /\ Compose(CompareIds(x, y), CompareIds(y, z), CompareIds(x, z))
<1> DEFINE nx == x.num
           ny == y.num
           nz == z.num
<1>1. /\ nx \in BOOLEAN /\ ny \in BOOLEAN /\ nz \in BOOLEAN
      /\ x.val \in Int /\ y.val \in Int /\ z.val \in Int
  BY DEF Ids
<1>2. /\ CompareIds(x, y) \in {-1, 0, 1}
      /\ CompareIds(y, x) = -CompareIds(x, y)
  BY <1>1, CmpIntOrders DEF CompareIds
<1>3. Compose(cmpInt(x.val, y.val), cmpInt(y.val, z.val), cmpInt(x.val, z.val))
  BY <1>1, CmpIntOrders
<1>4. Compose(CompareIds(x, y), CompareIds(y, z), CompareIds(x, z))
  <2>1. CASE nx = ny /\ ny = nz
    BY <1>3, <2>1 DEF CompareIds
  <2>2. CASE ~(nx = ny /\ ny = nz)
    <3>1. /\ cmpInt(x.val, y.val) \in {-1, 0, 1} /\ cmpInt(y.val, z.val) \in {-1, 0, 1}
          /\ cmpInt(x.val, z.val) \in {-1, 0, 1}
      BY <1>1, CmpIntOrders
    <3> QED BY <1>1, <2>2, <3>1 DEF CompareIds, Compose
  <2> QED BY <2>1, <2>2
<1> QED BY <1>2, <1>4

LEMMA PadIdsOrder ==
  ASSUME NEW p \in Seq(Ids), NEW q \in Seq(Ids), NEW r \in Seq(Ids), NEW i \in Nat \ {0}
  PROVE  /\ PadIds(p, q, i) \in {-1, 0, 1}
         /\ PadIds(q, p, i) = -PadIds(p, q, i)
         /\ Compose(PadIds(p, q, i), PadIds(q, r, i), PadIds(p, r, i))
<1> DEFINE at(s) == i <= Len(s)
<1>1. /\ at(p) => p[i] \in Ids
      /\ at(q) => q[i] \in Ids
      /\ at(r) => r[i] \in Ids
  OBVIOUS
<1> HIDE DEF at
<1>2. PadIds(p, q, i) = IF at(p) /\ at(q) THEN CompareIds(p[i], q[i])
                        ELSE IF at(p) THEN 1 ELSE IF at(q) THEN -1 ELSE 0
  BY DEF PadIds, at
<1>3. PadIds(q, p, i) = IF at(p) /\ at(q) THEN CompareIds(q[i], p[i])
                        ELSE IF at(q) THEN 1 ELSE IF at(p) THEN -1 ELSE 0
  BY DEF PadIds, at
<1>4. PadIds(q, r, i) = IF at(q) /\ at(r) THEN CompareIds(q[i], r[i])
                        ELSE IF at(q) THEN 1 ELSE IF at(r) THEN -1 ELSE 0
  BY DEF PadIds, at
<1>5. PadIds(p, r, i) = IF at(p) /\ at(r) THEN CompareIds(p[i], r[i])
                        ELSE IF at(p) THEN 1 ELSE IF at(r) THEN -1 ELSE 0
  BY DEF PadIds, at
<1>6. at(p) /\ at(q) => /\ CompareIds(p[i], q[i]) \in {-1, 0, 1}
                        /\ CompareIds(q[i], p[i]) = -CompareIds(p[i], q[i])
  BY <1>1, IdsOrder
<1>7. at(p) /\ at(q) /\ at(r) =>
        Compose(CompareIds(p[i], q[i]), CompareIds(q[i], r[i]), CompareIds(p[i], r[i]))
  BY <1>1, IdsOrder
<1>8. /\ at(q) /\ at(r) => CompareIds(q[i], r[i]) \in {-1, 0, 1}
      /\ at(p) /\ at(r) => CompareIds(p[i], r[i]) \in {-1, 0, 1}
  BY <1>1, IdsOrder
<1> HIDE DEF at
<1>9. Compose(PadIds(p, q, i), PadIds(q, r, i), PadIds(p, r, i))
  <2>1. CASE at(p) /\ at(q) /\ at(r)
    BY <1>2, <1>4, <1>5, <1>7, <2>1
  <2>2. CASE ~(at(p) /\ at(q) /\ at(r))
    BY <1>2, <1>4, <1>5, <1>6, <1>8, <2>2 DEF Compose
  <2> QED BY <2>1, <2>2
<1> QED BY <1>2, <1>3, <1>6, <1>9

\* The comparison of two sequences of identifiers (compareSemver's last).
Pre(p, q) ==
  Then(Lexical([i \in 1 .. (IF Len(p) < Len(q) THEN Len(p) ELSE Len(q)) |-> CompareIds(p[i], q[i])]),
       cmpInt(Len(p), Len(q)))

\* The shared identifiers and then the lengths is the padded comparison.
LEMMA PreIsPadded ==
  ASSUME NEW p \in Seq(Ids), NEW q \in Seq(Ids), NEW n \in Nat, Len(p) <= n, Len(q) <= n
  PROVE  Pre(p, q) = Lexical([i \in 1 .. n |-> PadIds(p, q, i)])
<1> DEFINE s == IF Len(p) < Len(q) THEN Len(p) ELSE Len(q)
           f == [i \in 1 .. s |-> CompareIds(p[i], q[i])]
           g == [i \in 1 .. n |-> PadIds(p, q, i)]
<1>1. s \in Nat /\ s <= n /\ Len(p) \in Nat /\ Len(q) \in Nat /\ s <= Len(p) /\ s <= Len(q)
      /\ (s = Len(p) \/ s = Len(q))
  OBVIOUS
<1>2. \A i \in 1 .. n : PadIds(p, q, i) \in {-1, 0, 1}
  <2> SUFFICES ASSUME NEW i \in 1 .. n PROVE PadIds(p, q, i) \in {-1, 0, 1}
    OBVIOUS
  <2> QED BY PadIdsOrder
<1>3. \A i \in 1 .. s : PadIds(p, q, i) = CompareIds(p[i], q[i])
  BY <1>1 DEF PadIds
<1>4. g \in [1 .. n -> Int] /\ f \in [1 .. s -> Int]
  BY <1>1, <1>2, <1>3
<1>5. \A i \in 1 .. s : g[i] = f[i]
  BY <1>1, <1>3
<1>6. \A i \in 1 .. n : i > s => g[i] = IF i <= Len(p) THEN 1 ELSE IF i <= Len(q) THEN -1 ELSE 0
  BY <1>1 DEF PadIds
<1>7. Pre(p, q) = Then(Lexical(f), cmpInt(Len(p), Len(q)))
  BY DEF Pre
<1> HIDE DEF f, g, s
<1> SUFFICES Lexical(g) = Then(Lexical(f), cmpInt(Len(p), Len(q)))
  BY <1>7 DEF g
<1>8. CASE \E i \in 1 .. s : f[i] # 0
  <2>1. PICK i \in 1 .. s : f[i] # 0 /\ Lexical(f) = f[i] /\ \A j \in 1 .. s : j < i => f[j] = 0
    BY <1>1, <1>4, <1>8, LexicalIs
  <2>2. i \in 1 .. n /\ g[i] # 0 /\ g[i] = f[i]
    BY <1>1, <1>5, <2>1
  <2>3. \A j \in 1 .. n : j < i => g[j] = 0
    BY <1>1, <1>5, <2>1
  <2>4. Lexical(g) = g[i]
    BY <1>4, <2>2, <2>3, LexicalFirst
  <2> QED BY <2>1, <2>2, <2>4 DEF Then
<1>9. CASE \A i \in 1 .. s : f[i] = 0
  <2>1. Lexical(f) = 0
    BY <1>1, <1>4, <1>9, LexicalIs
  <2>2. CASE Len(p) = Len(q)
    <3>1. \A i \in 1 .. n : g[i] = 0
      BY <1>1, <1>5, <1>6, <1>9, <2>2
    <3>2. Lexical(g) = 0
      BY <1>4, <3>1, LexicalIs
    <3> QED BY <1>1, <2>1, <2>2, <3>2 DEF Then, cmpInt
  <2>3. CASE Len(p) # Len(q)
    <3>1. s + 1 \in 1 .. n /\ g[s + 1] = IF Len(q) < Len(p) THEN 1 ELSE -1
      BY <1>1, <1>6, <2>3
    <3>2. \A j \in 1 .. n : j < s + 1 => g[j] = 0
      BY <1>1, <1>5, <1>9
    <3> DEFINE k == s + 1
    <3>3. k \in 1 .. n /\ g[k] # 0 /\ \A j \in 1 .. n : j < k => g[j] = 0
      BY <3>1, <3>2
    <3> HIDE DEF k
    <3>4. Lexical(g) = g[k]
      BY <1>4, <3>3, LexicalFirst
    <3> QED BY <1>1, <2>1, <2>3, <3>1, <3>4 DEF Then, cmpInt, k
  <2> QED BY <2>2, <2>3
<1> QED BY <1>8, <1>9

\* Comparing along sequences orders them.
LEMMA PreOrders ==
  ASSUME NEW p \in Seq(Ids), NEW q \in Seq(Ids), NEW r \in Seq(Ids)
  PROVE  /\ Pre(p, q) \in {-1, 0, 1}
         /\ Pre(q, p) = -Pre(p, q)
         /\ Compose(Pre(p, q), Pre(q, r), Pre(p, r))
<1> DEFINE n == Len(p) + Len(q) + Len(r)
           f(a, b) == [i \in 1 .. n |-> PadIds(a, b, i)]
<1>1. n \in Nat /\ Len(p) <= n /\ Len(q) <= n /\ Len(r) <= n
  OBVIOUS
<1> HIDE DEF n
<1>2. /\ Pre(p, q) = Lexical(f(p, q)) /\ Pre(q, p) = Lexical(f(q, p))
      /\ Pre(q, r) = Lexical(f(q, r)) /\ Pre(p, r) = Lexical(f(p, r))
  BY <1>1, PreIsPadded
<1>3. ASSUME NEW i \in 1 .. n
      PROVE  /\ f(p, q)[i] \in {-1, 0, 1} /\ f(q, r)[i] \in {-1, 0, 1} /\ f(p, r)[i] \in {-1, 0, 1}
             /\ f(q, p)[i] = -f(p, q)[i]
             /\ Compose(f(p, q)[i], f(q, r)[i], f(p, r)[i])
  <2>1. i \in Nat \ {0}
    BY <1>1
  <2> QED BY <2>1, PadIdsOrder
<1>4. /\ f(p, q) \in [1 .. n -> {-1, 0, 1}] /\ f(q, r) \in [1 .. n -> Int]
      /\ f(p, r) \in [1 .. n -> Int] /\ f(q, p) \in [1 .. n -> Int] /\ f(p, q) \in [1 .. n -> Int]
  BY <1>3
<1> HIDE DEF f
<1>5. Lexical(f(p, q)) \in {-1, 0, 1}
  BY <1>1, <1>4, LexicalTyped
<1>6. Lexical(f(q, p)) = -Lexical(f(p, q))
  BY <1>1, <1>3, <1>4, LexicalFlips
<1>7. Compose(Lexical(f(p, q)), Lexical(f(q, r)), Lexical(f(p, r)))
  BY <1>1, <1>3, <1>4, LexicalComposes
<1> QED BY <1>2, <1>5, <1>6, <1>7

\* Versions of npm and Go are ordered.
LEMMA SemverOrders ==
  ASSUME NEW a \in Semvers, NEW b \in Semvers, NEW c \in Semvers
  PROVE  /\ compareSemver(a, b) \in {-1, 0, 1}
         /\ compareSemver(b, a) = -compareSemver(a, b)
         /\ Compose(compareSemver(a, b), compareSemver(b, c), compareSemver(a, c))
<1> DEFINE Core(x, y) == [i \in 1 .. 3 |-> cmpInt(x.core[i], y.core[i])]
           Released(x) == IF x.pre = <<>> THEN 1 ELSE 0
           Rest(x, y) == Then(cmpInt(Released(x), Released(y)), Pre(x.pre, y.pre))
<1>1. /\ a.core \in [1 .. 3 -> Nat] /\ b.core \in [1 .. 3 -> Nat] /\ c.core \in [1 .. 3 -> Nat]
      /\ a.pre \in Seq(Ids) /\ b.pre \in Seq(Ids) /\ c.pre \in Seq(Ids)
      /\ Released(a) \in Int /\ Released(b) \in Int /\ Released(c) \in Int
  BY DEF Semvers, Ids
<1>2. \A x, y : compareSemver(x, y) = Then(Lexical(Core(x, y)), Rest(x, y))
  BY DEF compareSemver, Pre
<1> HIDE DEF Released
<1>3. ASSUME NEW i \in 1 .. 3
      PROVE  /\ Core(a, b)[i] \in {-1, 0, 1} /\ Core(b, c)[i] \in {-1, 0, 1} /\ Core(a, c)[i] \in {-1, 0, 1}
             /\ Core(b, a)[i] = -Core(a, b)[i]
             /\ Compose(Core(a, b)[i], Core(b, c)[i], Core(a, c)[i])
  <2> DEFINE p == a.core[i]
             q == b.core[i]
             r == c.core[i]
  <2>0. \A x \in Semvers : x.core[i] \in Nat
    BY DEF Semvers
  <2>1. p \in Int /\ q \in Int /\ r \in Int
    BY <2>0
  <2>2. /\ Core(a, b)[i] = cmpInt(p, q) /\ Core(b, c)[i] = cmpInt(q, r)
        /\ Core(a, c)[i] = cmpInt(p, r) /\ Core(b, a)[i] = cmpInt(q, p)
    OBVIOUS
  <2> HIDE DEF p, q, r, Core
  <2> QED BY <2>1, <2>2, CmpIntOrders
<1>4. /\ Core(a, b) \in [1 .. 3 -> {-1, 0, 1}] /\ Core(b, c) \in [1 .. 3 -> {-1, 0, 1}]
      /\ Core(a, c) \in [1 .. 3 -> {-1, 0, 1}]
      /\ Core(a, b) \in [1 .. 3 -> Int] /\ Core(b, c) \in [1 .. 3 -> Int]
      /\ Core(a, c) \in [1 .. 3 -> Int] /\ Core(b, a) \in [1 .. 3 -> Int]
  BY <1>3
<1> HIDE DEF Core
<1>5. /\ Lexical(Core(a, b)) \in {-1, 0, 1} /\ Lexical(Core(b, c)) \in {-1, 0, 1}
      /\ Lexical(Core(a, c)) \in {-1, 0, 1}
      /\ Lexical(Core(b, a)) = -Lexical(Core(a, b))
      /\ Compose(Lexical(Core(a, b)), Lexical(Core(b, c)), Lexical(Core(a, c)))
  <2>1. 3 \in Nat
    OBVIOUS
  <2>2. Lexical(Core(a, b)) \in {-1, 0, 1} /\ Lexical(Core(b, c)) \in {-1, 0, 1}
        /\ Lexical(Core(a, c)) \in {-1, 0, 1}
    BY <1>4, <2>1, LexicalTyped
  <2>3. Lexical(Core(b, a)) = -Lexical(Core(a, b))
    BY <1>3, <1>4, <2>1, LexicalFlips
  <2>4. Compose(Lexical(Core(a, b)), Lexical(Core(b, c)), Lexical(Core(a, c)))
    BY <1>3, <1>4, <2>1, LexicalComposes
  <2> QED BY <2>2, <2>3, <2>4
<1>6. /\ Rest(a, b) \in {-1, 0, 1} /\ Rest(b, c) \in {-1, 0, 1} /\ Rest(a, c) \in {-1, 0, 1}
      /\ Rest(b, a) = -Rest(a, b)
      /\ Compose(Rest(a, b), Rest(b, c), Rest(a, c))
  <2>1. /\ Pre(a.pre, b.pre) \in {-1, 0, 1} /\ Pre(b.pre, c.pre) \in {-1, 0, 1}
        /\ Pre(a.pre, c.pre) \in {-1, 0, 1}
        /\ Pre(b.pre, a.pre) = -Pre(a.pre, b.pre)
        /\ Compose(Pre(a.pre, b.pre), Pre(b.pre, c.pre), Pre(a.pre, c.pre))
    BY <1>1, PreOrders
  <2>2. /\ cmpInt(Released(a), Released(b)) \in {-1, 0, 1}
        /\ cmpInt(Released(b), Released(c)) \in {-1, 0, 1}
        /\ cmpInt(Released(a), Released(c)) \in {-1, 0, 1}
        /\ cmpInt(Released(b), Released(a)) = -cmpInt(Released(a), Released(b))
        /\ Compose(cmpInt(Released(a), Released(b)), cmpInt(Released(b), Released(c)),
                   cmpInt(Released(a), Released(c)))
    BY <1>1, CmpIntOrders
  <2>3. Compose(Rest(a, b), Rest(b, c), Rest(a, c))
    BY <2>1, <2>2, ThenComposes
  <2> QED BY <2>1, <2>2, <2>3 DEF Then
<1>7. Compose(Then(Lexical(Core(a, b)), Rest(a, b)), Then(Lexical(Core(b, c)), Rest(b, c)),
              Then(Lexical(Core(a, c)), Rest(a, c)))
  BY <1>5, <1>6, ThenComposes
<1> HIDE DEF Rest
<1>8. /\ Then(Lexical(Core(a, b)), Rest(a, b)) \in {-1, 0, 1}
      /\ Then(Lexical(Core(b, a)), Rest(b, a)) = -Then(Lexical(Core(a, b)), Rest(a, b))
  BY <1>5, <1>6 DEF Then
<1> QED BY <1>2, <1>7, <1>8

\* Releases padded with zeros.
Segment(v, i) == IF i <= Len(v.release) THEN v.release[i] ELSE 0

Release(a, b) ==
  Lexical([i \in 1 .. (IF Len(a.release) < Len(b.release) THEN Len(b.release) ELSE Len(a.release)) |->
             cmpInt(Segment(a, i), Segment(b, i))])

LEMMA SegmentTyped ==
  ASSUME NEW v \in Pep440s, NEW i \in Nat \ {0}
  PROVE  Segment(v, i) \in Int
<1>1. v.release \in Seq(Nat)
  BY DEF Pep440s
<1> QED BY <1>1 DEF Segment

\* Zeros behind both releases do not change which is greater.
LEMMA ReleaseIsPadded ==
  ASSUME NEW a \in Pep440s, NEW b \in Pep440s, NEW n \in Nat,
         Len(a.release) <= n, Len(b.release) <= n
  PROVE  Release(a, b) = Lexical([i \in 1 .. n |-> cmpInt(Segment(a, i), Segment(b, i))])
<1> DEFINE longest == IF Len(a.release) < Len(b.release) THEN Len(b.release) ELSE Len(a.release)
           f == [i \in 1 .. longest |-> cmpInt(Segment(a, i), Segment(b, i))]
           g == [i \in 1 .. n |-> cmpInt(Segment(a, i), Segment(b, i))]
<1>1. /\ longest \in Nat /\ longest <= n
      /\ Len(a.release) \in Nat /\ Len(b.release) \in Nat
      /\ Len(a.release) <= longest /\ Len(b.release) <= longest
  BY DEF Pep440s
<1>2. \A i \in 1 .. n : cmpInt(Segment(a, i), Segment(b, i)) \in Int
  BY SegmentTyped DEF cmpInt
<1>3. \A i \in 1 .. n : i > longest => cmpInt(Segment(a, i), Segment(b, i)) = 0
  BY <1>1 DEF Segment, cmpInt
<1> HIDE DEF longest
<1>4. g \in [1 .. n -> Int] /\ f \in [1 .. longest -> Int]
  BY <1>1, <1>2
<1>5. \A i \in 1 .. n : g[i] = IF i <= longest THEN f[i] ELSE 0
  BY <1>1, <1>3
<1> HIDE DEF f, g
<1>6. Lexical(g) = Lexical(f)
  BY <1>1, <1>4, <1>5, LexicalPads
<1> QED BY <1>6 DEF Release, f, g, longest

LEMMA ReleaseOrders ==
  ASSUME NEW a \in Pep440s, NEW b \in Pep440s, NEW c \in Pep440s
  PROVE  /\ Release(a, b) \in {-1, 0, 1}
         /\ Release(b, a) = -Release(a, b)
         /\ Compose(Release(a, b), Release(b, c), Release(a, c))
<1> DEFINE n == Len(a.release) + Len(b.release) + Len(c.release)
           f(x, y) == [i \in 1 .. n |-> cmpInt(Segment(x, i), Segment(y, i))]
<1>1. n \in Nat /\ Len(a.release) <= n /\ Len(b.release) <= n /\ Len(c.release) <= n
  BY DEF Pep440s
<1> HIDE DEF n
<1>2. /\ Release(a, b) = Lexical(f(a, b)) /\ Release(b, a) = Lexical(f(b, a))
      /\ Release(b, c) = Lexical(f(b, c)) /\ Release(a, c) = Lexical(f(a, c))
  BY <1>1, ReleaseIsPadded
<1>3. ASSUME NEW i \in 1 .. n
      PROVE  /\ f(a, b)[i] \in {-1, 0, 1} /\ f(b, c)[i] \in {-1, 0, 1} /\ f(a, c)[i] \in {-1, 0, 1}
             /\ f(b, a)[i] = -f(a, b)[i]
             /\ Compose(f(a, b)[i], f(b, c)[i], f(a, c)[i])
  <2>1. Segment(a, i) \in Int /\ Segment(b, i) \in Int /\ Segment(c, i) \in Int
    BY <1>1, SegmentTyped
  <2> QED BY <2>1, CmpIntOrders
<1>4. /\ f(a, b) \in [1 .. n -> {-1, 0, 1}] /\ f(b, c) \in [1 .. n -> Int]
      /\ f(a, c) \in [1 .. n -> Int] /\ f(b, a) \in [1 .. n -> Int] /\ f(a, b) \in [1 .. n -> Int]
  BY <1>3
<1> HIDE DEF f
<1>5. Lexical(f(a, b)) \in {-1, 0, 1}
  BY <1>1, <1>4, LexicalTyped
<1>6. Lexical(f(b, a)) = -Lexical(f(a, b))
  BY <1>1, <1>3, <1>4, LexicalFlips
<1>7. Compose(Lexical(f(a, b)), Lexical(f(b, c)), Lexical(f(a, c)))
  BY <1>1, <1>3, <1>4, LexicalComposes
<1> QED BY <1>2, <1>5, <1>6, <1>7

\* Versions of PyPI are ordered.
LEMMA SortKeyTyped ==
  ASSUME NEW v \in Pep440s, NEW i \in 1 .. 4
  PROVE  SortKey(v)[i] \in Int
<1>1. /\ v.pre = <<>> \/ v.pre \in Nat \X Nat
      /\ v.post \in Seq(Nat) /\ v.dev \in Seq(Nat)
  BY DEF Pep440s
<1>2. /\ v.pre # <<>> => v.pre[1] \in Int /\ v.pre[2] \in Int
      /\ v.post # <<>> => v.post[1] \in Int
      /\ v.dev # <<>> => v.dev[1] \in Int
  BY <1>1
<1>3. Latest \in Int
  BY DEF Latest
<1> QED BY <1>2, <1>3 DEF SortKey

LEMMA Pep440Orders ==
  ASSUME NEW a \in Pep440s, NEW b \in Pep440s, NEW c \in Pep440s
  PROVE  /\ comparePEP440(a, b) \in {-1, 0, 1}
         /\ comparePEP440(b, a) = -comparePEP440(a, b)
         /\ Compose(comparePEP440(a, b), comparePEP440(b, c), comparePEP440(a, c))
<1> DEFINE Keys(x, y) == [i \in 1 .. 4 |-> cmpInt(SortKey(x)[i], SortKey(y)[i])]
           Rest(x, y) == Then(Release(x, y), Lexical(Keys(x, y)))
<1>1. \A x, y : comparePEP440(x, y) = Then(cmpInt(x.epoch, y.epoch), Rest(x, y))
  BY DEF comparePEP440, Release, Segment
<1>2. ASSUME NEW i \in 1 .. 4
      PROVE  /\ Keys(a, b)[i] \in {-1, 0, 1} /\ Keys(b, c)[i] \in {-1, 0, 1} /\ Keys(a, c)[i] \in {-1, 0, 1}
             /\ Keys(b, a)[i] = -Keys(a, b)[i]
             /\ Compose(Keys(a, b)[i], Keys(b, c)[i], Keys(a, c)[i])
  <2> DEFINE p == SortKey(a)[i]
             q == SortKey(b)[i]
             r == SortKey(c)[i]
  <2>1. p \in Int /\ q \in Int /\ r \in Int
    BY SortKeyTyped
  <2>2. /\ Keys(a, b)[i] = cmpInt(p, q) /\ Keys(b, c)[i] = cmpInt(q, r)
        /\ Keys(a, c)[i] = cmpInt(p, r) /\ Keys(b, a)[i] = cmpInt(q, p)
    OBVIOUS
  <2> HIDE DEF p, q, r, Keys
  <2> QED BY <2>1, <2>2, CmpIntOrders
<1>3. /\ Keys(a, b) \in [1 .. 4 -> {-1, 0, 1}] /\ Keys(b, c) \in [1 .. 4 -> {-1, 0, 1}]
      /\ Keys(a, c) \in [1 .. 4 -> {-1, 0, 1}]
      /\ Keys(a, b) \in [1 .. 4 -> Int] /\ Keys(b, c) \in [1 .. 4 -> Int]
      /\ Keys(a, c) \in [1 .. 4 -> Int] /\ Keys(b, a) \in [1 .. 4 -> Int]
  BY <1>2
<1> HIDE DEF Keys
<1>4. /\ Lexical(Keys(a, b)) \in {-1, 0, 1} /\ Lexical(Keys(b, c)) \in {-1, 0, 1}
      /\ Lexical(Keys(a, c)) \in {-1, 0, 1}
      /\ Lexical(Keys(b, a)) = -Lexical(Keys(a, b))
      /\ Compose(Lexical(Keys(a, b)), Lexical(Keys(b, c)), Lexical(Keys(a, c)))
  <2>1. 4 \in Nat
    OBVIOUS
  <2>2. Lexical(Keys(a, b)) \in {-1, 0, 1} /\ Lexical(Keys(b, c)) \in {-1, 0, 1}
        /\ Lexical(Keys(a, c)) \in {-1, 0, 1}
    BY <1>3, <2>1, LexicalTyped
  <2>3. Lexical(Keys(b, a)) = -Lexical(Keys(a, b))
    BY <1>2, <1>3, <2>1, LexicalFlips
  <2>4. Compose(Lexical(Keys(a, b)), Lexical(Keys(b, c)), Lexical(Keys(a, c)))
    BY <1>2, <1>3, <2>1, LexicalComposes
  <2> QED BY <2>2, <2>3, <2>4
<1>5. /\ Release(a, b) \in {-1, 0, 1} /\ Release(b, c) \in {-1, 0, 1} /\ Release(a, c) \in {-1, 0, 1}
      /\ Release(b, a) = -Release(a, b)
      /\ Compose(Release(a, b), Release(b, c), Release(a, c))
  BY ReleaseOrders
<1>6. Compose(Rest(a, b), Rest(b, c), Rest(a, c))
  BY <1>4, <1>5, ThenComposes
<1>7. /\ Rest(a, b) \in {-1, 0, 1} /\ Rest(b, c) \in {-1, 0, 1} /\ Rest(a, c) \in {-1, 0, 1}
      /\ Rest(b, a) = -Rest(a, b)
  BY <1>4, <1>5 DEF Then
<1> HIDE DEF Rest
<1>8. /\ cmpInt(a.epoch, b.epoch) \in {-1, 0, 1} /\ cmpInt(b.epoch, c.epoch) \in {-1, 0, 1}
      /\ cmpInt(a.epoch, c.epoch) \in {-1, 0, 1}
      /\ cmpInt(b.epoch, a.epoch) = -cmpInt(a.epoch, b.epoch)
      /\ Compose(cmpInt(a.epoch, b.epoch), cmpInt(b.epoch, c.epoch), cmpInt(a.epoch, c.epoch))
  <2>1. a.epoch \in Int /\ b.epoch \in Int /\ c.epoch \in Int
    BY DEF Pep440s
  <2> QED BY <2>1, CmpIntOrders
<1>9. Compose(comparePEP440(a, b), comparePEP440(b, c), comparePEP440(a, c))
  BY <1>1, <1>6, <1>7, <1>8, ThenComposes
<1>10. comparePEP440(a, b) \in {-1, 0, 1} /\ comparePEP440(b, a) = -comparePEP440(a, b)
  BY <1>1, <1>7, <1>8 DEF Then
<1> QED BY <1>9, <1>10

\* The comparison of two versions of a package is a total order of them, up
\* to versions that are equal: each ecosystem's, for every two versions its
\* parser accepts (version.go's compareVersion).
THEOREM VersionsAreOrdered ==
  ASSUME NEW ecosystem,
         NEW a \in VersionsOf(ecosystem), NEW b \in VersionsOf(ecosystem), NEW c \in VersionsOf(ecosystem)
  PROVE  LET cmp(x, y) == compareVersion(ecosystem, x, y)
         IN  /\ cmp(a, b) \in {-1, 0, 1}
             /\ cmp(b, a) = -cmp(a, b)
             /\ cmp(a, b) <= 0 /\ cmp(b, c) <= 0
                  => cmp(a, c) <= 0 /\ (cmp(a, c) = 0 <=> cmp(a, b) = 0 /\ cmp(b, c) = 0)
<1>1. CASE ecosystem = "PyPI"
  BY <1>1, Pep440Orders DEF VersionsOf, compareVersion, Compose
<1>2. CASE ecosystem # "PyPI"
  BY <1>2, SemverOrders DEF VersionsOf, compareVersion, Compose
<1> QED BY <1>1, <1>2

\* The same with "0", which is below every other version (rangeFixes' cmp).
Placed(ecosystem) == VersionsOf(ecosystem) \union {Beginning}

LEMMA RangeOrders ==
  ASSUME NEW ecosystem,
         NEW a \in Placed(ecosystem), NEW b \in Placed(ecosystem), NEW c \in Placed(ecosystem)
  PROVE  /\ CompareInRange(ecosystem, a, b) \in {-1, 0, 1}
         /\ CompareInRange(ecosystem, b, a) = -CompareInRange(ecosystem, a, b)
         /\ Compose(CompareInRange(ecosystem, a, b), CompareInRange(ecosystem, b, c),
                    CompareInRange(ecosystem, a, c))
<1> DEFINE cmp(x, y) == compareVersion(ecosystem, x, y)
<1>1. /\ a # Beginning => a \in VersionsOf(ecosystem)
      /\ b # Beginning => b \in VersionsOf(ecosystem)
      /\ c # Beginning => c \in VersionsOf(ecosystem)
  BY DEF Placed
<1>2. a # Beginning /\ b # Beginning => cmp(a, b) \in {-1, 0, 1} /\ cmp(b, a) = -cmp(a, b)
  BY <1>1, VersionsAreOrdered
<1>3. b # Beginning /\ c # Beginning => cmp(b, c) \in {-1, 0, 1}
  BY <1>1, VersionsAreOrdered
<1>4. a # Beginning /\ c # Beginning => cmp(a, c) \in {-1, 0, 1}
  BY <1>1, VersionsAreOrdered
<1>5. a # Beginning /\ b # Beginning /\ c # Beginning => Compose(cmp(a, b), cmp(b, c), cmp(a, c))
  BY <1>1, VersionsAreOrdered DEF Compose
<1> HIDE DEF cmp
<1>6. \A x, y : CompareInRange(ecosystem, x, y)
                  = IF x = Beginning /\ y = Beginning THEN 0
                    ELSE IF x = Beginning THEN -1 ELSE IF y = Beginning THEN 1 ELSE cmp(x, y)
  BY DEF CompareInRange, cmp
<1>7. CASE a # Beginning /\ b # Beginning /\ c # Beginning
  BY <1>2, <1>5, <1>6, <1>7
<1>8. CASE ~(a # Beginning /\ b # Beginning /\ c # Beginning)
  BY <1>2, <1>3, <1>4, <1>6, <1>8 DEF Compose
<1> QED BY <1>7, <1>8

-----------------------------------------------------------------------------
\* Events whose versions can be placed.
EventsOf(ecosystem) == [kind : STRING, version : Placed(ecosystem)]

\* Each event's version is below that of every event behind it.
Ascending(ecosystem, points) ==
  \A i, j \in DOMAIN points :
    i < j => CompareInRange(ecosystem, points[i].version, points[j].version) < 0

LEMMA EventTyped ==
  ASSUME NEW ecosystem, NEW points \in Seq(EventsOf(ecosystem)), NEW i \in 1 .. Len(points)
  PROVE  points[i] \in EventsOf(ecosystem) /\ points[i].version \in Placed(ecosystem)
<1>1. points[i] \in EventsOf(ecosystem)
  OBVIOUS
<1> QED BY <1>1 DEF EventsOf

\* There is a place for an event: behind the last that is not above it.
LEMMA InsertIs ==
  ASSUME NEW ecosystem, NEW points \in Seq(EventsOf(ecosystem)), NEW e \in EventsOf(ecosystem)
  PROVE  \E p \in 0 .. Len(points) :
           /\ p = 0 \/ ~(CompareInRange(ecosystem, points[p].version, e.version) > 0)
           /\ \A i \in p + 1 .. Len(points) : CompareInRange(ecosystem, points[i].version, e.version) > 0
           /\ Insert(ecosystem, points, e) =
                [i \in 1 .. Len(points) + 1 |->
                   IF i <= p THEN points[i] ELSE IF i = p + 1 THEN e ELSE points[i - 1]]
<1> DEFINE n == Len(points)
           Above(i) == CompareInRange(ecosystem, points[i].version, e.version) > 0
           Fits(p) == (p = 0 \/ ~Above(p)) /\ \A i \in p + 1 .. n : Above(i)
           T == {p \in 0 .. n : p = 0 \/ ~Above(p)}
           place == CHOOSE p \in 0 .. n : Fits(p)
<1>1. n \in Nat
  OBVIOUS
<1>2. PICK m \in T : \A k \in T : k <= m
  <2>1. T \in SUBSET (0 .. n) /\ 0 \in T
    BY <1>1
  <2> HIDE DEF T, n
  <2> QED BY <1>1, <2>1, HasGreatest
<1>3. Fits(m)
  <2>1. ASSUME NEW i \in m + 1 .. n PROVE Above(i)
    <3>1. i \in 0 .. n /\ ~(i <= m)
      BY <1>1, <1>2
    <3>2. i \notin T
      BY <1>2, <3>1
    <3> QED BY <3>1, <3>2
  <2> QED BY <1>2, <2>1
<1>4. place \in 0 .. n /\ Fits(place)
  <2>1. m \in 0 .. n
    BY <1>2
  <2> HIDE DEF Fits, n
  <2> QED BY <1>3, <2>1
<1>5. Insert(ecosystem, points, e) =
        [i \in 1 .. n + 1 |->
           IF i <= place THEN points[i] ELSE IF i = place + 1 THEN e ELSE points[i - 1]]
  BY DEF Insert
<1> HIDE DEF place
<1> QED BY <1>4, <1>5

\* Insert adds one event and loses none.
LEMMA InsertTyped ==
  ASSUME NEW ecosystem, NEW points \in Seq(EventsOf(ecosystem)), NEW e \in EventsOf(ecosystem)
  PROVE  /\ Insert(ecosystem, points, e) \in Seq(EventsOf(ecosystem))
         /\ Len(Insert(ecosystem, points, e)) = Len(points) + 1
         /\ Points(Insert(ecosystem, points, e)) = Points(points) \union {e}
<1> DEFINE n == Len(points)
           E == EventsOf(ecosystem)
<1>1. n \in Nat /\ \A i \in 1 .. n : points[i] \in E
  OBVIOUS
<1>2. PICK p \in 0 .. n :
        Insert(ecosystem, points, e) =
          [i \in 1 .. n + 1 |-> IF i <= p THEN points[i] ELSE IF i = p + 1 THEN e ELSE points[i - 1]]
  BY InsertIs
<1> DEFINE s == [i \in 1 .. n + 1 |-> IF i <= p THEN points[i] ELSE IF i = p + 1 THEN e ELSE points[i - 1]]
<1>3. \A i \in 1 .. n + 1 : s[i] \in E
  BY <1>1
<1>4. s \in [1 .. n + 1 -> E] /\ n + 1 \in Nat /\ DOMAIN s = 1 .. n + 1
  BY <1>1, <1>3
<1>5. s \in Seq(E) /\ Len(s) = n + 1
  <2> HIDE DEF s, n, E
  <2> QED BY <1>4
<1>6. Points(s) \subseteq Points(points) \union {e}
  <2> SUFFICES ASSUME NEW i \in 1 .. n + 1 PROVE s[i] \in Points(points) \union {e}
    BY <1>4 DEF Points
  <2>1. CASE i <= p
    BY <1>1, <2>1 DEF Points
  <2>2. CASE i = p + 1
    BY <2>2
  <2>3. CASE i > p + 1
    <3>1. i - 1 \in 1 .. n /\ s[i] = points[i - 1]
      BY <1>1, <2>3
    <3> QED BY <3>1 DEF Points
  <2> QED BY <1>1, <2>1, <2>2, <2>3
<1>7. e \in Points(s)
  <2>1. p + 1 \in 1 .. n + 1 /\ s[p + 1] = e
    BY <1>1
  <2> QED BY <1>4, <2>1 DEF Points
<1>8. ASSUME NEW i \in 1 .. n PROVE points[i] \in Points(s)
  <2>1. CASE i <= p
    <3>1. i \in 1 .. n + 1 /\ s[i] = points[i]
      BY <1>1, <2>1
    <3> QED BY <1>4, <3>1 DEF Points
  <2>2. CASE i > p
    <3>1. i + 1 \in 1 .. n + 1 /\ s[i + 1] = points[i]
      BY <1>1, <2>2
    <3> QED BY <1>4, <3>1 DEF Points
  <2> QED BY <1>1, <2>1, <2>2
<1> HIDE DEF s
<1>9. Points(points) \subseteq Points(s)
  BY <1>8 DEF Points
<1>10. Insert(ecosystem, points, e) = s
  BY <1>2 DEF s
<1> QED BY <1>5, <1>6, <1>7, <1>9, <1>10

\* Insert keeps the order, when the event is at no other's version.
LEMMA InsertAscends ==
  ASSUME NEW ecosystem, NEW points \in Seq(EventsOf(ecosystem)), NEW e \in EventsOf(ecosystem),
         Ascending(ecosystem, points),
         \A x \in Points(points) : CompareInRange(ecosystem, x.version, e.version) # 0
  PROVE  Ascending(ecosystem, Insert(ecosystem, points, e))
<1> DEFINE n == Len(points)
           cmp(x, y) == CompareInRange(ecosystem, x.version, y.version)
<1>1. n \in Nat /\ \A i \in 1 .. n : points[i] \in EventsOf(ecosystem) /\ points[i] \in Points(points)
  BY DEF Points
<1>2. PICK p \in 0 .. n :
        /\ p = 0 \/ ~(cmp(points[p], e) > 0)
        /\ \A i \in p + 1 .. n : cmp(points[i], e) > 0
        /\ Insert(ecosystem, points, e) =
             [i \in 1 .. n + 1 |-> IF i <= p THEN points[i] ELSE IF i = p + 1 THEN e ELSE points[i - 1]]
  BY InsertIs
<1> DEFINE s == [i \in 1 .. n + 1 |-> IF i <= p THEN points[i] ELSE IF i = p + 1 THEN e ELSE points[i - 1]]
<1>3. \A x, y, z \in EventsOf(ecosystem) :
        /\ cmp(x, y) \in {-1, 0, 1} /\ cmp(y, x) = -cmp(x, y)
        /\ cmp(x, y) < 0 /\ cmp(y, z) < 0 => cmp(x, z) < 0
  <2> SUFFICES ASSUME NEW x \in EventsOf(ecosystem), NEW y \in EventsOf(ecosystem), NEW z \in EventsOf(ecosystem)
               PROVE  /\ cmp(x, y) \in {-1, 0, 1} /\ cmp(y, x) = -cmp(x, y)
                      /\ cmp(x, y) < 0 /\ cmp(y, z) < 0 => cmp(x, z) < 0
    OBVIOUS
  <2>1. x.version \in Placed(ecosystem) /\ y.version \in Placed(ecosystem) /\ z.version \in Placed(ecosystem)
    BY DEF EventsOf
  <2>2. cmp(x, y) \in {-1, 0, 1} /\ cmp(y, x) = -cmp(x, y) /\ Compose(cmp(x, y), cmp(y, z), cmp(x, z))
    BY <2>1, RangeOrders
  <2>3. cmp(y, z) \in {-1, 0, 1} /\ cmp(x, z) \in {-1, 0, 1}
    BY <2>1, RangeOrders
  <2> HIDE DEF cmp
  <2> QED BY <2>2, <2>3 DEF Compose
<1>4. \A i, j \in 1 .. n : i < j => cmp(points[i], points[j]) < 0
  BY <1>1 DEF Ascending
<1>5. \A i \in 1 .. n : cmp(points[i], e) # 0
  BY <1>1
<1> HIDE DEF cmp
<1>6. \A i \in 1 .. p : cmp(points[i], e) < 0
  <2> SUFFICES ASSUME NEW i \in 1 .. p PROVE cmp(points[i], e) < 0
    OBVIOUS
  <2>1. p \in 1 .. n /\ i \in 1 .. n /\ i <= p
    BY <1>1, <1>2
  <2>2. cmp(points[p], e) < 0
    BY <1>1, <1>2, <1>3, <1>5, <2>1
  <2>3. CASE i < p
    BY <1>1, <1>3, <1>4, <2>1, <2>2, <2>3
  <2> QED BY <2>1, <2>2, <2>3
<1>7. \A i \in p + 1 .. n : i \in 1 .. n /\ cmp(e, points[i]) < 0
  BY <1>1, <1>2, <1>3
<1>8. ASSUME NEW i \in 1 .. n + 1, NEW j \in 1 .. n + 1, i < j
      PROVE  cmp(s[i], s[j]) < 0
  <2>1. CASE j <= p
    BY <1>1, <1>2, <1>4, <1>8, <2>1
  <2>2. CASE j = p + 1
    <3>1. i \in 1 .. p /\ s[i] = points[i] /\ s[j] = e
      BY <1>1, <1>2, <1>8, <2>2
    <3> QED BY <1>6, <3>1
  <2>3. CASE j > p + 1
    <3>1. j - 1 \in p + 1 .. n /\ s[j] = points[j - 1]
      BY <1>1, <1>2, <1>8, <2>3
    <3>2. CASE i <= p
      <4>1. i \in 1 .. n /\ j - 1 \in 1 .. n /\ i < j - 1 /\ s[i] = points[i]
        BY <1>1, <1>2, <2>3, <3>1, <3>2
      <4> QED BY <1>4, <3>1, <4>1
    <3>3. CASE i = p + 1
      <4>1. s[i] = e
        BY <1>1, <3>3
      <4> QED BY <1>7, <3>1, <4>1
    <3>4. CASE i > p + 1
      <4>1. i - 1 \in 1 .. n /\ j - 1 \in 1 .. n /\ i - 1 < j - 1 /\ s[i] = points[i - 1]
        BY <1>1, <1>2, <1>8, <3>1, <3>4
      <4> QED BY <1>4, <3>1, <4>1
    <3> QED BY <1>1, <1>2, <3>2, <3>3, <3>4
  <2> QED BY <1>1, <1>2, <2>1, <2>2, <2>3
<1>9. DOMAIN s = 1 .. n + 1
  OBVIOUS
<1> HIDE DEF s
<1>10. Ascending(ecosystem, s)
  BY <1>8, <1>9 DEF Ascending, cmp
<1> QED BY <1>2, <1>10 DEF s

\* The sort is what its recursion says of it: such a function exists, by
\* RecursionExists, and what it holds are sequences of events.
LEMMA SortFromIs ==
  ASSUME NEW ecosystem, NEW events \in Seq(EventsOf(ecosystem))
  PROVE  LET sorted == SortFrom(ecosystem, events)
         IN  /\ sorted[0] = <<>>
             /\ \A k \in 1 .. Len(events) : sorted[k] = Insert(ecosystem, sorted[k - 1], events[k])
<1> DEFINE n == Len(events)
           E == EventsOf(ecosystem)
           D == Seq(E)
           Body(f) == [k \in 0 .. n |-> IF k = 0 THEN <<>> ELSE Insert(ecosystem, f[k - 1], events[k])]
           step == [p \in (1 .. n) \X D |-> Insert(ecosystem, p[2], events[p[1]])]
<1>1. n \in Nat /\ \A k \in 1 .. n : events[k] \in E
  OBVIOUS
<1>2. step \in [(1 .. n) \X D -> D]
  <2>1. ASSUME NEW p \in (1 .. n) \X D PROVE Insert(ecosystem, p[2], events[p[1]]) \in D
    BY <1>1, InsertTyped
  <2> QED BY <2>1
<1>3. PICK f : f \in [0 .. n -> D] /\ f[0] = <<>> /\ \A k \in 1 .. n : f[k] = step[<<k, f[k - 1]>>]
  <2>1. n \in Nat /\ <<>> \in D
    OBVIOUS
  <2>2. PICK f : IsRecursive(f, n, D, <<>>, step)
    <3> HIDE DEF n, step, D
    <3> QED BY <1>2, <2>1, RecursionExists
  <2> QED BY <2>2 DEF IsRecursive
<1>4. f = Body(f)
  <2>1. ASSUME NEW k \in 1 .. n PROVE f[k] = Insert(ecosystem, f[k - 1], events[k])
    <3>1. k - 1 \in 0 .. n
      BY <1>1
    <3>2. f[k - 1] \in D
      BY <1>3, <3>1
    <3>3. f[k] = step[<<k, f[k - 1]>>]
      BY <1>3
    <3> QED BY <3>2, <3>3
  <2> HIDE DEF n, step, D
  <2> QED BY <1>1, <1>3, <2>1
<1> DEFINE sorted == CHOOSE g : g = Body(g)
<1>5. sorted = Body(sorted)
  <2> HIDE DEF Body
  <2> QED BY <1>4
<1>6. SortFrom(ecosystem, events) = sorted
  BY DEF SortFrom
<1> HIDE DEF sorted
<1>7. sorted[0] = <<>> /\ \A k \in 1 .. n : sorted[k] = Insert(ecosystem, sorted[k - 1], events[k])
  BY <1>1, <1>5
<1> QED BY <1>6, <1>7

\* The first k of a sequence's events.
Listed(events, k) == {events[i] : i \in 1 .. k}

\* No two of the events at one version: the sort puts them in order, and
\* loses none.
LEMMA SortIs ==
  ASSUME NEW ecosystem, NEW events \in Seq(EventsOf(ecosystem)), ~Tied(ecosystem, events)
  PROVE  LET s == SortEvents(ecosystem, events)
         IN  /\ s \in Seq(EventsOf(ecosystem)) /\ Len(s) = Len(events)
             /\ Points(s) = Points(events)
             /\ Ascending(ecosystem, s)
<1> DEFINE n == Len(events)
           E == EventsOf(ecosystem)
           sorted == SortFrom(ecosystem, events)
           Done(k) == /\ sorted[k] \in Seq(E) /\ Len(sorted[k]) = k
                      /\ Points(sorted[k]) = Listed(events, k)
                      /\ Ascending(ecosystem, sorted[k])
           S == {k \in 0 .. n : Done(k)}
<1>1. n \in Nat /\ DOMAIN events = 1 .. n /\ \A k \in 1 .. n : events[k] \in E
  OBVIOUS
<1>2. sorted[0] = <<>> /\ \A k \in 1 .. n : sorted[k] = Insert(ecosystem, sorted[k - 1], events[k])
  BY SortFromIs
<1>3. 0 \in S
  <2>1. <<>> \in Seq(E) /\ Len(<<>>) = 0 /\ DOMAIN <<>> = {}
    OBVIOUS
  <2>2. Points(<<>>) = {} /\ Listed(events, 0) = {} /\ Ascending(ecosystem, <<>>)
    BY <2>1 DEF Points, Listed, Ascending
  <2>3. sorted[0] = <<>> /\ 0 \in 0 .. n
    BY <1>1, <1>2
  <2> HIDE DEF sorted, n
  <2>4. Done(0)
    BY <2>1, <2>2, <2>3
  <2> QED BY <2>3, <2>4
<1>4. ASSUME NEW k \in 0 .. n, k \in S, k < n PROVE k + 1 \in S
  <2> DEFINE p == sorted[k]
             e == events[k + 1]
  <2>1. k + 1 \in 1 .. n /\ e \in E /\ sorted[k + 1] = Insert(ecosystem, p, e)
    <3>1. k + 1 \in 1 .. n /\ (k + 1) - 1 = k
      BY <1>1, <1>4
    <3> QED BY <1>1, <1>2, <3>1
  <2>2. p \in Seq(E) /\ Len(p) = k /\ Points(p) = Listed(events, k) /\ Ascending(ecosystem, p)
    BY <1>4
  <2>3. ASSUME NEW x \in Points(p) PROVE CompareInRange(ecosystem, x.version, e.version) # 0
    <3>1. PICK i \in 1 .. k : x = events[i]
      BY <2>2 DEF Listed
    <3>2. i \in 1 .. n /\ i < k + 1
      BY <1>1, <1>4, <3>1
    <3> QED BY <1>1, <2>1, <3>1, <3>2 DEF Tied
  <2>4. Listed(events, k + 1) = Listed(events, k) \union {e}
    <3>1. 1 .. k + 1 = (1 .. k) \union {k + 1}
      BY <1>4
    <3> QED BY <3>1 DEF Listed
  <2> HIDE DEF p, e, E, n, sorted
  <2>5. /\ sorted[k + 1] \in Seq(E) /\ Len(sorted[k + 1]) = k + 1
        /\ Points(sorted[k + 1]) = Listed(events, k + 1)
    <3>1. p \in Seq(EventsOf(ecosystem)) /\ e \in EventsOf(ecosystem)
      BY <2>1, <2>2 DEF E
    <3>2. /\ Insert(ecosystem, p, e) \in Seq(EventsOf(ecosystem))
          /\ Len(Insert(ecosystem, p, e)) = Len(p) + 1
          /\ Points(Insert(ecosystem, p, e)) = Points(p) \union {e}
      BY <3>1, InsertTyped
    <3> QED BY <2>1, <2>2, <2>4, <3>2 DEF E
  <2>6. Ascending(ecosystem, sorted[k + 1])
    BY <2>1, <2>2, <2>3, InsertAscends DEF E
  <2>7. k + 1 \in 0 .. n
    BY <2>1
  <2> QED BY <2>5, <2>6, <2>7
<1>5. n \in S
  <2>1. \A k \in 0 .. n : k \in S
    <3> HIDE DEF S, n
    <3> QED BY <1>1, <1>3, <1>4, UpToBound
  <2> QED BY <1>1, <2>1
<1>6. Listed(events, n) = Points(events)
  BY <1>1 DEF Listed, Points
<1>7. SortEvents(ecosystem, events) = sorted[n]
  BY DEF SortEvents
<1> HIDE DEF sorted, n
<1> QED BY <1>5, <1>6, <1>7 DEF n

-----------------------------------------------------------------------------
\* What the walk carries from one event to the next.
WalksOf(ecosystem) ==
  [open : BOOLEAN, lower : Placed(ecosystem), fixes : SUBSET Placed(ecosystem)]

LEMMA WalkEventTyped ==
  ASSUME NEW ecosystem, NEW installed, NEW walk \in WalksOf(ecosystem), NEW e \in EventsOf(ecosystem)
  PROVE  WalkEvent(ecosystem, installed, walk, e) \in WalksOf(ecosystem)
<1>1. e.version \in Placed(ecosystem)
  BY DEF EventsOf
<1> QED BY <1>1 DEF WalksOf, WalkEvent

\* The walk is what its recursion says of it.
LEMMA WalkFromIs ==
  ASSUME NEW ecosystem, NEW installed, NEW points \in Seq(EventsOf(ecosystem))
  PROVE  LET walk == WalkFrom(ecosystem, installed, points)
         IN  /\ walk[0] = [open |-> FALSE, lower |-> Beginning, fixes |-> {}]
             /\ \A k \in 1 .. Len(points) :
                  walk[k] = WalkEvent(ecosystem, installed, walk[k - 1], points[k])
<1> DEFINE n == Len(points)
           D == WalksOf(ecosystem)
           base == [open |-> FALSE, lower |-> Beginning, fixes |-> {}]
           Body(f) == [k \in 0 .. n |-> IF k = 0 THEN base
                                       ELSE WalkEvent(ecosystem, installed, f[k - 1], points[k])]
           step == [p \in (1 .. n) \X D |-> WalkEvent(ecosystem, installed, p[2], points[p[1]])]
<1>1. n \in Nat /\ \A k \in 1 .. n : points[k] \in EventsOf(ecosystem)
  OBVIOUS
<1>2. step \in [(1 .. n) \X D -> D]
  <2>1. ASSUME NEW p \in (1 .. n) \X D PROVE WalkEvent(ecosystem, installed, p[2], points[p[1]]) \in D
    BY <1>1, WalkEventTyped
  <2> QED BY <2>1
<1>3. base \in D
  BY DEF WalksOf, Placed
<1>4. PICK f : f \in [0 .. n -> D] /\ f[0] = base /\ \A k \in 1 .. n : f[k] = step[<<k, f[k - 1]>>]
  <2>1. PICK f : IsRecursive(f, n, D, base, step)
    <3> HIDE DEF n, step, D, base
    <3> QED BY <1>1, <1>2, <1>3, RecursionExists
  <2> QED BY <2>1 DEF IsRecursive
<1> HIDE DEF base
<1>5. f = Body(f)
  <2>1. ASSUME NEW k \in 1 .. n PROVE f[k] = WalkEvent(ecosystem, installed, f[k - 1], points[k])
    <3>1. k - 1 \in 0 .. n
      BY <1>1
    <3>2. f[k - 1] \in D
      BY <1>4, <3>1
    <3>3. f[k] = step[<<k, f[k - 1]>>]
      BY <1>4
    <3> QED BY <3>2, <3>3
  <2> HIDE DEF n, step, D
  <2> QED BY <1>1, <1>4, <2>1
<1> DEFINE walk == CHOOSE g : g = Body(g)
<1>6. walk = Body(walk)
  <2> HIDE DEF Body
  <2> QED BY <1>5
<1>7. WalkFrom(ecosystem, installed, points) = walk
  BY DEF WalkFrom, base
<1> HIDE DEF walk
<1>8. walk[0] = base /\ \A k \in 1 .. n : walk[k] = WalkEvent(ecosystem, installed, walk[k - 1], points[k])
  BY <1>1, <1>6
<1> QED BY <1>7, <1>8 DEF base

-----------------------------------------------------------------------------
\* NearestFix's parts: the events at or below the installed version, the
\* ends above it, and whether it is affected.
Below(ecosystem, installed, points) ==
  {e \in points : CompareInRange(ecosystem, e.version, installed) <= 0}

Ends(ecosystem, installed, points) ==
  {e \in points \ Below(ecosystem, installed, points) : e.kind # "introduced"}

Affected(ecosystem, installed, points) ==
  \E e \in Below(ecosystem, installed, points) :
    /\ e.kind = "introduced"
    /\ \A x \in Below(ecosystem, installed, points) : CompareInRange(ecosystem, x.version, e.version) <= 0

Nearest(ecosystem, ends) ==
  {e \in ends : \A x \in ends : CompareInRange(ecosystem, e.version, x.version) <= 0}

\* The reference in these parts.
LEMMA NearestFixIs ==
  ASSUME NEW ecosystem, NEW installed, NEW points
  PROVE  NearestFix(ecosystem, installed, points) =
           IF Affected(ecosystem, installed, points)
             THEN Fixed(Nearest(ecosystem, Ends(ecosystem, installed, points))) ELSE {}
  BY DEF NearestFix, Affected, Nearest, Ends, Below

\* An event above all of points is at or below the installed version, and
\* then so are they.
LEMMA BelowGrows ==
  ASSUME NEW ecosystem, NEW installed \in Placed(ecosystem),
         NEW points \in SUBSET EventsOf(ecosystem), NEW e \in EventsOf(ecosystem),
         \A x \in points : CompareInRange(ecosystem, x.version, e.version) < 0,
         CompareInRange(ecosystem, installed, e.version) >= 0
  PROVE  LET Q == points \union {e}
         IN  /\ Ends(ecosystem, installed, points) = {} /\ Ends(ecosystem, installed, Q) = {}
             /\ Affected(ecosystem, installed, Q) <=> e.kind = "introduced"
<1> DEFINE cmp(x, y) == CompareInRange(ecosystem, x, y)
           Q == points \union {e}
<1>1. \A x \in EventsOf(ecosystem) : x.version \in Placed(ecosystem)
  BY DEF EventsOf
<1>2. cmp(e.version, e.version) = 0 /\ cmp(e.version, installed) <= 0
  <2>1. cmp(e.version, e.version) \in {-1, 0, 1} /\ cmp(e.version, e.version) = -cmp(e.version, e.version)
    BY <1>1, RangeOrders
  <2>2. cmp(installed, e.version) \in {-1, 0, 1} /\ cmp(e.version, installed) = -cmp(installed, e.version)
    BY <1>1, RangeOrders
  <2> HIDE DEF cmp
  <2>3. cmp(installed, e.version) >= 0
    BY DEF cmp
  <2> QED BY <2>1, <2>2, <2>3
<1>3. ASSUME NEW x \in points
      PROVE  cmp(x.version, installed) <= 0 /\ cmp(x.version, e.version) < 0 /\ ~(cmp(e.version, x.version) <= 0)
  <2>1. x.version \in Placed(ecosystem) /\ e.version \in Placed(ecosystem)
    BY <1>1
  <2>2. cmp(x.version, e.version) \in {-1, 0, 1} /\ cmp(e.version, x.version) = -cmp(x.version, e.version)
    BY <2>1, RangeOrders
  <2>3. Compose(cmp(x.version, e.version), cmp(e.version, installed), cmp(x.version, installed))
    BY <2>1, RangeOrders
  <2>4. cmp(x.version, e.version) < 0
    OBVIOUS
  <2> HIDE DEF cmp
  <2> QED BY <1>2, <2>2, <2>3, <2>4 DEF Compose
<1>4. Below(ecosystem, installed, points) = points /\ Below(ecosystem, installed, Q) = Q
  BY <1>2, <1>3 DEF Below
<1>5. Affected(ecosystem, installed, Q) <=> \E y \in Q : y.kind = "introduced" /\ \A x \in Q : cmp(x.version, y.version) <= 0
  BY <1>4 DEF Affected
<1> HIDE DEF cmp
<1>6. \A x \in Q : cmp(x.version, e.version) <= 0
  <2>1. \A x \in points : cmp(x.version, e.version) <= 0
    <3> SUFFICES ASSUME NEW x \in points PROVE cmp(x.version, e.version) <= 0
      OBVIOUS
    <3>1. cmp(x.version, e.version) \in {-1, 0, 1}
      BY <1>1, RangeOrders DEF cmp
    <3> QED BY <1>3, <3>1
  <2> QED BY <1>2, <2>1
<1>7. Affected(ecosystem, installed, Q) <=> e.kind = "introduced"
  BY <1>3, <1>5, <1>6
<1> QED BY <1>4, <1>7 DEF Ends

\* What an event e above all of points and above the installed version
\* makes of them: it may be an end, the nearest one when there is none yet.
Grows(ecosystem, installed, points, Q, e) ==
  /\ Affected(ecosystem, installed, Q) <=> Affected(ecosystem, installed, points)
  /\ e.kind = "introduced" =>
       /\ Ends(ecosystem, installed, Q) = Ends(ecosystem, installed, points)
       /\ NearestFix(ecosystem, installed, Q) = NearestFix(ecosystem, installed, points)
  /\ e.kind # "introduced" =>
       /\ Ends(ecosystem, installed, Q) # {}
       /\ Affected(ecosystem, installed, points) /\ Ends(ecosystem, installed, points) = {}
            => NearestFix(ecosystem, installed, Q) = Fixed({e})
       /\ ~Affected(ecosystem, installed, points) \/ Ends(ecosystem, installed, points) # {}
            => NearestFix(ecosystem, installed, Q) = NearestFix(ecosystem, installed, points)

LEMMA AboveGrows ==
  ASSUME NEW ecosystem, NEW installed \in Placed(ecosystem),
         NEW points \in SUBSET EventsOf(ecosystem), NEW e \in EventsOf(ecosystem),
         \A x \in points : CompareInRange(ecosystem, x.version, e.version) < 0,
         CompareInRange(ecosystem, installed, e.version) < 0,
         NEW Q, Q = points \union {e}
  PROVE  Grows(ecosystem, installed, points, Q, e)
<1> DEFINE cmp(x, y) == CompareInRange(ecosystem, x, y)
           ends == Ends(ecosystem, installed, points)
<1>1. \A x \in EventsOf(ecosystem) : x.version \in Placed(ecosystem)
  BY DEF EventsOf
<1>2. cmp(e.version, e.version) <= 0 /\ ~(cmp(e.version, installed) <= 0)
  <2>1. cmp(e.version, e.version) \in {-1, 0, 1} /\ cmp(e.version, e.version) = -cmp(e.version, e.version)
    BY <1>1, RangeOrders
  <2>2. cmp(installed, e.version) \in {-1, 0, 1} /\ cmp(e.version, installed) = -cmp(installed, e.version)
    BY <1>1, RangeOrders
  <2> HIDE DEF cmp
  <2>3. cmp(installed, e.version) < 0
    BY DEF cmp
  <2> QED BY <2>1, <2>2, <2>3
<1>3. ASSUME NEW x \in points
      PROVE  cmp(x.version, e.version) <= 0 /\ ~(cmp(e.version, x.version) <= 0)
  <2>1. cmp(x.version, e.version) \in {-1, 0, 1} /\ cmp(e.version, x.version) = -cmp(x.version, e.version)
    BY <1>1, RangeOrders
  <2>2. cmp(x.version, e.version) < 0
    OBVIOUS
  <2> HIDE DEF cmp
  <2> QED BY <2>1, <2>2
<1>4. Below(ecosystem, installed, Q) = Below(ecosystem, installed, points) /\ e \notin Below(ecosystem, installed, Q)
  BY <1>2 DEF Below
<1>5. Affected(ecosystem, installed, Q) <=> Affected(ecosystem, installed, points)
  BY <1>4 DEF Affected
<1>6. ends \subseteq points
  BY DEF Ends
<1>7. CASE e.kind = "introduced"
  <2>1. Ends(ecosystem, installed, Q) = ends
    BY <1>4, <1>7 DEF Ends
  <2> QED BY <1>5, <1>7, <2>1, NearestFixIs DEF Grows
<1>8. CASE e.kind # "introduced"
  <2>1. Ends(ecosystem, installed, Q) = ends \union {e}
    BY <1>4, <1>8 DEF Ends
  <2>2. ends = {} => Nearest(ecosystem, ends \union {e}) = {e}
    BY <1>2 DEF Nearest
  <2>3. ends # {} => Nearest(ecosystem, ends \union {e}) = Nearest(ecosystem, ends)
    <3> HIDE DEF ends
    <3>1. \A x \in ends : cmp(x.version, e.version) <= 0 /\ ~(cmp(e.version, x.version) <= 0)
      BY <1>3, <1>6
    <3> QED BY <3>1 DEF Nearest
  <2> QED BY <1>5, <1>8, <2>1, <2>2, <2>3, NearestFixIs DEF Grows
<1> QED BY <1>7, <1>8

\* Where the walk has come to after the first k events: its fixes are the
\* nearest fix among them, and the interval open is the installed version's
\* own exactly while that has no end.
WalkHolds(ecosystem, installed, points, k) ==
  LET w == WalkFrom(ecosystem, installed, points)[k]
      listed == Listed(points, k)
  IN  /\ w \in WalksOf(ecosystem)
      /\ w.fixes = NearestFix(ecosystem, installed, listed)
      /\ w.open => \E x \in listed : w.lower = x.version
      /\ w.open /\ CompareInRange(ecosystem, installed, w.lower) >= 0
           <=> /\ Affected(ecosystem, installed, listed)
               /\ Ends(ecosystem, installed, listed) = {}

\* It holds before the first event, and of k + 1 events when of k.
LEMMA WalkStarts ==
  ASSUME NEW ecosystem, NEW installed, NEW points \in Seq(EventsOf(ecosystem))
  PROVE  WalkHolds(ecosystem, installed, points, 0)
<1> DEFINE w == WalkFrom(ecosystem, installed, points)[0]
<1>1. w = [open |-> FALSE, lower |-> Beginning, fixes |-> {}]
  BY WalkFromIs
<1>2. Listed(points, 0) = {}
  BY DEF Listed
<1>3. ~Affected(ecosystem, installed, {})
  BY DEF Affected, Below
<1>4. NearestFix(ecosystem, installed, {}) = {}
  BY <1>3, NearestFixIs
<1>5. Beginning \in Placed(ecosystem)
  BY DEF Placed
<1> HIDE DEF w
<1>6. w \in WalksOf(ecosystem) /\ ~w.open /\ w.fixes = {}
  BY <1>1, <1>5 DEF WalksOf
<1>7. /\ w.fixes = NearestFix(ecosystem, installed, Listed(points, 0))
      /\ ~Affected(ecosystem, installed, Listed(points, 0))
  BY <1>2, <1>3, <1>4, <1>6
<1> QED BY <1>6, <1>7 DEF WalkHolds, w

LEMMA WalkGoesOn ==
  ASSUME NEW ecosystem, NEW installed \in Placed(ecosystem),
         NEW points \in Seq(EventsOf(ecosystem)), Ascending(ecosystem, points),
         NEW k \in 0 .. Len(points), k < Len(points), WalkHolds(ecosystem, installed, points, k)
  PROVE  WalkHolds(ecosystem, installed, points, k + 1)
<1> DEFINE n == Len(points)
           E == EventsOf(ecosystem)
           w == WalkFrom(ecosystem, installed, points)[k]
           v == WalkFrom(ecosystem, installed, points)[k + 1]
           P == Listed(points, k)
           Q == Listed(points, k + 1)
           e == points[k + 1]
           cmp(x, y) == CompareInRange(ecosystem, x, y)
           Own(u) == u.open /\ cmp(installed, u.lower) >= 0
<1>1. k + 1 \in 1 .. n /\ \A i \in 1 .. n : points[i] \in E
  OBVIOUS
<1>2. Q = P \union {e}
  <2>1. 1 .. k + 1 = (1 .. k) \union {k + 1}
    OBVIOUS
  <2> QED BY <2>1 DEF Listed
<1>3. e \in E /\ e.version \in Placed(ecosystem) /\ P \in SUBSET E
  BY <1>1 DEF Listed, EventsOf
<1>4. \A x \in P : cmp(x.version, e.version) < 0
  <2> SUFFICES ASSUME NEW i \in 1 .. k PROVE cmp(points[i].version, e.version) < 0
    BY DEF Listed
  <2>1. i \in DOMAIN points /\ k + 1 \in DOMAIN points /\ i < k + 1
    BY <1>1
  <2> QED BY <2>1 DEF Ascending
<1>5. v = WalkEvent(ecosystem, installed, w, e)
  <2>1. k + 1 \in 1 .. Len(points) /\ (k + 1) - 1 = k
    BY <1>1
  <2> QED BY <2>1, WalkFromIs
<1>6. /\ w \in WalksOf(ecosystem)
      /\ w.fixes = NearestFix(ecosystem, installed, P)
      /\ w.open => \E x \in P : w.lower = x.version
      /\ Own(w) <=> Affected(ecosystem, installed, P) /\ Ends(ecosystem, installed, P) = {}
  BY DEF WalkHolds
<1> HIDE DEF w, v, P, Q, e
<1>7. v \in WalksOf(ecosystem)
  BY <1>3, <1>5, <1>6, WalkEventTyped DEF E
<1>8. v.open => \E x \in Q : v.lower = x.version
  <2>1. v.lower = w.lower \/ v.lower = e.version
    BY <1>5, <1>6 DEF WalkEvent, WalksOf
  <2>2. v.open /\ v.lower = w.lower => w.open \/ v.lower = e.version
    BY <1>5, <1>6 DEF WalkEvent, WalksOf
  <2> QED BY <1>2, <1>6, <2>1, <2>2
<1>9. /\ \A x \in E : x.version \in Placed(ecosystem)
      /\ \A x \in Placed(ecosystem) : cmp(installed, x) \in {-1, 0, 1}
  BY RangeOrders DEF EventsOf
<1>10. v.fixes = NearestFix(ecosystem, installed, Q)
       /\ (Own(v) <=> Affected(ecosystem, installed, Q) /\ Ends(ecosystem, installed, Q) = {})
  <2>1. CASE cmp(installed, e.version) >= 0
    <3>1. /\ Ends(ecosystem, installed, P) = {} /\ Ends(ecosystem, installed, Q) = {}
          /\ Affected(ecosystem, installed, Q) <=> e.kind = "introduced"
      BY <1>2, <1>3, <1>4, <2>1, BelowGrows
    <3>2. NearestFix(ecosystem, installed, P) = {} /\ NearestFix(ecosystem, installed, Q) = {}
      BY <3>1, NearestFixIs DEF Nearest, Fixed
    <3>3. ~(cmp(installed, e.version) < 0)
      BY <1>3, <1>9, <2>1
    <3>4. w.open => cmp(installed, w.lower) >= 0
      <4> SUFFICES ASSUME NEW x \in P, w.lower = x.version PROVE cmp(installed, w.lower) >= 0
        BY <1>6
      <4>1. x.version \in Placed(ecosystem)
        BY <1>3, <1>9
      <4>2. /\ cmp(x.version, e.version) < 0 /\ cmp(installed, x.version) = -cmp(x.version, installed)
            /\ cmp(e.version, installed) = -cmp(installed, e.version)
            /\ cmp(x.version, e.version) \in {-1, 0, 1} /\ cmp(x.version, installed) \in {-1, 0, 1}
            /\ cmp(installed, e.version) \in {-1, 0, 1}
        BY <1>3, <1>4, <4>1, RangeOrders
      <4>3. Compose(cmp(x.version, e.version), cmp(e.version, installed), cmp(x.version, installed))
        BY <1>3, <4>1, RangeOrders
      <4> HIDE DEF cmp
      <4>4. cmp(installed, x.version) >= 0
        BY <2>1, <4>2, <4>3 DEF Compose
      <4> QED BY <4>4
    <3> HIDE DEF cmp
    <3>5. v.fixes = {}
      BY <1>5, <1>6, <3>2, <3>3 DEF WalkEvent, WalksOf, cmp
    <3>6. CASE e.kind = "introduced"
      <4>1. v.open /\ cmp(installed, v.lower) >= 0
        <5>1. CASE w.open
          BY <1>5, <3>4, <3>6, <5>1 DEF WalkEvent
        <5>2. CASE ~w.open
          BY <1>5, <1>6, <2>1, <3>6, <5>2 DEF WalkEvent, WalksOf
        <5> QED BY <5>1, <5>2
      <4> QED BY <3>1, <3>2, <3>5, <3>6, <4>1
    <3>7. CASE e.kind # "introduced"
      <4>1. ~v.open
        BY <1>5, <1>6, <3>7 DEF WalkEvent, WalksOf
      <4> QED BY <3>1, <3>2, <3>5, <3>7, <4>1
    <3> QED BY <3>6, <3>7
  <2>2. CASE cmp(installed, e.version) < 0
    <3>1. /\ Affected(ecosystem, installed, Q) <=> Affected(ecosystem, installed, P)
          /\ e.kind = "introduced" =>
               /\ Ends(ecosystem, installed, Q) = Ends(ecosystem, installed, P)
               /\ NearestFix(ecosystem, installed, Q) = NearestFix(ecosystem, installed, P)
          /\ e.kind # "introduced" =>
               /\ Ends(ecosystem, installed, Q) # {}
               /\ Affected(ecosystem, installed, P) /\ Ends(ecosystem, installed, P) = {}
                    => NearestFix(ecosystem, installed, Q) = Fixed({e})
               /\ ~Affected(ecosystem, installed, P) \/ Ends(ecosystem, installed, P) # {}
                    => NearestFix(ecosystem, installed, Q) = NearestFix(ecosystem, installed, P)
      <4>1. /\ P \in SUBSET EventsOf(ecosystem) /\ e \in EventsOf(ecosystem) /\ Q = P \union {e}
            /\ \A x \in P : CompareInRange(ecosystem, x.version, e.version) < 0
            /\ CompareInRange(ecosystem, installed, e.version) < 0
        BY <1>2, <1>3, <1>4, <2>2
      <4> HIDE DEF E, cmp
      <4>2. Grows(ecosystem, installed, P, Q, e)
        BY <4>1, AboveGrows
      <4> QED BY <4>2 DEF Grows
    <3>2. ~(cmp(installed, e.version) >= 0)
      BY <1>3, <1>9, <2>2
    <3> HIDE DEF cmp
    <3>3. CASE e.kind = "introduced"
      <4>1. v.fixes = w.fixes
        BY <1>5, <1>6, <3>3 DEF WalkEvent, WalksOf
      <4>2. Own(v) <=> Own(w)
        <5>1. CASE w.open
          BY <1>5, <3>3, <5>1 DEF WalkEvent
        <5>2. CASE ~w.open
          <6>1. v.lower = e.version
            BY <1>5, <1>6, <3>3, <5>2 DEF WalkEvent, WalksOf
          <6> QED BY <3>2, <5>2, <6>1
        <5> QED BY <5>1, <5>2
      <4> QED BY <1>6, <3>1, <3>3, <4>1, <4>2
    <3>4. CASE e.kind # "introduced"
      <4>1. ~v.open
        BY <1>5, <1>6, <3>4 DEF WalkEvent, WalksOf
      <4>2. CASE Own(w)
        <5>1. w.fixes = {}
          BY <1>6, <4>2, NearestFixIs DEF Nearest, Fixed
        <5>2. v.fixes = Fixed({e})
          <6>1. CASE e.kind = "fixed"
            <7>1. Fixed({e}) = {e.version}
              BY <6>1 DEF Fixed
            <7>2. v.fixes = w.fixes \union {e.version}
              BY <1>5, <1>6, <2>2, <4>2, <6>1 DEF WalkEvent, WalksOf, cmp
            <7> QED BY <5>1, <7>1, <7>2
          <6>2. CASE e.kind # "fixed"
            <7>1. Fixed({e}) = {}
              BY <6>2 DEF Fixed
            <7>2. v.fixes = w.fixes
              BY <1>5, <1>6, <6>2 DEF WalkEvent, WalksOf
            <7> QED BY <5>1, <7>1, <7>2
          <6> QED BY <6>1, <6>2
        <5> QED BY <1>6, <3>1, <3>4, <4>1, <4>2, <5>2
      <4>3. CASE ~Own(w)
        <5>1. v.fixes = w.fixes
          BY <1>5, <1>6, <4>3 DEF WalkEvent, WalksOf, cmp
        <5> QED BY <1>6, <3>1, <3>4, <4>1, <4>3, <5>1
      <4> QED BY <4>2, <4>3
    <3> QED BY <3>3, <3>4
  <2> QED BY <1>3, <1>9, <2>1, <2>2
<1> QED BY <1>7, <1>8, <1>10 DEF WalkHolds, v, Q

\* Of a range whose versions can be placed, and no two of them at one
\* version, rangeFixes names the fix of the installed version's own branch
\* and no other, however many events it lists and in whatever order
\* (osv.go's rangeFixes against OSV's definition).
THEOREM RangeFixesAreNearest ==
  ASSUME NEW ecosystem, NEW installed \in Placed(ecosystem),
         NEW events \in Seq(EventsOf(ecosystem)),
         Orderable(ecosystem, installed, events), ~Tied(ecosystem, events)
  PROVE  rangeFixes(ecosystem, installed, events) = NearestFix(ecosystem, installed, Points(events))
<1> DEFINE s == SortEvents(ecosystem, events)
           n == Len(s)
           S == {k \in 0 .. n : WalkHolds(ecosystem, installed, s, k)}
<1>1. /\ s \in Seq(EventsOf(ecosystem)) /\ Len(s) = Len(events)
      /\ Points(s) = Points(events)
      /\ Ascending(ecosystem, s)
  BY SortIs
<1>2. n \in Nat
  BY <1>1
<1>3. WalkHolds(ecosystem, installed, s, n)
  <2>1. 0 \in S
    BY <1>1, <1>2, WalkStarts
  <2>2. ASSUME NEW k \in 0 .. n, k \in S, k < n PROVE k + 1 \in S
    <3> HIDE DEF s
    <3>1. WalkHolds(ecosystem, installed, s, k + 1)
      BY <1>1, <2>2, WalkGoesOn
    <3> QED BY <1>2, <2>2, <3>1
  <2>3. \A k \in 0 .. n : k \in S
    <3> HIDE DEF S, n
    <3> QED BY <1>2, <2>1, <2>2, UpToBound
  <2> QED BY <1>2, <2>3
<1>4. Listed(s, n) = Points(events)
  <2> HIDE DEF s
  <2>1. Listed(s, n) = Points(s)
    BY <1>1 DEF Listed, Points
  <2> QED BY <1>1, <2>1
<1>5. rangeFixes(ecosystem, installed, events) = WalkFrom(ecosystem, installed, s)[n].fixes
  BY <1>1 DEF rangeFixes
<1> HIDE DEF s, n
<1> QED BY <1>3, <1>4, <1>5 DEF WalkHolds

\* The open pull request's recipe was offered, and what OSV holds is what
\* the world lets it hold.
Evidence ==
  /\ world \in Worlds
  /\ known \subseteq Outside(world).known \union Outside(world).records
  /\ pull # NoPull => \E offer \in Outside(world).offers : pull.recipe = offer.recipe

LEMMA EvidenceInit == Init => Evidence
  BY DEF Init, Evidence

LEMMA EvidenceNext == Evidence /\ [Next]_vars => Evidence'
<1> SUFFICES ASSUME Evidence, [Next]_vars PROVE Evidence'
  OBVIOUS
<1>1. CASE NextDay
  BY <1>1 DEF NextDay, Evidence
<1>2. ASSUME NEW record \in Outside(world).records, Disclose(record) PROVE Evidence'
  BY <1>2 DEF Disclose, Evidence
<1>3. ASSUME NEW offer \in Outside(world).offers, NEW reached \in BOOLEAN, Check(offer, reached)
      PROVE  Evidence'
  <2>1. pull'.recipe = offer.recipe
    BY <1>3 DEF Check
  <2> QED BY <1>3, <2>1 DEF Check, Evidence
<1>4. CASE Merge
  BY <1>4 DEF Merge, Evidence
<1>5. CASE Trigger
  BY <1>5 DEF Trigger, Evidence
<1>6. ASSUME NEW lost, Schedule(lost) PROVE Evidence'
  BY <1>6 DEF Schedule, Evidence
<1>7. CASE CloseIssue
  BY <1>7 DEF CloseIssue, Evidence
<1>8. CASE UNCHANGED vars
  BY <1>8 DEF vars, Evidence
<1> QED BY <1>1, <1>2, <1>3, <1>4, <1>5, <1>6, <1>7, <1>8 DEF Next

\* What is known of a range whose versions can be placed.
LEMMA OrderableTyped ==
  ASSUME NEW ecosystem, NEW installed, NEW events,
         installed \in VersionsOf(ecosystem) \union {Unparsed, Beginning},
         events \in Seq([kind : STRING, version : VersionsOf(ecosystem) \union {Unparsed, Beginning}]),
         Orderable(ecosystem, installed, events)
  PROVE  installed \in Placed(ecosystem) /\ events \in Seq(EventsOf(ecosystem))
<1> DEFINE R == [kind : STRING, version : VersionsOf(ecosystem) \union {Unparsed, Beginning}]
           n == Len(events)
<1>1. installed \in Placed(ecosystem)
  BY DEF Orderable, Parses, Placed
<1>2. n \in Nat /\ events \in [1 .. n -> R] /\ DOMAIN events = 1 .. n
  <2>1. events \in Seq(R)
    OBVIOUS
  <2> HIDE DEF R
  <2> QED BY <2>1
<1>3. ASSUME NEW i \in 1 .. n PROVE events[i] \in EventsOf(ecosystem)
  <2>1. events[i] \in R
    BY <1>2
  <2>2. events[i].version = Beginning \/ events[i].version # Unparsed
    BY <1>2 DEF Orderable, Parses
  <2> QED BY <2>1, <2>2 DEF EventsOf, Placed
<1>4. events \in [1 .. n -> EventsOf(ecosystem)]
  BY <1>2, <1>3
<1> HIDE DEF n
<1>5. events \in Seq(EventsOf(ecosystem))
  BY <1>2, <1>4
<1> QED BY <1>1, <1>5

\* A finding names the nearest fix of each range that speaks of the package,
\* whatever the database lists and holds (fixedVersions and rangeFixes).
THEOREM FindingsNameNearestFix == Spec => []FixesAreNearest
<1>1. Evidence => FixesAreNearest
  <2> DEFINE All(record) == {r \in UNION {a.ranges : a \in record.affected} : r.type # "GIT"}
             CanPlace(dep, r) == Orderable(dep.ecosystem, dep.version, r.events)
             Fixes(dep, r) == IF CanPlace(dep, r)
                                THEN NearestFix(dep.ecosystem, dep.version, Points(r.events))
                                ELSE Fixed(Points(r.events))
  <2> SUFFICES ASSUME Evidence, pull # NoPull,
                      NEW dep \in ReadLock(pull.recipe.lock), NEW record \in known,
                      [name |-> dep.name, version |-> dep.version] \in record.hits,
                      \A r \in All(record) : CanPlace(dep, r) => ~Tied(dep.ecosystem, r.events),
                      \A a \in record.affected : a.package \in {"", dep.name}
               PROVE  fixedVersions(record, dep) = UNION {Fixes(dep, r) : r \in All(record)}
    BY DEF FixesAreNearest
  <2>1. /\ dep.version \in VersionsOf(dep.ecosystem) \union {Unparsed, Beginning}
        /\ \A r \in RangesOf(record, dep) :
             r.events \in Seq([kind : STRING,
                               version : VersionsOf(dep.ecosystem) \union {Unparsed, Beginning}])
    <3>1. PICK offer \in Outside(world).offers : pull.recipe = offer.recipe
      BY DEF Evidence
    <3>2. record \in Outside(world).known \union Outside(world).records /\ world \in Worlds
      BY DEF Evidence
    <3>3. dep \in {d \in ReadLock(offer.recipe.lock) :
                     [name |-> d.name, version |-> d.version] \in record.hits}
      BY <3>1
    <3> QED BY <3>2, <3>3, EvidenceAssumption
  <2>2. RangesOf(record, dep) = All(record)
    <3>1. {b \in record.affected : b.package \in {"", dep.name}} = record.affected
      OBVIOUS
    <3> QED BY <3>1 DEF RangesOf
  <2>3. ASSUME NEW r \in All(record)
        PROVE  rangeFixes(dep.ecosystem, dep.version, r.events) = Fixes(dep, r)
    <3>1. CASE CanPlace(dep, r)
      <4>1. dep.version \in Placed(dep.ecosystem) /\ r.events \in Seq(EventsOf(dep.ecosystem))
        BY <2>1, <2>2, <3>1, OrderableTyped
      <4>2. ~Tied(dep.ecosystem, r.events)
        BY <3>1
      <4> QED BY <3>1, <4>1, <4>2, RangeFixesAreNearest
    <3>2. CASE ~CanPlace(dep, r)
      BY <3>2 DEF rangeFixes
    <3> QED BY <3>1, <3>2
  <2> HIDE DEF Fixes, All
  <2> QED BY <2>2, <2>3 DEF fixedVersions
<1>2. Spec => []Evidence
  BY EvidenceInit, EvidenceNext, PTL DEF Spec
<1> QED BY <1>1, <1>2, PTL

-----------------------------------------------------------------------------
\* How a licence is read: the descent and the grammar are two recursions over
\* the same tokens, and each gives what the other does.

\* What a licence is classified as.
Classes == {"permits", "review", "refuses"}

\* What a rule may read from token p on, of n.
Outcomes(n, p) == {Malformed} \union [class : Classes, pos : p + 1 .. n + 1]

\* What the descent makes of each rule at each of n tokens.
Readings(n) == {f \in [Rules \X (1 .. n + 1) -> Outcomes(n, 0)] :
                \A rule \in Rules, p \in 1 .. n + 1 : f[<<rule, p>>] \in Outcomes(n, p)}

\* Which rule calls which without reading a token.
Level(rule) == IF rule = "term" THEN 0 ELSE IF rule = "and" THEN 1 ELSE 2

\* What is read is a class and moves on.
LEMMA MalformedIsNoClass ==
  ASSUME NEW n \in Nat, NEW p \in Nat, NEW r \in Outcomes(n, p), r # Malformed
  PROVE  r \in [class : Classes, pos : p + 1 .. n + 1] /\ r.class \in Classes /\ r.pos \in p + 1 .. n + 1
  BY DEF Outcomes

\* A token that is there is one of the expression's.
LEMMA PeekIs ==
  ASSUME NEW tokens \in Seq(STRING), NEW p \in Nat \ {0}, peek(tokens, p) # EndOfTokens
  PROVE  p \in 1 .. Len(tokens) /\ tokens[p] = peek(tokens, p)
  BY DEF peek

\* A rule reads a class and moves on, or fails.
LEMMA ReadTyped ==
  ASSUME NEW tokens \in Seq(STRING), NEW f \in Readings(Len(tokens)),
         NEW rule \in Rules, NEW p \in 1 .. Len(tokens) + 1
  PROVE  Read(tokens, f, rule, p) \in Outcomes(Len(tokens), p)
<1> DEFINE n == Len(tokens)
<1>1. n \in Nat
  OBVIOUS
<1>2. \A r \in Rules, q \in 1 .. n + 1 : f[<<r, q>>] \in Outcomes(n, q)
  BY DEF Readings
<1>3. \A id : classifyLicenseID(id) \in Classes
  BY DEF classifyLicenseID, Classes
<1>4. CASE rule # "term"
  <2> DEFINE first == f[<<Operand(rule), p>>]
             rest == f[<<rule, first.pos + 1>>]
  <2>1. first \in Outcomes(n, p)
    BY <1>2 DEF Operand, Rules
  <2>2. Read(tokens, f, rule, p) = Chain(tokens, rule, first, rest)
    BY <1>4 DEF Read
  <2>3. CASE first = Malformed \/ peek(tokens, first.pos) # Op(rule)
    BY <2>1, <2>2, <2>3 DEF Chain
  <2>4. CASE first # Malformed /\ peek(tokens, first.pos) = Op(rule)
    <3>1. first.class \in Classes /\ first.pos \in p + 1 .. n + 1
      BY <2>1, <2>4, MalformedIsNoClass
    <3>2. first.pos \in 1 .. n
      <4>1. peek(tokens, first.pos) # EndOfTokens
        BY <2>4 DEF Op, EndOfTokens
      <4> HIDE DEF first
      <4> QED BY <3>1, <4>1, PeekIs
    <3>3. rest \in Outcomes(n, first.pos + 1)
      <4>1. first.pos + 1 \in 1 .. n + 1
        BY <3>2
      <4> HIDE DEF first, n
      <4> QED BY <1>2, <4>1
    <3> HIDE DEF first, rest
    <3>4. CASE rest = Malformed
      BY <2>2, <2>4, <3>4 DEF Chain, Outcomes
    <3>5. CASE rest # Malformed
      <4>1. rest \in [class : Classes, pos : first.pos + 2 .. n + 1]
        BY <3>2, <3>3, <3>5 DEF Outcomes
      <4>2. Chain(tokens, rule, first, rest) = [rest EXCEPT !.class = Pick(rule, first.class, rest.class)]
        BY <2>4, <3>5 DEF Chain
      <4>3. Pick(rule, first.class, rest.class) \in Classes
        BY <3>1, <4>1 DEF Pick, Best, Worst
      <4> HIDE DEF n
      <4>4. [rest EXCEPT !.class = Pick(rule, first.class, rest.class)] \in [class : Classes, pos : p + 1 .. n + 1]
        <5>1. rest.pos \in p + 1 .. n + 1
          BY <1>1, <3>1, <4>1
        <5> QED BY <4>1, <4>3, <5>1
      <4> QED BY <2>2, <4>2, <4>4 DEF Outcomes, n
    <3> QED BY <3>4, <3>5
  <2> QED BY <2>3, <2>4
<1>5. CASE rule = "term" /\ peek(tokens, p) = "("
  <2> DEFINE inner == f[<<"or", p + 1>>]
  <2>1. Read(tokens, f, rule, p) = Group(tokens, inner)
    BY <1>5 DEF Read
  <2>2. p \in 1 .. n
    <3>1. peek(tokens, p) # EndOfTokens
      BY <1>5 DEF EndOfTokens
    <3> QED BY <3>1, PeekIs
  <2>3. inner \in Outcomes(n, p + 1)
    BY <1>2, <2>2 DEF Rules
  <2> HIDE DEF inner
  <2>4. CASE inner = Malformed \/ peek(tokens, inner.pos) # ")"
    BY <2>1, <2>4 DEF Group, Outcomes
  <2>5. CASE inner # Malformed /\ peek(tokens, inner.pos) = ")"
    <3>1. inner \in [class : Classes, pos : p + 2 .. n + 1]
      BY <2>2, <2>3, <2>5 DEF Outcomes
    <3>2. inner.pos \in 1 .. n
      <4>1. peek(tokens, inner.pos) # EndOfTokens
        BY <2>5 DEF EndOfTokens
      <4>2. inner.pos \in Nat \ {0}
        BY <1>1, <2>2, <3>1
      <4> QED BY <4>1, <4>2, PeekIs
    <3>3. [inner EXCEPT !.pos = @ + 1] \in [class : Classes, pos : p + 1 .. n + 1]
      BY <2>2, <3>1, <3>2
    <3> QED BY <2>1, <2>5, <3>3 DEF Group, Outcomes
  <2> QED BY <2>4, <2>5
<1>6. CASE rule = "term" /\ peek(tokens, p) # "("
  <2>1. Read(tokens, f, rule, p) = Id(tokens, p)
    BY <1>6 DEF Read
  <2>2. peek(tokens, p) \notin NotAnId => p \in 1 .. n
    BY PeekIs DEF NotAnId
  <2>3. peek(tokens, p + 1) = "WITH" /\ peek(tokens, p + 2) \notin NotAnId => p + 2 \in 1 .. n
    BY PeekIs DEF NotAnId
  <2> QED BY <1>3, <2>1, <2>2, <2>3 DEF Id, Outcomes
<1> QED BY <1>4, <1>5, <1>6

\* How far a call is from the deepest.
Rank(n, rule, p) == 3 * (n + 1 - p) + Level(rule)

\* A rule is told by the calls it makes, which all rank lower.
LEMMA ReadLocal ==
  ASSUME NEW tokens \in Seq(STRING), NEW f \in Readings(Len(tokens)), NEW g,
         NEW rule \in Rules, NEW p \in 1 .. Len(tokens) + 1,
         \A r \in Rules, q \in 1 .. Len(tokens) + 1 :
           Rank(Len(tokens), r, q) < Rank(Len(tokens), rule, p) => g[<<r, q>>] = f[<<r, q>>]
  PROVE  Read(tokens, g, rule, p) = Read(tokens, f, rule, p)
<1> DEFINE n == Len(tokens)
<1>1. n \in Nat
  OBVIOUS
<1>2. \A r \in Rules, q \in 1 .. n + 1 : f[<<r, q>>] \in Outcomes(n, q)
  BY DEF Readings
<1>3. \A r \in Rules : Level(r) \in 0 .. 2
  BY DEF Level, Rules
<1>4. ASSUME NEW r \in Rules, NEW q \in 1 .. n + 1, p < q PROVE g[<<r, q>>] = f[<<r, q>>]
  <2>1. 3 * (n + 1 - q) + 3 <= 3 * (n + 1 - p)
    BY <1>1, <1>4
  <2>2. Rank(n, r, q) < Rank(n, rule, p)
    BY <1>1, <1>3, <2>1 DEF Rank
  <2> QED BY <2>2
<1>5. CASE rule # "term"
  <2>1. Operand(rule) \in Rules /\ Rank(n, Operand(rule), p) < Rank(n, rule, p)
    BY <1>1, <1>5 DEF Operand, Rules, Rank, Level
  <2>2. g[<<Operand(rule), p>>] = f[<<Operand(rule), p>>]
    BY <2>1
  <2> DEFINE first == f[<<Operand(rule), p>>]
  <2>3. first \in Outcomes(n, p)
    BY <1>2, <2>1
  <2>4. /\ Read(tokens, f, rule, p) = Chain(tokens, rule, first, f[<<rule, first.pos + 1>>])
        /\ Read(tokens, g, rule, p) = Chain(tokens, rule, first, g[<<rule, first.pos + 1>>])
    BY <1>5, <2>2 DEF Read
  <2> HIDE DEF first, n
  <2>5. CASE first = Malformed \/ peek(tokens, first.pos) # Op(rule)
    BY <2>4, <2>5 DEF Chain
  <2>6. CASE first # Malformed /\ peek(tokens, first.pos) = Op(rule)
    <3>1. first.pos \in p + 1 .. n + 1
      BY <1>1, <2>3, <2>6, MalformedIsNoClass
    <3>2. first.pos \in 1 .. n
      <4>1. peek(tokens, first.pos) # EndOfTokens
        BY <2>6 DEF Op, EndOfTokens
      <4>2. first.pos \in Nat \ {0}
        BY <1>1, <3>1
      <4> QED BY <4>1, <4>2, PeekIs DEF n
    <3>3. g[<<rule, first.pos + 1>>] = f[<<rule, first.pos + 1>>]
      <4>1. first.pos + 1 \in 1 .. n + 1 /\ p < first.pos + 1
        BY <1>1, <3>1, <3>2
      <4> QED BY <1>4, <4>1
    <3> QED BY <2>4, <3>3
  <2> QED BY <2>5, <2>6
<1>6. CASE rule = "term" /\ peek(tokens, p) = "("
  <2>1. p \in 1 .. n
    <3>1. peek(tokens, p) # EndOfTokens
      BY <1>6 DEF EndOfTokens
    <3> QED BY <3>1, PeekIs
  <2>2. g[<<"or", p + 1>>] = f[<<"or", p + 1>>]
    <3>1. p + 1 \in 1 .. n + 1 /\ p < p + 1 /\ "or" \in Rules
      BY <1>1, <2>1 DEF Rules
    <3> HIDE DEF n
    <3> QED BY <1>4, <3>1
  <2> QED BY <1>6, <2>2 DEF Read
<1>7. CASE rule = "term" /\ peek(tokens, p) # "("
  BY <1>7 DEF Read
<1> QED BY <1>5, <1>6, <1>7

\* The descent is the one function that reads every rule at every token.
LEMMA DescendIs ==
  ASSUME NEW tokens \in Seq(STRING)
  PROVE  /\ Descend(tokens) \in Readings(Len(tokens))
         /\ \A rule \in Rules, p \in 1 .. Len(tokens) + 1 :
              Descend(tokens)[<<rule, p>>] = Read(tokens, Descend(tokens), rule, p)
<1> DEFINE n == Len(tokens)
           S == Rules \X (1 .. n + 1)
           V == Outcomes(n, 0)
           D == Readings(n)
           Body(f) == [x \in S |-> Read(tokens, f, x[1], x[2])]
           step == [f \in D |-> Body(f)]
           rank == [x \in S |-> Rank(n, x[1], x[2])]
           bound == 3 * (n + 1)
<1>1. n \in Nat /\ bound \in Nat
  OBVIOUS
<1>2. rank \in [S -> Nat] /\ \A x \in S : rank[x] < bound
  <2> SUFFICES ASSUME NEW x \in S PROVE Rank(n, x[1], x[2]) \in Nat /\ Rank(n, x[1], x[2]) < bound
    OBVIOUS
  <2>1. x[1] \in Rules /\ x[2] \in 1 .. n + 1
    OBVIOUS
  <2>2. Level(x[1]) \in 0 .. 2
    BY <2>1 DEF Level, Rules
  <2> HIDE DEF n
  <2> QED BY <1>1, <2>1, <2>2 DEF Rank, n
<1>3. ASSUME NEW f \in D PROVE Body(f) \in D
  <2>1. \A rule \in Rules, p \in 1 .. n + 1 : Read(tokens, f, rule, p) \in Outcomes(n, p)
    BY ReadTyped
  <2>2. \A p \in 1 .. n + 1 : Outcomes(n, p) \subseteq V
    BY <1>1 DEF Outcomes
  <2>3. Body(f) \in [S -> V]
    <3> SUFFICES ASSUME NEW x \in S PROVE Read(tokens, f, x[1], x[2]) \in V
      OBVIOUS
    <3>1. x[1] \in Rules /\ x[2] \in 1 .. n + 1
      OBVIOUS
    <3> HIDE DEF n, V
    <3> QED BY <2>1, <2>2, <3>1
  <2>4. \A rule \in Rules, p \in 1 .. n + 1 : Body(f)[<<rule, p>>] \in Outcomes(n, p)
    BY <2>1
  <2> QED BY <2>3, <2>4 DEF Readings
<1>4. D \in SUBSET [S -> V] /\ D # {}
  <2> DEFINE f == [x \in S |-> Malformed]
  <2>1. f \in [S -> V]
    BY DEF Outcomes
  <2>2. \A rule \in Rules, p \in 1 .. n + 1 : f[<<rule, p>>] \in Outcomes(n, p)
    BY DEF Outcomes
  <2> HIDE DEF f
  <2>3. f \in D
    BY <2>1, <2>2 DEF Readings
  <2> QED BY <2>3 DEF Readings
<1>5. ASSUME NEW f \in D, NEW g, NEW x \in S, \A y \in S : rank[y] < rank[x] => g[y] = f[y]
      PROVE  Body(g)[x] = Body(f)[x]
  <2>1. x[1] \in Rules /\ x[2] \in 1 .. n + 1
    OBVIOUS
  <2>2. ASSUME NEW r \in Rules, NEW q \in 1 .. n + 1, Rank(n, r, q) < Rank(n, x[1], x[2])
        PROVE  g[<<r, q>>] = f[<<r, q>>]
    <3>1. <<r, q>> \in S /\ rank[<<r, q>>] < rank[x]
      BY <2>2
    <3> QED BY <1>5, <3>1
  <2>3. Read(tokens, g, x[1], x[2]) = Read(tokens, f, x[1], x[2])
    BY <2>1, <2>2, ReadLocal
  <2> QED BY <2>3
<1>6. PICK f \in D : f = Body(f)
  <2>1. step \in [D -> D]
    BY <1>3
  <2>2. \A g, h \in D, x \in S : (\A y \in S : rank[y] < rank[x] => g[y] = h[y]) => step[g][x] = step[h][x]
    <3> SUFFICES ASSUME NEW g \in D, NEW h \in D, NEW x \in S, \A y \in S : rank[y] < rank[x] => g[y] = h[y]
                 PROVE  step[g][x] = step[h][x]
      OBVIOUS
    <3>1. Body(g)[x] = Body(h)[x]
      <4> HIDE DEF S, D, rank, Body
      <4> QED BY <1>5
    <3> HIDE DEF D, Body
    <3> QED BY <3>1
  <2>3. Recurs(S, V, D, step, bound, rank)
    <3> HIDE DEF S, V, D, step, rank, bound, n
    <3> QED BY <1>1, <1>2, <1>4, <2>1, <2>2 DEF Recurs
  <2>4. \E h \in D : h = step[h]
    <3> HIDE DEF S, V, D, step, rank, bound, n
    <3> QED BY <2>3, FixpointExists
  <2> QED BY <2>4
<1>7. Descend(tokens) = Body(Descend(tokens))
  <2>1. Descend(tokens) = CHOOSE g : g = Body(g)
    BY DEF Descend
  <2>2. \E g : g = Body(g)
    BY <1>6
  <2> HIDE DEF Body
  <2> QED BY <2>1, <2>2
<1> DEFINE g == Descend(tokens)
           Same == {x \in S : g[x] = f[x]}
<1> HIDE DEF g
<1>8. ASSUME NEW x \in S, \A y \in S : rank[y] < rank[x] => y \in Same PROVE x \in Same
  <2>1. Body(g)[x] = Body(f)[x]
    <3>1. \A y \in S : rank[y] < rank[x] => g[y] = f[y]
      BY <1>8
    <3> HIDE DEF S, D, rank, Body, Same
    <3> QED BY <1>5, <3>1
  <2> HIDE DEF Body
  <2> QED BY <1>6, <1>7, <2>1 DEF g
<1>9. \A x \in S : g[x] = f[x]
  <2>1. S \subseteq Same
    <3> HIDE DEF S, Same, rank
    <3> QED BY <1>2, <1>8, ByRank
  <2> QED BY <2>1
<1>10. g = f
  <2>1. g = [x \in S |-> g[x]] /\ f = [x \in S |-> f[x]]
    BY <1>6, <1>7 DEF g
  <2> HIDE DEF S
  <2> QED BY <1>9, <2>1
<1>11. \A rule \in Rules, p \in 1 .. n + 1 : g[<<rule, p>>] = Read(tokens, g, rule, p)
  <2>1. g = Body(g)
    BY <1>7 DEF g
  <2> QED BY <2>1
<1> QED BY <1>6, <1>10, <1>11 DEF g

\* The number of tokens from i to j.
Extent(i, j) == IF i <= j THEN j - i + 1 ELSE 0
Size(rule, i, j) == 3 * Extent(i, j) + Level(rule)

\* What a rule is asked about: tokens i to j of n.
Spans(n) == Rules \X (1 .. n + 1) \X (0 .. n)

\* What two classes mean together is a class.
LEMMA MeaningTyped ==
  ASSUME NEW rule, NEW a \in Classes, NEW b \in Classes
  PROVE  Meaning(rule, a, b) \in Classes
  BY DEF Meaning, Either, Both, Classes

\* What rule makes of tokens i to j: of an operand, of two joined, of a
\* group or of an id.
Joined(tokens, f, rule, i, j, c) ==
  \E k \in i + 1 .. j - 1 :
    /\ tokens[k] = Op(rule)
    /\ \E a \in f[<<rule, i, k - 1>>], b \in f[<<Operand(rule), k + 1, j>>] : c = Meaning(rule, a, b)

\* An SPDX id stands at k.
IdAt(tokens, k) == tokens[k] \notin NotAnId \union {"("}

\* What a chain derives.
LEMMA DeriveChain ==
  ASSUME NEW tokens, NEW f, NEW rule \in Rules, rule # "term", NEW i, NEW j, NEW c
  PROVE  c \in Derive(tokens, f, rule, i, j)
          <=> c \in f[<<Operand(rule), i, j>>] \/ Joined(tokens, f, rule, i, j, c)
  BY DEF Derive, Joined

\* What is derived is told by what fewer tokens, or a deeper rule, derive.
LEMMA DeriveLocal ==
  ASSUME NEW tokens \in Seq(STRING), NEW f, NEW g,
         NEW rule \in Rules, NEW i \in 1 .. Len(tokens) + 1, NEW j \in 0 .. Len(tokens),
         \A r \in Rules, h \in 1 .. Len(tokens) + 1, k \in 0 .. Len(tokens) :
           Size(r, h, k) < Size(rule, i, j) => g[<<r, h, k>>] = f[<<r, h, k>>]
  PROVE  Derive(tokens, g, rule, i, j) = Derive(tokens, f, rule, i, j)
<1> DEFINE n == Len(tokens)
<1>1. n \in Nat
  OBVIOUS
<1>2. \A r \in Rules : Level(r) \in 0 .. 2
  BY DEF Level, Rules
<1>3. ASSUME NEW r \in Rules, NEW h \in 1 .. n + 1, NEW k \in 0 .. n, Extent(h, k) < Extent(i, j)
      PROVE  g[<<r, h, k>>] = f[<<r, h, k>>]
  <2>1. Extent(h, k) \in Nat /\ Extent(i, j) \in Nat
    BY <1>1 DEF Extent
  <2>2. Level(r) \in 0 .. 2 /\ Level(rule) \in 0 .. 2
    BY <1>2
  <2>3. Size(r, h, k) < Size(rule, i, j)
    BY <1>3, <2>1, <2>2 DEF Size
  <2> QED BY <2>3
<1>4. CASE rule # "term"
  <2>1. Operand(rule) \in Rules /\ Level(Operand(rule)) < Level(rule)
    BY <1>4 DEF Operand, Rules, Level
  <2>2. g[<<Operand(rule), i, j>>] = f[<<Operand(rule), i, j>>]
    <3>1. Extent(i, j) \in Nat
      BY <1>1 DEF Extent
    <3>2. Level(Operand(rule)) \in 0 .. 2 /\ Level(rule) \in 0 .. 2
      BY <1>2, <2>1
    <3>3. Size(Operand(rule), i, j) < Size(rule, i, j)
      BY <2>1, <3>1, <3>2 DEF Size
    <3> QED BY <2>1, <3>3
  <2>3. ASSUME NEW k \in i + 1 .. j - 1
        PROVE  /\ g[<<rule, i, k - 1>>] = f[<<rule, i, k - 1>>]
               /\ g[<<Operand(rule), k + 1, j>>] = f[<<Operand(rule), k + 1, j>>]
    <3>1. k - 1 \in 0 .. n /\ Extent(i, k - 1) < Extent(i, j)
      BY <1>1, <2>3 DEF Extent
    <3>2. k + 1 \in 1 .. n + 1 /\ Extent(k + 1, j) < Extent(i, j)
      BY <1>1, <2>3 DEF Extent
    <3> QED BY <1>3, <2>1, <3>1, <3>2
  <2>4. \A c : Joined(tokens, g, rule, i, j, c) <=> Joined(tokens, f, rule, i, j, c)
    BY <2>3 DEF Joined
  <2>5. \A c : c \in Derive(tokens, g, rule, i, j) <=> c \in Derive(tokens, f, rule, i, j)
    BY <1>4, <2>2, <2>4, DeriveChain
  <2> QED BY <2>5
<1>5. CASE rule = "term" /\ (i + 2 <= j /\ tokens[i] = "(" /\ tokens[j] = ")")
  <2>1. i + 1 \in 1 .. n + 1 /\ j - 1 \in 0 .. n /\ Extent(i + 1, j - 1) < Extent(i, j) /\ "or" \in Rules
    BY <1>1, <1>5 DEF Extent, Rules
  <2>2. g[<<"or", i + 1, j - 1>>] = f[<<"or", i + 1, j - 1>>]
    BY <1>3, <2>1
  <2> QED BY <1>5, <2>2 DEF Derive
<1>6. CASE rule = "term" /\ ~ (i + 2 <= j /\ tokens[i] = "(" /\ tokens[j] = ")")
  BY <1>6 DEF Derive
<1> QED BY <1>4, <1>5, <1>6

\* Classes are derived.
LEMMA DeriveTyped ==
  ASSUME NEW tokens \in Seq(STRING), NEW f \in [Spans(Len(tokens)) -> SUBSET Classes],
         NEW rule \in Rules, NEW i \in 1 .. Len(tokens) + 1, NEW j \in 0 .. Len(tokens)
  PROVE  Derive(tokens, f, rule, i, j) \in SUBSET Classes
<1> DEFINE n == Len(tokens)
<1>1. n \in Nat
  OBVIOUS
<1>2. \A r \in Rules, h \in 1 .. n + 1, k \in 0 .. n : f[<<r, h, k>>] \in SUBSET Classes
  BY DEF Spans
<1>3. CASE rule # "term"
  <2>1. Operand(rule) \in Rules
    BY DEF Operand, Rules
  <2>2. ASSUME NEW c, Joined(tokens, f, rule, i, j, c) PROVE c \in Classes
    <3>1. PICK k \in i + 1 .. j - 1 :
            \E a \in f[<<rule, i, k - 1>>], b \in f[<<Operand(rule), k + 1, j>>] : c = Meaning(rule, a, b)
      BY <2>2 DEF Joined
    <3>2. k - 1 \in 0 .. n /\ k + 1 \in 1 .. n + 1
      BY <1>1, <3>1
    <3>3. f[<<rule, i, k - 1>>] \in SUBSET Classes /\ f[<<Operand(rule), k + 1, j>>] \in SUBSET Classes
      BY <1>2, <2>1, <3>2
    <3>4. PICK a \in Classes, b \in Classes : c = Meaning(rule, a, b)
      BY <3>1, <3>3
    <3> QED BY <3>4, MeaningTyped
  <2>3. \A c : c \in Derive(tokens, f, rule, i, j) => c \in Classes
    <3>1. f[<<Operand(rule), i, j>>] \in SUBSET Classes
      BY <1>2, <2>1
    <3> QED BY <1>3, <2>2, <3>1, DeriveChain
  <2> QED BY <2>3
<1>4. CASE rule = "term" /\ (i + 2 <= j /\ tokens[i] = "(" /\ tokens[j] = ")")
  <2>1. i + 1 \in 1 .. n + 1 /\ j - 1 \in 0 .. n /\ "or" \in Rules
    BY <1>1, <1>4 DEF Rules
  <2>2. f[<<"or", i + 1, j - 1>>] \in SUBSET Classes
    BY <1>2, <2>1
  <2>3. Derive(tokens, f, rule, i, j) = f[<<"or", i + 1, j - 1>>]
    BY <1>4 DEF Derive
  <2> HIDE DEF n
  <2> QED BY <2>2, <2>3
<1>5. CASE rule = "term" /\ ~ (i + 2 <= j /\ tokens[i] = "(" /\ tokens[j] = ")")
  <2>1. classifyLicenseID(tokens[i]) \in Classes
    BY DEF classifyLicenseID, Classes
  <2> QED BY <1>5, <2>1 DEF Derive
<1> QED BY <1>3, <1>4, <1>5

\* The derivations are those of each rule for every tokens i to j.
LEMMA DerivationsAre ==
  ASSUME NEW tokens \in Seq(STRING)
  PROVE  /\ Derivations(tokens) \in [Spans(Len(tokens)) -> SUBSET Classes]
         /\ \A rule \in Rules, i \in 1 .. Len(tokens) + 1, j \in 0 .. Len(tokens) :
              Derivations(tokens)[<<rule, i, j>>] = Derive(tokens, Derivations(tokens), rule, i, j)
<1> DEFINE n == Len(tokens)
           S == Spans(n)
           V == SUBSET Classes
           D == [S -> V]
           Body(f) == [x \in S |-> Derive(tokens, f, x[1], x[2], x[3])]
           step == [f \in D |-> Body(f)]
           rank == [x \in S |-> Size(x[1], x[2], x[3])]
           bound == 3 * (n + 1)
<1>1. n \in Nat /\ bound \in Nat
  OBVIOUS
<1>2. rank \in [S -> Nat] /\ \A x \in S : rank[x] < bound
  <2> SUFFICES ASSUME NEW x \in S PROVE Size(x[1], x[2], x[3]) \in Nat /\ Size(x[1], x[2], x[3]) < bound
    OBVIOUS
  <2>1. x[1] \in Rules /\ x[2] \in 1 .. n + 1 /\ x[3] \in 0 .. n
    BY DEF Spans
  <2>2. Level(x[1]) \in 0 .. 2
    BY <2>1 DEF Level, Rules
  <2>3. Extent(x[2], x[3]) \in 0 .. n
    BY <1>1, <2>1 DEF Extent
  <2> HIDE DEF n
  <2> QED BY <1>1, <2>2, <2>3 DEF Size, n
<1>3. ASSUME NEW f \in D PROVE Body(f) \in D
  <2> SUFFICES ASSUME NEW x \in S PROVE Derive(tokens, f, x[1], x[2], x[3]) \in V
    OBVIOUS
  <2>1. x[1] \in Rules /\ x[2] \in 1 .. n + 1 /\ x[3] \in 0 .. n
    BY DEF Spans
  <2> QED BY <2>1, DeriveTyped
<1>4. D \in SUBSET [S -> V] /\ D # {}
  <2> DEFINE f == [x \in S |-> {}]
  <2>1. f \in D
    OBVIOUS
  <2> QED BY <2>1
<1>5. ASSUME NEW f, NEW g, NEW x \in S, \A y \in S : rank[y] < rank[x] => g[y] = f[y]
      PROVE  Body(g)[x] = Body(f)[x]
  <2>1. x[1] \in Rules /\ x[2] \in 1 .. n + 1 /\ x[3] \in 0 .. n
    BY DEF Spans
  <2>2. ASSUME NEW r \in Rules, NEW h \in 1 .. n + 1, NEW k \in 0 .. n, Size(r, h, k) < Size(x[1], x[2], x[3])
        PROVE  g[<<r, h, k>>] = f[<<r, h, k>>]
    <3>1. <<r, h, k>> \in S /\ rank[<<r, h, k>>] < rank[x]
      BY <2>2 DEF Spans
    <3> QED BY <1>5, <3>1
  <2>3. Derive(tokens, g, x[1], x[2], x[3]) = Derive(tokens, f, x[1], x[2], x[3])
    BY <2>1, <2>2, DeriveLocal
  <2> QED BY <2>3
<1>6. PICK f \in D : f = Body(f)
  <2>1. step \in [D -> D]
    <3> HIDE DEF Body, D
    <3> QED BY <1>3
  <2>2. \A g, h \in D, x \in S : (\A y \in S : rank[y] < rank[x] => g[y] = h[y]) => step[g][x] = step[h][x]
    <3> SUFFICES ASSUME NEW g \in D, NEW h \in D, NEW x \in S, \A y \in S : rank[y] < rank[x] => g[y] = h[y]
                 PROVE  step[g][x] = step[h][x]
      OBVIOUS
    <3>1. Body(g)[x] = Body(h)[x]
      <4> HIDE DEF S, D, rank, Body
      <4> QED BY <1>5
    <3> HIDE DEF D, Body
    <3> QED BY <3>1
  <2>3. Recurs(S, V, D, step, bound, rank)
    <3> HIDE DEF S, V, D, step, rank, bound, n
    <3> QED BY <1>1, <1>2, <1>4, <2>1, <2>2 DEF Recurs
  <2>4. \E h \in D : h = step[h]
    <3> HIDE DEF S, V, D, step, rank, bound, n
    <3> QED BY <2>3, FixpointExists
  <2> HIDE DEF D, Body
  <2> QED BY <2>4
<1>7. Derivations(tokens) = Body(Derivations(tokens))
  <2>1. Derivations(tokens) = CHOOSE g : g = Body(g)
    BY DEF Derivations, Spans
  <2>2. \E g : g = Body(g)
    BY <1>6
  <2> HIDE DEF Body
  <2> QED BY <2>1, <2>2
<1> DEFINE g == Derivations(tokens)
           Same == {x \in S : g[x] = f[x]}
<1> HIDE DEF g
<1>8. ASSUME NEW x \in S, \A y \in S : rank[y] < rank[x] => y \in Same PROVE x \in Same
  <2>1. Body(g)[x] = Body(f)[x]
    <3>1. \A y \in S : rank[y] < rank[x] => g[y] = f[y]
      BY <1>8
    <3> HIDE DEF S, D, rank, Body, Same
    <3> QED BY <1>5, <3>1
  <2> HIDE DEF Body
  <2> QED BY <1>6, <1>7, <2>1 DEF g
<1>9. \A x \in S : g[x] = f[x]
  <2>1. S \subseteq Same
    <3> HIDE DEF S, Same, rank
    <3> QED BY <1>2, <1>8, ByRank
  <2> QED BY <2>1
<1>10. g = f
  <2>1. g = [x \in S |-> g[x]] /\ f = [x \in S |-> f[x]]
    BY <1>6, <1>7 DEF g
  <2> HIDE DEF S
  <2> QED BY <1>9, <2>1
<1>11. \A rule \in Rules, i \in 1 .. n + 1, j \in 0 .. n : g[<<rule, i, j>>] = Derive(tokens, g, rule, i, j)
  <2>1. g = Body(g)
    BY <1>7 DEF g
  <2> QED BY <2>1 DEF Spans
<1> QED BY <1>6, <1>10, <1>11 DEF g

\* What a chain makes of two classes is what they mean, however they are grouped.
LEMMA PickIsMeaning ==
  ASSUME NEW rule, NEW a \in Classes, NEW b \in Classes
  PROVE  Pick(rule, a, b) = Meaning(rule, a, b)
  BY DEF Pick, Meaning, Best, Worst, Either, Both, licenseRank, Classes

\* It does not matter how a chain is grouped.
LEMMA MeaningGroups ==
  ASSUME NEW rule, NEW a \in Classes, NEW b \in Classes, NEW c \in Classes
  PROVE  Meaning(rule, a, Meaning(rule, b, c)) = Meaning(rule, Meaning(rule, a, b), c)
  BY DEF Meaning, Either, Both, Classes

\* A reading that succeeds.
Result(c, q) == [class |-> c, pos |-> q]

\* It is told from one that fails.
LEMMA ResultIs ==
  ASSUME NEW c \in Classes, NEW q
  PROVE  Result(c, q) # Malformed /\ Result(c, q).class = c /\ Result(c, q).pos = q
  BY DEF Result, Malformed, Classes

\* What a chain reads: its first operand, and the rest if an operator follows.
LEMMA ReadChain ==
  ASSUME NEW tokens \in Seq(STRING), NEW rule \in Rules, rule # "term",
         NEW i \in 1 .. Len(tokens) + 1, NEW a \in Classes, NEW e \in 1 .. Len(tokens) + 1,
         Descend(tokens)[<<Operand(rule), i>>] = Result(a, e)
  PROVE  Descend(tokens)[<<rule, i>>]
           = Chain(tokens, rule, Result(a, e), Descend(tokens)[<<rule, e + 1>>])
<1> DEFINE P == Descend(tokens)
<1>1. P[<<rule, i>>] = Read(tokens, P, rule, i)
  BY DescendIs
<1>2. Read(tokens, P, rule, i)
        = Chain(tokens, rule, P[<<Operand(rule), i>>], P[<<rule, P[<<Operand(rule), i>>].pos + 1>>])
  BY DEF Read
<1>3. P[<<Operand(rule), i>>] = Result(a, e) /\ Result(a, e).pos = e
  BY ResultIs
<1> HIDE DEF P
<1>4. P[<<rule, i>>] = Chain(tokens, rule, Result(a, e), P[<<rule, e + 1>>])
  BY <1>1, <1>2, <1>3
<1> QED BY <1>4 DEF P

\* An operand alone,
LEMMA ReadOne ==
  ASSUME NEW tokens \in Seq(STRING), NEW rule \in Rules, rule # "term",
         NEW i \in 1 .. Len(tokens) + 1, NEW a \in Classes, NEW e \in 1 .. Len(tokens) + 1,
         Descend(tokens)[<<Operand(rule), i>>] = Result(a, e),
         peek(tokens, e) # Op(rule)
  PROVE  Descend(tokens)[<<rule, i>>] = Result(a, e)
<1>1. Descend(tokens)[<<rule, i>>]
        = Chain(tokens, rule, Result(a, e), Descend(tokens)[<<rule, e + 1>>])
  BY ReadChain
<1> QED BY <1>1, ResultIs DEF Chain

\* and one the chain goes on from.
LEMMA ReadMore ==
  ASSUME NEW tokens \in Seq(STRING), NEW rule \in Rules, rule # "term",
         NEW i \in 1 .. Len(tokens) + 1, NEW a \in Classes, NEW e \in 1 .. Len(tokens) + 1,
         Descend(tokens)[<<Operand(rule), i>>] = Result(a, e),
         NEW b \in Classes, NEW q, NEW d, d = e + 1,
         peek(tokens, e) = Op(rule), Descend(tokens)[<<rule, d>>] = Result(b, q)
  PROVE  Descend(tokens)[<<rule, i>>] = Result(Pick(rule, a, b), q)
<1>1. Descend(tokens)[<<rule, i>>] = Chain(tokens, rule, Result(a, e), Result(b, q))
  <2>1. Descend(tokens)[<<rule, i>>]
          = Chain(tokens, rule, Result(a, e), Descend(tokens)[<<rule, e + 1>>])
    BY ReadChain
  <2> QED BY <2>1
<1>2. Chain(tokens, rule, Result(a, e), Result(b, q))
        = [Result(b, q) EXCEPT !.class = Pick(rule, Result(a, e).class, Result(b, q).class)]
  BY ResultIs DEF Chain
<1>3. [Result(b, q) EXCEPT !.class = Pick(rule, a, b)] = Result(Pick(rule, a, b), q)
  BY DEF Result
<1> QED BY <1>1, <1>2, <1>3, ResultIs

\* The tokens a rule does not stop before.
Stops(rule) ==
  IF rule = "term" THEN {"WITH"} ELSE IF rule = "and" THEN {"WITH", "AND"} ELSE {"WITH", "AND", "OR"}

\* What the grammar derives, the descent reads,
Complete(tokens, rule, i, j) ==
  \A c \in Derivations(tokens)[<<rule, i, j>>] :
    peek(tokens, j + 1) \notin Stops(rule) => Descend(tokens)[<<rule, i>>] = Result(c, j + 1)

\* and as part of a chain that goes on.
Extends(tokens, rule, i, j) ==
  rule # "term" =>
    \A a \in Derivations(tokens)[<<rule, i, j>>], b \in Classes, q \in Nat :
      peek(tokens, j + 1) = Op(rule) /\ Descend(tokens)[<<rule, j + 2>>] = Result(b, q)
        => Descend(tokens)[<<rule, i>>] = Result(Pick(rule, a, b), q)

\* What is shown of every rule and tokens i to j.
Claim(tokens, rule, i, j) == Complete(tokens, rule, i, j) /\ Extends(tokens, rule, i, j)

\* What is derived is a class.
LEMMA DerivedTyped ==
  ASSUME NEW tokens \in Seq(STRING), NEW rule \in Rules,
         NEW i \in 1 .. Len(tokens) + 1, NEW j \in 0 .. Len(tokens)
  PROVE  Derivations(tokens)[<<rule, i, j>>] \subseteq Classes
<1>1. Derivations(tokens) \in [Spans(Len(tokens)) -> SUBSET Classes] /\ <<rule, i, j>> \in Spans(Len(tokens))
  BY DerivationsAre DEF Spans
<1> QED BY <1>1

\* What the derivations of a chain are.
LEMMA DerivedChain ==
  ASSUME NEW tokens \in Seq(STRING), NEW rule \in Rules, rule # "term",
         NEW i \in 1 .. Len(tokens) + 1, NEW j \in 0 .. Len(tokens), NEW c
  PROVE  c \in Derivations(tokens)[<<rule, i, j>>]
          <=> \/ c \in Derivations(tokens)[<<Operand(rule), i, j>>]
              \/ Joined(tokens, Derivations(tokens), rule, i, j, c)
<1>1. Derivations(tokens)[<<rule, i, j>>] = Derive(tokens, Derivations(tokens), rule, i, j)
  BY DerivationsAre
<1> QED BY <1>1, DeriveChain

\* The claim of a term, from the one of what its parentheses hold.
LEMMA ClaimTerm ==
  ASSUME NEW tokens \in Seq(STRING), NEW i \in 1 .. Len(tokens) + 1, NEW j \in 0 .. Len(tokens),
         i + 2 <= j => Claim(tokens, "or", i + 1, j - 1)
  PROVE  Claim(tokens, "term", i, j)
<1> DEFINE n == Len(tokens)
           P == Descend(tokens)
           C == Derivations(tokens)
<1>1. n \in Nat /\ "term" \in Rules /\ "or" \in Rules
  BY DEF Rules
<1>2. C[<<"term", i, j>>] = Derive(tokens, C, "term", i, j)
  BY <1>1, DerivationsAre
<1>3. P[<<"term", i>>] = Read(tokens, P, "term", i)
  BY <1>1, DescendIs
<1> SUFFICES ASSUME NEW c \in C[<<"term", i, j>>], peek(tokens, j + 1) # "WITH"
             PROVE  P[<<"term", i>>] = Result(c, j + 1)
  BY DEF Claim, Complete, Extends, Stops
<1>4. c \in Classes
  BY <1>1, DerivedTyped
<1>5. CASE i + 2 <= j /\ tokens[i] = "(" /\ tokens[j] = ")"
  <2>1. i \in 1 .. n /\ j \in 1 .. n /\ i + 1 \in 1 .. n + 1 /\ j - 1 \in 0 .. n
    BY <1>1, <1>5
  <2>2. c \in C[<<"or", i + 1, j - 1>>]
    <3> HIDE DEF n, C
    <3> QED BY <1>2, <1>5 DEF Derive
  <2>3. peek(tokens, i) = "(" /\ peek(tokens, j) = ")" /\ (j - 1) + 1 = j
    BY <1>5, <2>1 DEF peek
  <2>4. P[<<"or", i + 1>>] = Result(c, j)
    <3>1. peek(tokens, (j - 1) + 1) \notin Stops("or")
      BY <2>3 DEF Stops
    <3> QED BY <1>5, <2>2, <2>3, <3>1 DEF Claim, Complete
  <2>5. P[<<"term", i>>] = Group(tokens, Result(c, j))
    BY <1>3, <2>3, <2>4 DEF Read
  <2>6. Group(tokens, Result(c, j)) = [Result(c, j) EXCEPT !.pos = @ + 1]
    BY <1>4, <2>3, ResultIs DEF Group
  <2>7. [Result(c, j) EXCEPT !.pos = @ + 1] = Result(c, j + 1)
    BY DEF Result
  <2> QED BY <2>5, <2>6, <2>7
<1>6. CASE ~ (i + 2 <= j /\ tokens[i] = "(" /\ tokens[j] = ")")
  <2>1. /\ i <= j /\ IdAt(tokens, i) /\ c = classifyLicenseID(tokens[i])
        /\ i = j \/ (j = i + 2 /\ tokens[i + 1] = "WITH" /\ IdAt(tokens, j))
    <3> HIDE DEF n, C
    <3> QED BY <1>2, <1>6 DEF Derive, IdAt
  <2>2. i \in 1 .. n /\ j \in 1 .. n /\ (j = i + 2 => i + 1 \in 1 .. n)
    BY <1>1, <2>1
  <2>3. peek(tokens, i) = tokens[i] /\ peek(tokens, j) = tokens[j]
    BY <2>2 DEF peek
  <2>4. P[<<"term", i>>] = Id(tokens, i)
    BY <1>3, <2>1, <2>3 DEF Read, IdAt
  <2>5. CASE i = j
    <3>1. peek(tokens, i + 1) # "WITH"
      BY <2>5
    <3> QED BY <2>1, <2>3, <2>4, <2>5, <3>1 DEF Id, Result, IdAt
  <2>6. CASE j = i + 2 /\ tokens[i + 1] = "WITH" /\ IdAt(tokens, j)
    <3>1. peek(tokens, i + 1) = "WITH" /\ j + 1 = i + 3
      BY <2>2, <2>6 DEF peek
    <3> QED BY <2>1, <2>3, <2>4, <2>6, <3>1 DEF Id, Result, IdAt
  <2> QED BY <2>1, <2>5, <2>6
<1> QED BY <1>5, <1>6

\* The claim of a chain, from the ones of its operand and of shorter chains.
LEMMA ClaimChain ==
  ASSUME NEW tokens \in Seq(STRING), NEW rule \in Rules, rule # "term",
         NEW i \in 1 .. Len(tokens) + 1, NEW j \in 0 .. Len(tokens),
         Claim(tokens, Operand(rule), i, j),
         \A k \in i + 1 .. j - 1 : Claim(tokens, rule, i, k - 1) /\ Claim(tokens, Operand(rule), k + 1, j)
  PROVE  Claim(tokens, rule, i, j)
<1> DEFINE n == Len(tokens)
           P == Descend(tokens)
           C == Derivations(tokens)
           Splits(c, k, a1, a2) ==
             /\ peek(tokens, k) = Op(rule) /\ c = Meaning(rule, a1, a2)
             /\ k \in 1 .. n /\ k - 1 \in 0 .. n /\ k + 1 \in 1 .. n + 1
             /\ (k - 1) + 1 = k /\ (k - 1) + 2 = k + 1
             /\ a1 \in C[<<rule, i, k - 1>>]
             /\ peek(tokens, j + 1) \notin Stops(Operand(rule))
                  => P[<<Operand(rule), k + 1>>] = Result(a2, j + 1)
<1>1. n \in Nat /\ Operand(rule) \in Rules
  BY DEF Operand, Rules
<1>2. \A t : t \notin Stops(rule) \/ t = Op(rule) => t \notin Stops(Operand(rule))
  BY DEF Stops, Operand, Op, Rules
<1>3. Op(rule) \in Stops(rule)
  BY DEF Stops, Op, Rules
\* The two that are joined at a token k, read one by one.
<1>4. ASSUME NEW c, Joined(tokens, C, rule, i, j, c)
      PROVE  \E k \in i + 1 .. j - 1, a1 \in Classes, a2 \in Classes : Splits(c, k, a1, a2)
  <2>1. PICK k \in i + 1 .. j - 1 :
          /\ tokens[k] = Op(rule)
          /\ \E a \in C[<<rule, i, k - 1>>], b \in C[<<Operand(rule), k + 1, j>>] : c = Meaning(rule, a, b)
    BY <1>4 DEF Joined
  <2>2. PICK a1 \in C[<<rule, i, k - 1>>], a2 \in C[<<Operand(rule), k + 1, j>>] : c = Meaning(rule, a1, a2)
    BY <2>1
  <2>3. k \in 1 .. n /\ k - 1 \in 0 .. n /\ k + 1 \in 1 .. n + 1 /\ (k - 1) + 1 = k /\ (k - 1) + 2 = k + 1
    BY <1>1, <2>1
  <2>4. a1 \in Classes /\ a2 \in Classes
    BY <1>1, <2>2, <2>3, DerivedTyped
  <2>5. peek(tokens, k) = Op(rule)
    BY <2>1, <2>3 DEF peek
  <2>6. peek(tokens, j + 1) \notin Stops(Operand(rule)) => P[<<Operand(rule), k + 1>>] = Result(a2, j + 1)
    BY <2>1, <2>2 DEF Claim, Complete
  <2> HIDE DEF P, C, n
  <2> QED BY <2>2, <2>3, <2>4, <2>5, <2>6
<1>5. ASSUME NEW c \in C[<<rule, i, j>>], peek(tokens, j + 1) \notin Stops(rule)
      PROVE  P[<<rule, i>>] = Result(c, j + 1)
  <2>1. peek(tokens, j + 1) \notin Stops(Operand(rule)) /\ peek(tokens, j + 1) # Op(rule)
    BY <1>2, <1>3, <1>5
  <2>2. j + 1 \in 1 .. n + 1
    BY <1>1
  <2>3. c \in Classes
    BY <1>1, <1>5, DerivedTyped
  <2>4. CASE c \in C[<<Operand(rule), i, j>>]
    <3>1. P[<<Operand(rule), i>>] = Result(c, j + 1)
      BY <2>1, <2>4 DEF Claim, Complete
    <3> QED BY <2>1, <2>2, <2>3, <3>1, ReadOne
  <2>5. CASE Joined(tokens, C, rule, i, j, c)
    <3>1. PICK k \in i + 1 .. j - 1, a1 \in Classes, a2 \in Classes : Splits(c, k, a1, a2)
      BY <1>4, <2>5
    <3>2. P[<<rule, k + 1>>] = Result(a2, j + 1)
      <4>1. P[<<Operand(rule), k + 1>>] = Result(a2, j + 1)
        BY <2>1, <3>1
      <4>2. k + 1 \in 1 .. n + 1
        BY <3>1
      <4>3. a2 \in Classes
        BY <3>1
      <4> QED BY <2>1, <2>2, <4>1, <4>2, <4>3, ReadOne
    <3>3. P[<<rule, i>>] = Result(Pick(rule, a1, a2), j + 1)
      <4>1. j + 1 \in Nat
        OBVIOUS
      <4>2. Extends(tokens, rule, i, k - 1)
        BY <3>1 DEF Claim
      <4> HIDE DEF n
      <4> QED BY <3>1, <3>2, <4>1, <4>2 DEF Extends
    <3> QED BY <3>1, <3>3, PickIsMeaning
  <2> QED BY <1>5, <2>4, <2>5, DerivedChain
<1>6. ASSUME NEW a \in C[<<rule, i, j>>], NEW b \in Classes, NEW q \in Nat,
             peek(tokens, j + 1) = Op(rule), P[<<rule, j + 2>>] = Result(b, q)
      PROVE  P[<<rule, i>>] = Result(Pick(rule, a, b), q)
  <2>1. peek(tokens, j + 1) \notin Stops(Operand(rule))
    BY <1>2, <1>6
  <2>2. j + 1 \in 1 .. n + 1 /\ (j + 1) + 1 = j + 2
    BY <1>1
  <2>3. a \in Classes
    BY <1>1, <1>6, DerivedTyped
  <2>4. b \in Classes /\ peek(tokens, j + 1) = Op(rule) /\ P[<<rule, j + 2>>] = Result(b, q)
    BY <1>6
  <2>5. CASE a \in C[<<Operand(rule), i, j>>]
    <3>1. P[<<Operand(rule), i>>] = Result(a, j + 1)
      BY <2>1, <2>5 DEF Claim, Complete
    <3> HIDE DEF n
    <3> QED BY <2>2, <2>3, <2>4, <3>1, ReadMore, SMTT(60)
  <2>6. CASE Joined(tokens, C, rule, i, j, a)
    <3>1. PICK k \in i + 1 .. j - 1, a1 \in Classes, a2 \in Classes : Splits(a, k, a1, a2)
      BY <1>4, <2>6
    <3>2. P[<<rule, k + 1>>] = Result(Pick(rule, a2, b), q)
      <4>1. P[<<Operand(rule), k + 1>>] = Result(a2, j + 1)
        BY <2>1, <3>1
      <4>2. k + 1 \in 1 .. n + 1
        BY <3>1
      <4>3. a2 \in Classes
        BY <3>1
      <4> QED BY <2>2, <2>4, <4>1, <4>2, <4>3, ReadMore, SMTT(60)
    <3>3. Pick(rule, a2, b) \in Classes
      BY <3>1, PickIsMeaning, MeaningTyped
    <3>4. P[<<rule, i>>] = Result(Pick(rule, a1, Pick(rule, a2, b)), q)
      <4>1. Extends(tokens, rule, i, k - 1)
        BY <3>1 DEF Claim
      <4> HIDE DEF n
      <4> QED BY <3>1, <3>2, <3>3, <4>1 DEF Extends
    <3>5. Pick(rule, a1, Pick(rule, a2, b)) = Pick(rule, a, b)
      BY <2>3, <3>1, <3>3, PickIsMeaning, MeaningTyped, MeaningGroups
    <3> QED BY <3>4, <3>5
  <2> QED BY <1>6, <2>5, <2>6, DerivedChain
<1> QED BY <1>5, <1>6 DEF Claim, Complete, Extends

\* What the grammar derives, the descent reads.
LEMMA Completeness ==
  ASSUME NEW tokens \in Seq(STRING)
  PROVE  \A rule \in Rules, i \in 1 .. Len(tokens) + 1, j \in 0 .. Len(tokens) : Claim(tokens, rule, i, j)
<1> DEFINE n == Len(tokens)
           Sized(k) == \A rule \in Rules, i \in 1 .. n + 1, j \in 0 .. n :
                         Size(rule, i, j) = k => Claim(tokens, rule, i, j)
           S == {k \in Nat : Sized(k)}
<1>1. n \in Nat
  OBVIOUS
<1>2. \A rule \in Rules, i \in 1 .. n + 1, j \in 0 .. n :
        Size(rule, i, j) \in Nat /\ Extent(i, j) \in Nat /\ Level(rule) \in 0 .. 2
  BY <1>1 DEF Size, Extent, Level, Rules
<1>3. ASSUME NEW k \in Nat, \A m \in Nat : m < k => m \in S PROVE k \in S
  <2> SUFFICES ASSUME NEW rule \in Rules, NEW i \in 1 .. n + 1, NEW j \in 0 .. n, Size(rule, i, j) = k
               PROVE  Claim(tokens, rule, i, j)
    OBVIOUS
  <2>1. ASSUME NEW r \in Rules, NEW h \in 1 .. n + 1, NEW l \in 0 .. n, Size(r, h, l) < Size(rule, i, j)
        PROVE  Claim(tokens, r, h, l)
    <3>1. Size(r, h, l) \in Nat
      BY <1>2
    <3>2. Size(r, h, l) \in S
      <4> HIDE DEF S, n
      <4> QED BY <1>3, <2>1, <3>1
    <3> QED BY <3>2
  <2>2. ASSUME NEW r \in Rules, NEW h \in 1 .. n + 1, NEW l \in 0 .. n, Extent(h, l) < Extent(i, j)
        PROVE  Claim(tokens, r, h, l)
    <3>1. Extent(h, l) \in Nat /\ Extent(i, j) \in Nat /\ Level(r) \in 0 .. 2 /\ Level(rule) \in 0 .. 2
      <4> HIDE DEF n, S
      <4> QED BY <1>2
    <3>2. Size(r, h, l) < Size(rule, i, j)
      BY <2>2, <3>1 DEF Size
    <3> QED BY <2>1, <3>2
  <2>3. CASE rule = "term"
    <3>1. ASSUME i + 2 <= j PROVE Claim(tokens, "or", i + 1, j - 1)
      <4>1. i + 1 \in 1 .. n + 1 /\ j - 1 \in 0 .. n /\ "or" \in Rules /\ Extent(i + 1, j - 1) < Extent(i, j)
        BY <1>1, <3>1 DEF Extent, Rules
      <4> HIDE DEF n, S
      <4> QED BY <2>2, <4>1
    <3> QED BY <2>3, <3>1, ClaimTerm
  <2>4. CASE rule # "term"
    <3>1. Operand(rule) \in Rules /\ Level(Operand(rule)) < Level(rule)
      BY <2>4 DEF Operand, Rules, Level
    <3>2. Claim(tokens, Operand(rule), i, j)
      <4>1. Extent(i, j) \in Nat /\ Level(Operand(rule)) \in 0 .. 2 /\ Level(rule) \in 0 .. 2
        <5> HIDE DEF n, S
        <5> QED BY <1>2, <3>1
      <4>2. Size(Operand(rule), i, j) < Size(rule, i, j)
        BY <3>1, <4>1 DEF Size
      <4> QED BY <2>1, <3>1, <4>2
    <3>3. ASSUME NEW m \in i + 1 .. j - 1
          PROVE  Claim(tokens, rule, i, m - 1) /\ Claim(tokens, Operand(rule), m + 1, j)
      <4>1. m - 1 \in 0 .. n /\ Extent(i, m - 1) < Extent(i, j)
        BY <1>1, <3>3 DEF Extent
      <4>2. m + 1 \in 1 .. n + 1 /\ Extent(m + 1, j) < Extent(i, j)
        BY <1>1, <3>3 DEF Extent
      <4> HIDE DEF n, S
      <4> QED BY <2>2, <3>1, <4>1, <4>2
    <3> QED BY <2>4, <3>2, <3>3, ClaimChain
  <2> QED BY <2>3, <2>4
<1>4. ASSUME NEW rule \in Rules, NEW i \in 1 .. n + 1, NEW j \in 0 .. n PROVE Claim(tokens, rule, i, j)
  <2>1. Size(rule, i, j) \in S
    <3>1. Nat \subseteq S
      <4> HIDE DEF S
      <4> QED BY <1>3, ByLesser
    <3> HIDE DEF S, n
    <3> QED BY <1>2, <3>1
  <2> QED BY <2>1
<1> QED BY <1>4

\* The descent joins an operand to the rest of a chain, the grammar the rest
\* of a chain to an operand: what the one reads the other derives.
LEMMA Prepend ==
  ASSUME NEW tokens \in Seq(STRING), NEW rule \in Rules, rule # "term",
         NEW i \in 1 .. Len(tokens), NEW k \in i + 1 .. Len(tokens), tokens[k] = Op(rule),
         NEW a \in Derivations(tokens)[<<Operand(rule), i, k - 1>>]
  PROVE  \A j \in k + 1 .. Len(tokens) : \A b \in Derivations(tokens)[<<rule, k + 1, j>>] :
           Meaning(rule, a, b) \in Derivations(tokens)[<<rule, i, j>>]
<1> DEFINE n == Len(tokens)
           C == Derivations(tokens)
           Joins(j) == \A b \in C[<<rule, k + 1, j>>] : Meaning(rule, a, b) \in C[<<rule, i, j>>]
           S == {j \in Nat : j \in k + 1 .. n => Joins(j)}
<1>1. n \in Nat /\ Operand(rule) \in Rules /\ i \in 1 .. n + 1 /\ k \in 1 .. n /\ k + 1 \in 1 .. n + 1 /\ k - 1 \in 0 .. n
  BY DEF Operand, Rules
<1>2. a \in Classes
  BY <1>1, DerivedTyped
<1>3. ASSUME NEW j \in k + 1 .. n, NEW m \in i + 1 .. j - 1, tokens[m] = Op(rule),
             NEW x \in C[<<rule, i, m - 1>>], NEW y \in C[<<Operand(rule), m + 1, j>>]
      PROVE  Meaning(rule, x, y) \in C[<<rule, i, j>>]
  <2>1. Joined(tokens, C, rule, i, j, Meaning(rule, x, y))
    BY <1>3 DEF Joined
  <2>2. j \in 0 .. n
    BY <1>1
  <2> HIDE DEF C
  <2> QED BY <1>1, <2>1, <2>2, DerivedChain DEF C
<1>4. a \in C[<<rule, i, k - 1>>]
  BY <1>1, DerivedChain
<1>5. ASSUME NEW j \in Nat, \A m \in Nat : m < j => m \in S PROVE j \in S
  <2> SUFFICES ASSUME j \in k + 1 .. n, NEW b \in C[<<rule, k + 1, j>>]
               PROVE  Meaning(rule, a, b) \in C[<<rule, i, j>>]
    OBVIOUS
  <2>1. j \in 0 .. n
    BY <1>1
  <2>2. b \in C[<<Operand(rule), k + 1, j>>] \/ Joined(tokens, C, rule, k + 1, j, b)
    BY <1>1, <2>1, DerivedChain
  <2>3. CASE b \in C[<<Operand(rule), k + 1, j>>]
    <3>1. k \in i + 1 .. j - 1
      BY <1>1
    <3> HIDE DEF C
    <3> QED BY <1>3, <1>4, <2>3, <3>1
  <2>4. CASE Joined(tokens, C, rule, k + 1, j, b)
    <3>1. PICK m \in k + 1 + 1 .. j - 1 :
            /\ tokens[m] = Op(rule)
            /\ \E x \in C[<<rule, k + 1, m - 1>>], y \in C[<<Operand(rule), m + 1, j>>] : b = Meaning(rule, x, y)
      BY <2>4 DEF Joined
    <3>2. PICK x \in C[<<rule, k + 1, m - 1>>], y \in C[<<Operand(rule), m + 1, j>>] : b = Meaning(rule, x, y)
      BY <3>1
    <3>3. m - 1 \in k + 1 .. n /\ m - 1 \in Nat /\ m - 1 < j /\ m - 1 \in 0 .. n /\ m + 1 \in 1 .. n + 1 /\ m \in i + 1 .. j - 1
      BY <1>1, <3>1
    <3>4. Meaning(rule, a, x) \in C[<<rule, i, m - 1>>]
      <4>1. m - 1 \in S
        <5> HIDE DEF S, n
        <5> QED BY <1>5, <3>3
      <4> HIDE DEF C, n
      <4> QED BY <3>2, <3>3, <4>1
    <3>5. Meaning(rule, Meaning(rule, a, x), y) \in C[<<rule, i, j>>]
      <4> HIDE DEF C, n
      <4> QED BY <1>3, <3>1, <3>2, <3>3, <3>4
    <3>6. x \in Classes /\ y \in Classes
      BY <1>1, <2>1, <3>2, <3>3, DerivedTyped
    <3> QED BY <1>2, <3>2, <3>5, <3>6, MeaningGroups
  <2> QED BY <2>2, <2>3, <2>4
<1>6. ASSUME NEW j \in k + 1 .. n PROVE Joins(j)
  <2>1. j \in S
    <3>1. Nat \subseteq S
      <4> HIDE DEF S
      <4> QED BY <1>5, ByLesser
    <3>2. j \in Nat
      BY <1>1
    <3> HIDE DEF S, n
    <3> QED BY <3>1, <3>2
  <2> HIDE DEF Joins
  <2> QED BY <2>1
<1> QED BY <1>6

\* What the descent reads, the grammar derives.
Sound(tokens, rule, p) ==
  LET read == Descend(tokens)[<<rule, p>>]
  IN  read # Malformed => read.class \in Derivations(tokens)[<<rule, p, read.pos - 1>>]

\* A term that is read is derived, if what its parentheses hold is.
LEMMA SoundTerm ==
  ASSUME NEW tokens \in Seq(STRING), ~OpenException(tokens), NEW p \in 1 .. Len(tokens) + 1,
         p \in 1 .. Len(tokens) => Sound(tokens, "or", p + 1)
  PROVE  Sound(tokens, "term", p)
<1> DEFINE n == Len(tokens)
           P == Descend(tokens)
           C == Derivations(tokens)
           read == P[<<"term", p>>]
<1> SUFFICES ASSUME read # Malformed PROVE read.class \in C[<<"term", p, read.pos - 1>>]
  BY DEF Sound
<1>1. n \in Nat /\ "term" \in Rules /\ "or" \in Rules /\ p \in 1 .. n + 1
  BY DEF Rules
<1>2. \A i \in 1 .. n + 1, j \in 0 .. n : C[<<"term", i, j>>] = Derive(tokens, C, "term", i, j)
  BY <1>1, DerivationsAre
<1>3. read = Read(tokens, P, "term", p)
  BY <1>1, DescendIs
<1>4. CASE peek(tokens, p) = "("
  <2> DEFINE inner == P[<<"or", p + 1>>]
  <2>1. read = Group(tokens, inner)
    BY <1>3, <1>4 DEF Read
  <2>2. inner # Malformed /\ peek(tokens, inner.pos) = ")" /\ read = [inner EXCEPT !.pos = @ + 1]
    BY <2>1 DEF Group
  <2>3. p \in 1 .. n /\ tokens[p] = "("
    <3>1. peek(tokens, p) # EndOfTokens
      BY <1>4 DEF EndOfTokens
    <3> QED BY <1>4, <3>1, PeekIs
  <2>4. inner \in [class : Classes, pos : p + 2 .. n + 1]
    <3>1. p + 1 \in 1 .. n + 1
      BY <2>3
    <3>2. inner \in Outcomes(n, p + 1)
      BY <1>1, <3>1, DescendIs DEF Readings
    <3> QED BY <2>2, <2>3, <3>2 DEF Outcomes
  <2>5. inner.pos \in p + 2 .. n /\ tokens[inner.pos] = ")"
    <3>1. inner.pos \in p + 2 .. n + 1
      BY <2>4
    <3>2. inner.pos \in Nat \ {0}
      BY <1>1, <2>3, <3>1
    <3>3. peek(tokens, inner.pos) # EndOfTokens
      BY <2>2 DEF EndOfTokens
    <3>4. inner.pos \in 1 .. n /\ tokens[inner.pos] = ")"
      <4> HIDE DEF inner
      <4> QED BY <2>2, <3>2, <3>3, PeekIs
    <3> HIDE DEF inner
    <3> QED BY <3>1, <3>4
  <2>6. inner.class \in C[<<"or", p + 1, inner.pos - 1>>]
    BY <2>2, <2>3 DEF Sound
  <2> HIDE DEF inner
  <2>7. read.class = inner.class /\ read.pos - 1 = inner.pos
    BY <2>2, <2>4, <2>5
  <2>8. C[<<"term", p, inner.pos>>] = Derive(tokens, C, "term", p, inner.pos)
    <3>1. inner.pos \in 0 .. n
      BY <1>1, <2>3, <2>5
    <3> HIDE DEF C, n
    <3> QED BY <1>1, <1>2, <3>1
  <2>9. Derive(tokens, C, "term", p, inner.pos) = C[<<"or", p + 1, inner.pos - 1>>]
    BY <2>3, <2>5 DEF Derive
  <2> QED BY <2>6, <2>7, <2>8, <2>9
<1>5. CASE peek(tokens, p) # "("
  <2>1. read = Id(tokens, p)
    BY <1>3, <1>5 DEF Read
  <2>2. peek(tokens, p) \notin NotAnId
    BY <2>1 DEF Id
  <2>3. p \in 1 .. n /\ tokens[p] = peek(tokens, p) /\ IdAt(tokens, p)
    BY <1>5, <2>2, PeekIs DEF NotAnId, IdAt
  <2>4. CASE peek(tokens, p + 1) # "WITH"
    <3>1. read = [class |-> classifyLicenseID(tokens[p]), pos |-> p + 1]
      BY <2>1, <2>2, <2>3, <2>4 DEF Id
    <3>2. Derive(tokens, C, "term", p, p) = {classifyLicenseID(tokens[p])}
      BY <2>3 DEF Derive, IdAt
    <3>3. C[<<"term", p, p>>] = Derive(tokens, C, "term", p, p)
      <4>1. p \in 0 .. n
        BY <2>3
      <4> HIDE DEF C, n
      <4> QED BY <1>1, <1>2, <4>1
    <3>4. read.class = classifyLicenseID(tokens[p]) /\ read.pos - 1 = p
      BY <3>1
    <3> QED BY <3>2, <3>3, <3>4
  <2>5. CASE peek(tokens, p + 1) = "WITH"
    <3>1. peek(tokens, p + 2) \notin NotAnId /\ read = [class |-> classifyLicenseID(tokens[p]), pos |-> p + 3]
      BY <2>1, <2>2, <2>3, <2>5 DEF Id
    <3>2. p + 1 \in 1 .. n /\ tokens[p + 1] = "WITH"
      <4>1. peek(tokens, p + 1) # EndOfTokens
        BY <2>5 DEF EndOfTokens
      <4>2. p + 1 \in Nat \ {0}
        BY <2>3
      <4> QED BY <2>5, <4>1, <4>2, PeekIs
    <3>3. p + 2 \in 1 .. n /\ tokens[p + 2] \notin NotAnId
      BY <3>1, PeekIs DEF NotAnId
    <3>4. tokens[p + 2] # "("
      <4>1. p + 1 \in 1 .. n - 1 /\ (p + 1) + 1 = p + 2
        BY <1>1, <3>3
      <4> QED BY <3>2, <4>1 DEF OpenException
    <3>5. IdAt(tokens, p + 2)
      BY <3>3, <3>4 DEF IdAt
    <3>6. Derive(tokens, C, "term", p, p + 2) = {classifyLicenseID(tokens[p])}
      BY <2>3, <3>2, <3>5 DEF Derive, IdAt
    <3>7. C[<<"term", p, p + 2>>] = Derive(tokens, C, "term", p, p + 2)
      <4>1. p + 2 \in 0 .. n
        BY <3>3
      <4> HIDE DEF C, n
      <4> QED BY <1>1, <1>2, <4>1
    <3>8. read.class = classifyLicenseID(tokens[p]) /\ read.pos - 1 = p + 2
      BY <3>1
    <3> QED BY <3>6, <3>7, <3>8
  <2> QED BY <2>4, <2>5
<1> QED BY <1>4, <1>5

\* A chain that is read is derived, if its operand and the rest are.
LEMMA SoundChain ==
  ASSUME NEW tokens \in Seq(STRING), NEW rule \in Rules, rule # "term", NEW p \in 1 .. Len(tokens) + 1,
         Sound(tokens, Operand(rule), p),
         \A q \in p + 1 .. Len(tokens) + 1 : Sound(tokens, rule, q)
  PROVE  Sound(tokens, rule, p)
<1> DEFINE n == Len(tokens)
           P == Descend(tokens)
           C == Derivations(tokens)
           first == P[<<Operand(rule), p>>]
           rest == P[<<rule, first.pos + 1>>]
           read == P[<<rule, p>>]
<1> SUFFICES ASSUME read # Malformed PROVE read.class \in C[<<rule, p, read.pos - 1>>]
  BY DEF Sound
<1>1. n \in Nat /\ Operand(rule) \in Rules
  BY DEF Operand, Rules
<1>2. read = Chain(tokens, rule, first, rest)
  <2>1. read = Read(tokens, P, rule, p)
    BY DescendIs
  <2> QED BY <2>1 DEF Read
<1>3. first # Malformed
  BY <1>2 DEF Chain
<1>4. first.class \in Classes /\ first.pos \in p + 1 .. n + 1
  <2>1. first \in Outcomes(n, p)
    BY <1>1, DescendIs DEF Readings
  <2> HIDE DEF first
  <2> QED BY <1>3, <2>1, MalformedIsNoClass
<1>5. first.class \in C[<<Operand(rule), p, first.pos - 1>>]
  BY <1>3 DEF Sound
<1>6. CASE peek(tokens, first.pos) # Op(rule)
  <2>1. read = first
    BY <1>2, <1>6 DEF Chain
  <2>2. first.pos - 1 \in 0 .. n
    BY <1>1, <1>4
  <2> HIDE DEF first
  <2>3. first.class \in C[<<rule, p, first.pos - 1>>]
    BY <1>5, <2>2, DerivedChain
  <2> QED BY <2>1, <2>3
<1>7. CASE peek(tokens, first.pos) = Op(rule)
  <2>1. first.pos \in p + 1 .. n /\ tokens[first.pos] = Op(rule)
    <3>1. first.pos \in Nat \ {0} /\ Op(rule) # EndOfTokens
      BY <1>1, <1>4 DEF Op, EndOfTokens
    <3> HIDE DEF first
    <3> QED BY <1>4, <1>7, <3>1, PeekIs
  <2>2. rest # Malformed /\ read = [rest EXCEPT !.class = Pick(rule, first.class, rest.class)]
    BY <1>2, <1>3, <1>7 DEF Chain
  <2>3. first.pos + 1 \in p + 1 .. n + 1 /\ first.pos + 1 \in 1 .. n + 1
    BY <1>1, <2>1
  <2>4. rest \in [class : Classes, pos : first.pos + 2 .. n + 1]
    <3>1. rest \in Outcomes(n, first.pos + 1)
      <4> HIDE DEF first
      <4> QED BY <2>3, DescendIs DEF Readings
    <3>2. (first.pos + 1) + 1 = first.pos + 2
      BY <2>1
    <3> HIDE DEF rest, first
    <3> QED BY <2>2, <3>1, <3>2 DEF Outcomes
  <2>5. rest.class \in C[<<rule, first.pos + 1, rest.pos - 1>>]
    <3>1. Sound(tokens, rule, first.pos + 1)
      <4> HIDE DEF first
      <4> QED BY <2>3
    <3> HIDE DEF first
    <3> QED BY <2>2, <3>1 DEF Sound
  <2> HIDE DEF rest, first
  <2>6. read.pos = rest.pos /\ read.class = Meaning(rule, first.class, rest.class)
    BY <1>4, <2>2, <2>4, PickIsMeaning
  <2>7. Meaning(rule, first.class, rest.class) \in C[<<rule, p, rest.pos - 1>>]
    <3>1. p \in 1 .. n /\ rest.pos - 1 \in first.pos + 1 .. n
      BY <1>1, <2>1, <2>4
    <3> QED BY <1>5, <2>1, <2>5, <3>1, Prepend
  <2> QED BY <2>6, <2>7
<1> QED BY <1>6, <1>7

\* Whatever the descent reads, the grammar derives.
LEMMA Soundness ==
  ASSUME NEW tokens \in Seq(STRING), ~OpenException(tokens)
  PROVE  \A rule \in Rules, p \in 1 .. Len(tokens) + 1 : Sound(tokens, rule, p)
<1> DEFINE n == Len(tokens)
           Ranked(k) == \A rule \in Rules, p \in 1 .. n + 1 : Rank(n, rule, p) = k => Sound(tokens, rule, p)
           S == {k \in Nat : Ranked(k)}
<1>1. n \in Nat /\ "or" \in Rules
  BY DEF Rules
<1>2. \A rule \in Rules : Level(rule) \in 0 .. 2
  BY DEF Level, Rules
<1>3. \A rule \in Rules, p \in 1 .. n + 1 : Rank(n, rule, p) \in Nat
  <2> HIDE DEF n
  <2> QED BY <1>1, <1>2 DEF Rank
<1>4. ASSUME NEW k \in Nat, \A m \in Nat : m < k => m \in S PROVE k \in S
  <2> SUFFICES ASSUME NEW rule \in Rules, NEW p \in 1 .. n + 1, Rank(n, rule, p) = k
               PROVE  Sound(tokens, rule, p)
    OBVIOUS
  <2>1. ASSUME NEW r \in Rules, NEW q \in 1 .. n + 1, Rank(n, r, q) < Rank(n, rule, p)
        PROVE  Sound(tokens, r, q)
    <3>1. Rank(n, r, q) \in S
      <4> HIDE DEF S, n
      <4> QED BY <1>3, <1>4, <2>1
    <3> QED BY <3>1
  <2>2. ASSUME NEW r \in Rules, NEW q \in p + 1 .. n + 1 PROVE Sound(tokens, r, q)
    <3>1. q \in 1 .. n + 1 /\ 3 * (n + 1 - q) + 3 <= 3 * (n + 1 - p)
      BY <1>1, <2>2
    <3>2. Rank(n, r, q) < Rank(n, rule, p)
      <4>1. Level(r) \in 0 .. 2 /\ Level(rule) \in 0 .. 2
        BY <1>2
      <4> HIDE DEF n
      <4> QED BY <1>1, <3>1, <4>1 DEF Rank
    <3> QED BY <2>1, <3>1, <3>2
  <2>3. CASE rule = "term"
    <3>1. p \in 1 .. n => Sound(tokens, "or", p + 1)
      <4>1. p \in 1 .. n => p + 1 \in p + 1 .. n + 1
        OBVIOUS
      <4> HIDE DEF n, S
      <4> QED BY <1>1, <2>2, <4>1
    <3> QED BY <2>3, <3>1, SoundTerm
  <2>4. CASE rule # "term"
    <3>1. Operand(rule) \in Rules /\ Rank(n, Operand(rule), p) < Rank(n, rule, p)
      BY <1>1, <2>4 DEF Operand, Rules, Rank, Level
    <3>2. Sound(tokens, Operand(rule), p)
      BY <2>1, <3>1
    <3>3. \A q \in p + 1 .. n + 1 : Sound(tokens, rule, q)
      <4> HIDE DEF S
      <4> QED BY <2>2
    <3> QED BY <2>4, <3>2, <3>3, SoundChain
  <2> QED BY <2>3, <2>4
<1>5. ASSUME NEW rule \in Rules, NEW p \in 1 .. n + 1 PROVE Sound(tokens, rule, p)
  <2>1. Rank(n, rule, p) \in S
    <3>1. Nat \subseteq S
      <4> HIDE DEF S
      <4> QED BY <1>4, ByLesser
    <3> HIDE DEF S, n
    <3> QED BY <1>3, <3>1
  <2> QED BY <2>1
<1> QED BY <1>5

\* The recursive descent classifies an expression of any length as the
\* grammar and the meaning of AND and OR do, and has a human review what the
\* grammar does not derive (ClassifyLicense).
THEOREM LicenceMeansWhatSPDXSays ==
  ASSUME NEW tokens \in Seq(STRING), ~OpenException(tokens)
  PROVE  IF Derivable(tokens) = {} THEN ClassifyLicense(tokens) = "review"
         ELSE Derivable(tokens) = {ClassifyLicense(tokens)}
<1> DEFINE n == Len(tokens)
           read == Descend(tokens)[<<"or", 1>>]
<1>1. n \in Nat /\ "or" \in Rules /\ 1 \in 1 .. n + 1 /\ n \in 0 .. n
  BY DEF Rules
<1>2. Derivable(tokens) = Derivations(tokens)[<<"or", 1, n>>] /\ Derivable(tokens) \subseteq Classes
  BY <1>1, DerivedTyped DEF Derivable
<1>3. ASSUME NEW c \in Derivable(tokens) PROVE ClassifyLicense(tokens) = c
  <2>1. Complete(tokens, "or", 1, n)
    BY <1>1, Completeness DEF Claim
  <2>2. peek(tokens, n + 1) \notin Stops("or")
    BY <1>1 DEF peek, Stops, EndOfTokens
  <2>3. read = Result(c, n + 1) /\ c \in Classes
    <3> HIDE DEF n
    <3> QED BY <1>2, <1>3, <2>1, <2>2 DEF Complete
  <2>4. read # Malformed /\ read.pos = n + 1 /\ read.class = c
    BY <2>3, ResultIs
  <2> QED BY <2>4 DEF ClassifyLicense
<1>4. ASSUME Derivable(tokens) = {} PROVE ClassifyLicense(tokens) = "review"
  <2>1. Sound(tokens, "or", 1)
    BY <1>1, Soundness
  <2>2. read # Malformed /\ read.pos = n + 1 => read.class \in Derivations(tokens)[<<"or", 1, n>>]
    BY <1>1, <2>1 DEF Sound
  <2> QED BY <1>2, <1>4, <2>2 DEF ClassifyLicense
<1> QED BY <1>3, <1>4

\* A server's licence is classified as SPDX reads it, whatever the licence
\* (ClassifyLicense in Run).
THEOREM LicencesAreRead == Spec => []LicenceIsRead
<1>1. Evidence => LicenceIsRead
  <2> SUFFICES ASSUME Evidence, pull # NoPull, ~OpenException(pull.recipe.licence)
               PROVE  IF Derivable(pull.recipe.licence) = {}
                        THEN ClassifyLicense(pull.recipe.licence) = "review"
                        ELSE Derivable(pull.recipe.licence) = {ClassifyLicense(pull.recipe.licence)}
    BY DEF LicenceIsRead
  <2>1. pull.recipe.licence \in Seq(STRING)
    BY AuditAssumption DEF Evidence
  <2> QED BY <2>1, LicenceMeansWhatSPDXSays
<1>2. Spec => []Evidence
  BY EvidenceInit, EvidenceNext, PTL DEF Spec
<1> QED BY <1>1, <1>2, PTL
=============================================================================
