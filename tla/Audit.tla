------------------------------- MODULE Audit -------------------------------
(***************************************************************************)
(* The audit of servers (internal/audit/audit.go, internal/recipe): what   *)
(* it lets through, and for how long.  A pull request changes one server's *)
(* recipe, is audited, and is merged when the audit passed, that day or    *)
(* later; advisories are published and amended; a scheduled run audits all *)
(* of main again and keeps one tracking issue.                             *)
(*                                                                         *)
(* A world names what the outside may bring: Outside(world) is             *)
(*   [records, known: those OSV may come to hold and holds at first,       *)
(*    offers: a set of [server, recipe], days: the last day looked at].    *)
(* A recipe is what the audit reads of a package:                          *)
(*   [lock, licence: tokens, vettedOn: a day, waivers: a sequence of       *)
(*    [id, package, expires: a day, complete: every field is set]],        *)
(* its lock the file the fetched tree has at build.lockfile:               *)
(*   [kind: an ecosystem, "none" when none is named or "missing",          *)
(*    entries: a set of [name, version, dev, link, licence]].              *)
(***************************************************************************)
EXTENDS Osv, Licence, FiniteSets

CONSTANTS Servers, Worlds, Outside(_), MaxWaiverDays,
          NoVersion,    \* an npm entry without version, a requirement not pinned
          NoLicence,    \* an entry without a licence
          NoRecipe, NoPull

ASSUME AuditAssumption ==
  /\ MaxWaiverDays \in Nat
  /\ \A w \in Worlds : \A offer \in Outside(w).offers :
       /\ offer.server \in Servers
       /\ offer.recipe # NoRecipe
       /\ offer.recipe.licence \in Seq(STRING)
       /\ offer.recipe.vettedOn \in Int
       /\ offer.recipe.waivers \in Seq([id : STRING, package : STRING, expires : Int, complete : BOOLEAN])

VARIABLES
  world,
  today,
  known,      \* the records the OSV service holds
  main,       \* server -> its recipe on main, or NoRecipe
  checked,    \* server -> the day the recipe on main passed its audit
  pull,       \* the open pull request and its audit's report, or NoPull
  job,        \* the scheduled workflow: "idle" or "due"
  issue       \* what the open tracking issue's last text says, {} if none is open

vars == <<world, today, known, main, checked, pull, job, issue>>

(***************************************************************************)
(* The lockfile                                                            *)
(***************************************************************************)

\* A requirement that is not pinned is an error, a lockfile that is named
\* but not in the tree one too.
Readable(lock) ==
  /\ lock.kind # "missing"
  /\ lock.kind = "PyPI" => \A e \in lock.entries : e.version # NoVersion

\* ReadLock: npm's dev, link and versionless entries are not shipped.
ReadLock(lock) ==
  LET shipped == IF lock.kind = "npm"
                   THEN {e \in lock.entries : ~e.dev /\ ~e.link /\ e.version # NoVersion}
                   ELSE lock.entries
  IN  {[ecosystem |-> lock.kind, name |-> e.name, version |-> e.version,
        licence |-> IF lock.kind = "npm" THEN e.licence ELSE NoLicence] : e \in shipped}

\* A record and the dependency it is returned for speak of versions of one
\* ecosystem, or of what its parser refuses.
ASSUME EvidenceAssumption ==
  \A w \in Worlds :
    \A record \in Outside(w).known \union Outside(w).records, offer \in Outside(w).offers :
    \A dep \in {d \in ReadLock(offer.recipe.lock) :
                 [name |-> d.name, version |-> d.version] \in record.hits} :
    LET versions == VersionsOf(dep.ecosystem) \union {Unparsed, Beginning}
    IN  /\ dep.version \in versions
        /\ \A range \in RangesOf(record, dep) :
             range.events \in Seq([kind : STRING, version : versions])

(***************************************************************************)
(* Waivers                                                                 *)
(***************************************************************************)

\* recipe.ValidateAudit
ValidateAudit(r) ==
  \A i \in DOMAIN r.waivers :
    LET w == r.waivers[i]
    IN  /\ w.complete
        /\ w.expires <= r.vettedOn + MaxWaiverDays
        /\ \A j \in 1 .. i - 1 :
             ~(r.waivers[j].id = w.id /\ r.waivers[j].package = w.package)

\* Mutant of checkWaiverDates: vetted_on alone caps what expires.
DatesOfVettingAlone(r, day) == ValidateAudit(r)

\* Mutant of checkWaiverDates: an expired waiver is refused as well.
DatesWithExpiry(r, day) ==
  /\ ValidateAudit(r)
  /\ \A i \in DOMAIN r.waivers : r.waivers[i].expires \in day .. day + MaxWaiverDays
  /\ r.vettedOn <= day

checkWaiverDates(r, day) ==
  /\ ValidateAudit(r)
  /\ \A i \in DOMAIN r.waivers : r.waivers[i].expires <= day + MaxWaiverDays
  /\ r.vettedOn <= day

Blocks(v) == v.severity = "CRITICAL" \/ (v.severity = "HIGH" /\ v.fixed # {})

Matches(w, v) == w.package = v.dep.name /\ (w.id = v.id \/ w.id \in v.aliases)

\* The first waiver that matches decides.
Deciding(waivers, v) ==
  {i \in DOMAIN waivers :
     /\ Matches(waivers[i], v)
     /\ \A j \in 1 .. i - 1 : ~Matches(waivers[j], v)}

\* Mutant of Expired: the waiver does not apply on the day it names.
ExpiredOnItsDay(w, day) == w.expires <= day

Expired(w, day) == w.expires < day

\* The findings a waiver that is not expired lets through.
Waived(vulns, waivers, day) ==
  {v \in vulns : Blocks(v) /\ \E i \in Deciding(waivers, v) : ~Expired(waivers[i], day)}

\* vulnFindings' blocking lines: the findings not let through, the waivers
\* that are expired, and those no finding was decided by.
vulnFindings(vulns, waivers, day) ==
  {<<"finding", v.id, v.dep.name>> :
     v \in {u \in vulns : Blocks(u)} \ Waived(vulns, waivers, day)}
  \union
  {<<IF Expired(waivers[i], day) THEN "expired" ELSE "unused", waivers[i].id, waivers[i].package>> :
     i \in {k \in DOMAIN waivers :
              \/ Expired(waivers[k], day)
              \/ \A v \in {u \in vulns : Blocks(u)} : k \notin Deciding(waivers, v)}}

(***************************************************************************)
(* Run.  reached says whether the registry, the source and OSV answer.     *)
(***************************************************************************)
Refused == [err |-> TRUE, blocking |-> {}]

Run(r, records, day, reached) ==
  IF ~checkWaiverDates(r, day) \/ ~reached \/ ~Readable(r.lock) THEN Refused
  ELSE LET deps == ReadLock(r.lock)
       IN  [err |-> FALSE,
            blocking |->
              vulnFindings(Query(records, deps), r.waivers, day)
              \union (IF ClassifyLicense(r.licence) = "refuses" THEN {<<"server licence">>} ELSE {})
              \union {<<"licence", d.name>> :
                        d \in {e \in deps : /\ e.licence # NoLicence
                                            /\ ClassifyLicense(e.licence) = "refuses"}}]

\* cmdAudit's exit status.
Fails(report) == report.err \/ report.blocking # {}

(***************************************************************************)
(* The repository                                                          *)
(***************************************************************************)
Init ==
  /\ world \in Worlds
  /\ today = 0
  /\ known = Outside(world).known
  /\ main = [s \in Servers |-> NoRecipe]
  /\ checked = [s \in Servers |-> 0]
  /\ pull = NoPull
  /\ job = "idle"
  /\ issue = {}

NextDay ==
  /\ today < Outside(world).days
  /\ today' = today + 1
  /\ UNCHANGED <<world, known, main, checked, pull, job, issue>>

\* OSV publishes a record, or a new text of one it has.
Disclose(record) ==
  /\ record \notin known
  /\ known' = {k \in known : k.id # record.id} \union {record}
  /\ UNCHANGED <<world, today, main, checked, pull, job, issue>>

\* A pull request is opened, or pushed to, and its audit job ends.
Check(offer, reached) ==
  /\ pull' = [server |-> offer.server, recipe |-> offer.recipe, day |-> today,
              report |-> Run(offer.recipe, known, today, reached)]
  /\ UNCHANGED <<world, today, known, main, checked, job, issue>>

\* The audit is a required check.  It is not repeated at the merge.
Merge ==
  /\ pull # NoPull
  /\ ~Fails(pull.report)
  /\ main' = [main EXCEPT ![pull.server] = pull.recipe]
  /\ checked' = [checked EXCEPT ![pull.server] = pull.day]
  /\ pull' = NoPull
  /\ UNCHANGED <<world, today, known, job, issue>>

OnMain == {s \in Servers : main[s] # NoRecipe}

\* What the tracking issue says of a server whose audit failed.
Lines(s, report) ==
  IF report.err THEN {<<s, <<"error">>>>} ELSE {<<s, line>> : line \in report.blocking}

\* Cron, or a dispatch.  The concurrency group lets one run wait.
Trigger ==
  /\ job = "idle"
  /\ job' = "due"
  /\ UNCHANGED <<world, today, known, main, checked, pull, issue>>

RunEnds == job = "due" /\ job' = "idle"

\* Mutant of Schedule: the loop ends at the first audit that fails.
ScheduleUntilFailure(lost) ==
  /\ RunEnds
  /\ LET report == [s \in OnMain |-> Run(main[s], known, today, s \notin lost)]
         failed == {s \in OnMain : Fails(report[s])}
         first == CHOOSE s \in failed : TRUE
     IN  issue' = IF failed = {} THEN issue ELSE Lines(first, report[first])
  /\ UNCHANGED <<world, today, known, main, checked, pull>>

\* The scheduled run audits every server of main (the network is lost for
\* some) and, if one failed, comments on the open issue or opens one.  It
\* leaves the issue as it is when none failed.
Schedule(lost) ==
  /\ RunEnds
  /\ LET report == [s \in OnMain |-> Run(main[s], known, today, s \notin lost)]
         failed == {s \in OnMain : Fails(report[s])}
     IN  issue' = IF failed = {} THEN issue ELSE UNION {Lines(s, report[s]) : s \in failed}
  /\ UNCHANGED <<world, today, known, main, checked, pull>>

CloseIssue ==
  /\ issue # {}
  /\ issue' = {}
  /\ UNCHANGED <<world, today, known, main, checked, pull, job>>

Next ==
  \/ NextDay
  \/ \E record \in Outside(world).records : Disclose(record)
  \/ \E offer \in Outside(world).offers, reached \in BOOLEAN : Check(offer, reached)
  \/ Merge
  \/ Trigger
  \/ \E lost \in SUBSET OnMain : Schedule(lost)
  \/ CloseIssue

\* The workflow is triggered again and again, and a run of it ends.  Only
\* Schedule takes job from "due", so RunEnds is its fairness.
Spec == Init /\ [][Next]_vars /\ WF_vars(Trigger) /\ WF_job(RunEnds)

(***************************************************************************)
(* Properties                                                              *)
(***************************************************************************)

WaivedOnMain(s) == Waived(Query(known, ReadLock(main[s].lock)), main[s].waivers, today)

\* What main lets through by a waiver was looked at no more than
\* MaxWaiverDays ago, whatever the author wrote as vetted_on and expires,
\* and however late the pull request was merged (checkWaiverDates).
ExceptionEnds ==
  \A s \in OnMain : WaivedOnMain(s) # {} => today <= checked[s] + MaxWaiverDays

\* A recipe that was merged is never refused by the scheduled audit for its
\* dates, so that the issue names what blocks: days only pass, and an
\* expired waiver is a blocking line and no error.
MainIsReadable == \A s \in OnMain : checkWaiverDates(main[s], today)

\* A waiver no finding was decided by, though it matches one: another waiver
\* for the same finding, by another of its ids, stands before it.
Shadowed(waivers, blocking) ==
  \E i \in DOMAIN waivers :
    /\ \E v \in blocking : Matches(waivers[i], v)
    /\ \A v \in blocking : i \notin Deciding(waivers, v)

Blocking(r) == {v \in Query(known, ReadLock(r.lock)) : Blocks(v)}

Live(r) == {w \in {r.waivers[i] : i \in DOMAIN r.waivers} : today <= w.expires}

Justified(r) ==
  /\ \A v \in Blocking(r) : \E w \in Live(r) : Matches(w, v)
  /\ \A i \in DOMAIN r.waivers :
       r.waivers[i] \in Live(r) /\ \E v \in Blocking(r) : Matches(r.waivers[i], v)
  /\ \A l \in {r.licence} \union ({d.licence : d \in ReadLock(r.lock)} \ {NoLicence}) :
       ClassifyLicense(l) # "refuses"

\* An audit passes exactly when every blocking finding has a waiver that is
\* not expired, every waiver is one of those, and no licence refuses; two
\* advisories of one CVE, and the order of the waivers, do not change that
\* (a shadowed waiver, which fails the audit, is the exception).
PassIsJustified ==
  [][pull' \notin {pull, NoPull} =>
       /\ ~Fails(pull'.report) => Justified(pull'.recipe)
       /\ (/\ ~pull'.report.err /\ Justified(pull'.recipe)
           /\ ~Shadowed(pull'.recipe.waivers, Blocking(pull'.recipe)))
            => ~Fails(pull'.report)]_vars

\* The parser accepts "(" for the exception of a WITH; Derivable does not.
OpenException(tokens) ==
  \E i \in 1 .. Len(tokens) - 1 : tokens[i] = "WITH" /\ tokens[i + 1] = "("

\* A server's licence is classified as SPDX reads it: AND binds tighter than
\* OR, parentheses group, an exception changes nothing; and what the grammar
\* does not derive is for a human to review.
LicenceIsRead ==
  pull # NoPull /\ ~OpenException(pull.recipe.licence) =>
    LET derived == Derivable(pull.recipe.licence)
    IN  IF derived = {} THEN ClassifyLicense(pull.recipe.licence) = "review"
        ELSE derived = {ClassifyLicense(pull.recipe.licence)}

\* A finding names the fix of the installed version's own release branch
\* and no other, in whatever order the record lists its events: a fix on
\* another branch must not block, and one on this branch must.  If a version
\* of a range cannot be placed, each fix of the range is named (rangeFixes).
\* Excepted are ranges with two events at one version, of which the code
\* takes the one listed first, and records that name another package as well.
FixesAreNearest ==
  pull # NoPull /\ Readable(pull.recipe.lock) =>
    \A dep \in ReadLock(pull.recipe.lock) :
      \A record \in {k \in known : [name |-> dep.name, version |-> dep.version] \in k.hits} :
      LET ranges == {r \in UNION {a.ranges : a \in record.affected} : r.type # "GIT"}
          Placed(r) == Orderable(dep.ecosystem, dep.version, r.events)
          Fixes(r) == IF Placed(r) THEN NearestFix(dep.ecosystem, dep.version, Points(r.events))
                                   ELSE Fixed(Points(r.events))
      IN  (\A r \in ranges : Placed(r) => ~Tied(dep.ecosystem, r.events))
          /\ (\A a \in record.affected : a.package \in {"", dep.name})
            => fixedVersions(record, dep) = UNION {Fixes(r) : r \in ranges}

\* What blocks on main is said in an open issue again and again, however
\* often the issue is closed and whichever server's audit fails first.
AlwaysReported ==
  []<>(\A s \in OnMain :
         \/ Lines(s, Run(main[s], known, today, TRUE)) \subseteq issue
         \/ <<s, <<"error">>>> \in issue)
=============================================================================
