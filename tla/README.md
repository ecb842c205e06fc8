# A formal model of mcp-library

mcp-library builds MCP servers into package tars, audits and smokes them, and
publishes them with a signed index. This directory holds TLA+ modules of its
parts, TLC runs on small instances and proofs that TLAPS checks for all
instances. `PROJECT.json` lists components, runs, mutants, hazards, findings and
theorems, and maps each definition to the lines it models.

To check a module: `tlc -config MCStdioSession_safety.cfg MCStdioSession.tla`;
to prove one: `tlapm StdioSession_proofs.tla`.

## The system

| Part | Source | State it keeps | Operations |
|---|---|---|---|
| stdio MCP session | `internal/smoke/probe.go` | `pending` (id to channel), `closed`, `done`, `eof`, the write lock | Call, Notify, Close, the read loop, a goroutine per request of the package |
| unix-socket MCP session | `internal/smoke/probe.go` | the session id header | WaitSocket, Call and its SSE body, Notify, Close |
| smoke run | `internal/smoke/smoke.go` | the Report, the snapshot | probe, watch, shutdown, proxy log, snapshot, verdict |
| Docker stack | `internal/smoke/container.go` | `netMade`, `proxyMade`, the names of packages started | Up, Start, Stop, Wait, Down |
| egress proxy | `internal/smoke/proxy.go`, `cmd/mcplib/egressproxy.go` | the allow list, the log, tunnels | CONNECT, plain requests, shutdown |
| index | `internal/index` , `cmd/mcplib/index.go` | `index.json` | Generate, Merge, Retire |
| publishing | `.github/workflows/publish.yml`, `pages.yml`, `scripts/` | GHCR's tags, the Pages site, two concurrency groups | triggers, the run's steps, the deployment |
| signing | `internal/sign`, `cmd/mcplib/sign.go`, `docs/KEY-ROTATION.md` | `keys/*.pub`, the workflow's `SIGNING_KEYS` and secrets, signature files beside each object | sign, verify, rotation by hand |
| audit | `internal/audit`, `internal/recipe/validate.go`, `ci.yml`, `audit-schedule.yml` | the recipes on main with their waivers, the tracking issue; reads lockfiles, OSV and licences | the check of a pull request, the daily audit of main |
| build and pack | `internal/build`, `internal/pack` | dist | fetch, stage, the language builders, the tar writer and its refusals |
| documents | `internal/manifest`, `internal/recipe`, `internal/target` | none | parse, validate, render |
| site | `internal/site` | the site tree | render, size budget |
| CI | the other workflows and scripts | none | linear jobs |

How they interact. `smoke.Run` puts up a stack (an internal network with the
proxy as its only way out), starts the package, talks to it through a session,
waits for its exit in a goroutine of its own, and reads the proxy's log from a
shared file afterwards. A publish run builds the servers its matrix names into a
dist, merges that into the index fetched from GHCR, pushes blobs before the
index, and leaves a site that a second workflow, triggered by the first one's
completion, deploys.

What is hard in it:

- the session: four kinds of goroutines share a map, channels of capacity one
  and a lock that is held across a blocking pipe write, against a package that
  may answer twice, never, or stop reading;
- the run: the package's death shows in three places (stdout's end, `docker
  run`'s status, the container) at different times, and a death smoke asked for
  must not be taken for one it did not;
- the stack: each docker command may fail after it took effect, `docker run` is
  launched and not awaited, and cleanup happens when the run is cancelled;
- the index: its promises are about any series of builds, rebuilds, merges and
  retirements;
- publishing: two queues of length one that cancel what waits, and a run that
  may stop between any two of its pushes;
- signing: a rotation is seven steps by several hands, publish runs fall between
  any two of them, blobs are carried over from runs under other keys, and each
  gateway upgrades when it likes;
- audit: a verdict is reached on one day and acted on on another, about a
  database that changes, with waivers whose dates their author writes; its
  evidence (ranges of several branches, two version orders, licence expressions)
  is full of cases.

What makes each part correct, in the words of the properties below: a response
reaches its own call and no other (session), a pass means a clean exit and a
compared snapshot (run), a Down that succeeded has left nothing running (stack),
digests that are published stay (index), what an index lists can be fetched
(publishing), every gateway can verify what is deployed (signing), and what main
lets through was looked at not long ago (audit).

## Modules

| Module | Models | State and actions |
|---|---|---|
| `StdioSession` | probe.go 113-307 | one `pc` per writing goroutine; `Register`, `Lock`, `WriteOk`/`WriteFail`, the select's cases (`TakeAnswer`, `WakeOnDone` with its second look `ReturnClosed`, `WakeOnDeadline`), `Forget`; the reader as `HandleResponse` (under the lock), `Deliver` (the send outside it), `HandleRequest`, `SkipFrame`, `StreamEnd`, `ReaderShut`; `CloseShut`, `CloseStdin`; the package and `Reap` (cmd.Wait) are the environment |
| `SessionContract` | the `Session` interface | what a caller may be returned, and when; `StdioSession` implements it |
| `SmokeRun` | smoke.go's `Run`, `probe`, `listTools`, `shutdown`, `checkSnapshot` | one step per call outcome and per branch of each select; the package, docker's report, the reader, the proxy's log and an interrupt interleave. Calls are abstracted to what `StdioSession` shows of them |
| `SmokeStack` | container.go's `Up`, `Start`, `Down` | one step per docker command, which may fail before or after it took effect; a launched `docker run` creates (`Land`) and starts (`Boot`) its container later |
| `LibraryIndex` | internal/index | `Generate`, `Merge`, `Retire` as operators on an index that is a function from name@version; a digest is the tar it is the digest of |
| `IndexCommand` | cmd/mcplib/index.go | successive runs: `Publish(dist, at)` for every dist that `Generate` accepts, `RetireVersion` |
| `EgressProxy` | proxy.go, egressproxy.go | one request per connection: `Accept`, `Malformed`, `Decide` (the log line and the decision), `Dial`, `Forward` (a plain request), `Hijack`; a tunnel's two goroutines `Copy` and `CopyEnds`, `Unlink` (both are done); `Sigterm`, `Drained`, `GraceOver`, `Kill` (docker rm -f). The two ends are the environment: `Send`, `HalfClose`, `Reset` |
| `Publishing` | publish.yml, pages.yml, scripts/ | `Push` and `Release` with the two concurrency groups, the steps of a run, `RunFails` at each of them, `Deploy`; built on `LibraryIndex`; index:latest implements `IndexCommand` |
| `Signing` | internal/sign, sign.go, the steps of publish.yml that carry signatures, KEY-ROTATION.md | a key is its generation, a signature the key that made it. `VerifyAny`, `FileSigs`, `Order`, `CanSign`, `SignFile` as operators; a run's `Start`, `VerifyDist`, `PushBlob`, `PushIndex`, `Deploy`, `RunFails`; the maintainers' `AddKey`, `CorrectSecret`, `ReleaseBoth`, `OpenOverlap`, `CloseOverlap`, `ReleaseNew`; a gateway's `Upgrade` |
| `Versions` | version.go | `compareSemver`, `comparePEP440`, `compareVersion`; a version is its parsed fields |
| `Osv` | osv.go | `severityOf`, `rangeFixes` (the sort and the walk), `fixedVersions`, `Query` |
| `Licence` | license.go | `ClassifyLicense` by recursive descent: `Read` is one call of a rule (`Chain`, `Group`, `Id`), `Descend` the function it defines; `Derive` and `Derivable`, the grammar's reference definition |
| `Audit` | audit.go, lock.go, recipe/validate.go's waiver rules, ci.yml's audit job, audit-schedule.yml | `Run`, `vulnFindings`, `checkWaiverDates` as operators; `Check` and `Merge` of a pull request, `Trigger` and `Schedule` of the daily audit with its issue; `NextDay`, `Disclose` are the outside; built on `Osv` and `Licence` |
| `*_proofs` | | theorems of `StdioSession`, `SmokeRun`, `SmokeStack`, `IndexCommand`, `Publishing`, `EgressProxy`, `Signing`, `Audit` |
| `MC*` | | instances for TLC |

Operators named "Mutant of ..." are plausible bugs of the definition after
them; no specification uses them. With the definition replaced by its mutant,
TLC finds the property that `PROJECT.json` names violated.

## Runs

Bounds in parentheses. "Fair" says which fairness is assumed.

**session_safety** (2 calls, 1 request of the package, one-frame pipes, 3 frames
from the package). Two calls are what it takes to confuse two entries, a pipe of
one frame is full after one write, and three frames are two answers to one id
and a request. `ReaderNeverBlocks`: the send outside the lock never finds the
channel full. `OwnAnswer`, `NoLeakedEntry`, `NeverOrphaned`: pending's
bookkeeping on every return path. `ContractSpec`: the refinement; among other
things a response that came before the end is returned even if the select took
the end.

**session_fair** (1 call, 1 notification, 1 request, one-frame pipes; fair:
runnable goroutines run, the write lock is not withheld from a waiter for ever
(`sync.Mutex` hands itself to a starved waiter), deadlines pass; nothing of the
package). `CallsReturn` and `RequestsAnswered` hold if the package keeps reading
its stdin, which is in the formula (`KeepsReading`). `CloseUnblocks` and
`StdoutDrains` hold for every package: Close frees a writer stuck in a full
pipe, and the reader never waits for the write lock.

**stack_safety** (2 packages; fair: Up and Down run, launches end, a removal that
is tried for ever succeeds once). `DownNilStopsAll`: nothing runs after a Down
that returned nil, not even a container whose `docker run` was still under way.
`Recorded`: what could outlive the run is still known to Down. `CleanupHappens`:
a Down repeated until it returns nil gets there. `smoke.Run` calls Down once and
logs its error; the repetition is the use for which Down keeps what it could not
remove (container.go:595-596). A docker command may fail before it took effect or
after, removals included.

**run_safety** (pages of tools/list up to 2; fair: Run's goroutine and its timers
run; a call over stdio returns if the package reads). The package exits when it
likes and with any status; a shell wrapper may report a 143 nobody asked for.
`PassIsCleanExit`: what passes is an exit that docker reported, with 0, or with
143 once docker stop was called; that a SIGTERM of smoke's was its cause the code
cannot tell, and no property says so. `PassIsCompared`: a pass was compared or has
written its snapshot, and a run that does not pass has left the committed one
alone, unless its own write failed, which may tear it (`written` is "torn":
os.WriteFile truncates first). `FailHasCause`: a failure is someone's doing, the
package's, the host's or the user's (`blame`, a history variable that no action
reads); it does not say that the one blamed in the report is the right one.
`RunReturns`. 2 pages reach both "one more page" and "one too many".

**index_safety** (1 name, 2 versions, 2 architectures, 2 outcomes of a build, 2
dates). 2 builds make a rebuild that changes a digest, 2 architectures a version
published in parts. `PublishedStays`, `OnlyRetireDrops`, `BlobsServe`, and
`RepeatChangesNothing`: a dist whose tars are all listed merges again without a
change. `BlobsServe` is about tars and their architectures and does not look at
the manifest an entry carries. (The type invariants of this module, `StdioSession`, `SmokeStack`,
`EgressProxy` and `Publishing` are theorems and not part of a run.)

**egress_safety** (1 connection, 2 chunks from each end; 5 names: one written in
two forms, one declared without a port, one for port 80 alone, one not declared;
fair: the handler and the two copying goroutines run; nothing of the ends and of
the process). Connections share the log's lock and nothing else, so one shows
what each may do; 2 chunks make one that is dropped with the hijack and one that
is carried. `DialIsLogged`: no dial without its line in the log, at whatever
moment the proxy is removed. `EofIsHonest`: while the proxy runs, a half-close is
passed on after the data, never instead of it. The end of the process closes every
tunnel with whatever is left in it, and either end may take that for an EOF
(`Exit`); such a tunnel is excepted. `TunnelEnds`: a tunnel one end of which finishes or
vanishes is over in the end, if an end finishes once it sees EOF (`Polite`, in
the formula); with both ends open it may stay, which the code does not bound.

**publish_safety** (2 servers, 2 versions, 2 builds, 1 architecture, 3 triggers,
no fairness). 3 triggers are a run, one waiting, and one that displaces it. The
previous index is fetched after a concurrent run's push has ended because of the
group; a run may fail at each step, and a merge that would change a digest is
refused. That fetch-previous-index.sh tells a missing index from another error by
the words "not found" in oras's output is taken to be exact. `GhcrComplete`: what
GHCR's index lists is there, always. (That the site has what it lists is how
assemble-site.sh builds it and no property of its own.) `SiteBehind`: the site is never ahead of GHCR.
`NothingUnpublished`: no failure and no order of deployments takes a version back,
on GHCR or on the site, or gives it other digests or another date. `WholeIsListed`:
after a run that builds everything at main's tip, everything is listed. `CommandSpec`, a
refinement: however pushes, releases and failures fall, index:latest changes only
as by successive runs of `mcplib index` (`IndexCommand`), so that what is said of
that command over its own output is true of what is published.

**audit_safety** (MaxWaiverDays 1, days 0 to 2, 2 servers; fair: the workflow is
triggered again and again and its runs end). Most worlds have one recipe and one
day and put one question: every pair of versions from ladders of 9 npm and 9 PyPI
steps against every installed version, lists of up to 4 events in every order,
licence expressions of up to 7 tokens, lockfiles with entries that are not
shipped. The ladders hold what makes an order wrong (numeric against
alphanumeric pre-releases, 2 against 10, dev, post, epoch, padded zeros), 4
events are two branches. `VersionsInOrder`: the code's comparison orders each
ladder as its ecosystem does. `FixesAreNearest`: by that comparison, a finding
names the fix of the installed version's own branch as OSV defines it, with no
order of events and no walk; excepted are two events at one version (`Tied`), of
which the code takes the one listed first, and records that name another package
too. `LicenceIsRead`: the descent agrees with the
grammar. Two worlds of three days have waivers with every date, two advisories
of one CVE, advisories that change and two servers; with MaxWaiverDays 1 and
three days a waiver is granted, runs out, and is out. `PassIsJustified`: an audit
passes exactly when each blocking finding has a live waiver and each waiver such
a finding. `ExceptionEnds`: main lets nothing through by a waiver longer than
MaxWaiverDays after an audit looked at it, however late the merge.
`MainIsReadable`: the daily audit never refuses a merged recipe for its dates.
`AlwaysReported`: what blocks on main comes to stand in an open issue again and
again, whichever server's audit fails first.

**signing_safety** (3 keys, so two rotations, 1 blob, 1 gateway, no fairness).
Two rotations show a key that comes and goes. Blobs and gateways do not act on one
another: a blob matters to another only as a reason to refuse the site they are
both on, a gateway not at all, so one of each, anywhere in its own history,
shows what any may meet (the theorems are for any number; two of each, with two
keys, are in signing_siblings). A secret may be a wrong one. The edit that opens
the overlap may be done in any part (`HalfDone`): SIGNING_KEYS left as it was, or
a place that signs left with a step for one of the keys alone. A run may start
before, between and end after any of the maintainers' steps, and pushes over a
tag when the lookup fails. A gateway may never upgrade, and the overlap may be
closed while it has not. `IndexVerifies`: at every moment the deployed index
verifies for every gateway, but for one all of whose keys are older than each key
the index was signed with (`LeftOut`); nothing else, a wrong secret, a missing
step or a run that failed, leaves a gateway out. `BlobsVerify`: a blob verifies
for each gateway that holds the oldest key it was signed with, if the index names
that key, whether it was carried over, rebuilt or pushed over.

What is assumed of the maintainers, by docs/KEY-ROTATION.md, and enforced by
nothing: a rotation starts when the last is over and the gateway's release has one
key; the overlap is closed after a release with the new key, and after someone saw
an index of the workflow as it stands verify under the new key (`Republished`;
without it a wrong new secret, which the old key masks during the overlap, would
sign alone); no run from before the last edit is left at the close. The close
itself half done is refused (`CanSign`) and is a run that fails.

Runs that end in a violation, each a difference between the code and what is
said of it:

- **session_deadline**: `write` takes the lock and writes without looking at the
  context, so a call on a package that does not read its stdin outlives its
  deadline, until the package dies or Close is called.
- **publish_deployed**: every completed publish run starts a run in the pages
  group, a failed or cancelled one too, and that displaces a deployment waiting
  there.
- **signing_siblings** (2 keys): assemble-site.sh places what the run built with
  this run's signatures alone, so that a release after the overlap's close, which
  builds everything, takes the old key's siblings off the site;
  docs/KEY-ROTATION.md:48-50 says they are published for ever.

## Other differences found while modelling

These showed while modelling or in runs of earlier forms of the modules and are
not kept as runs:

- `netMade` is set when `docker network create` succeeded (container.go:419); one
  that fails after it took effect leaves a network that no Down removes, against
  container.go:379.
- `Shutdown` does not wait for hijacked connections, which all tunnels are
  (egressproxy.go:81), so the grace that egressproxy.go:19-20 gives them is not
  used, and the process's end closes them with data left to carry.
- A plain request for an https URI without a port is decided on and logged as port
  80 and dialled at 443 (proxy.go:261 against :50). `DialIsLogged` excepts it by
  name (`Portless`).
- A second waiver for a finding, by another of its ids, is reported as one that
  "matches no blocking finding", and when the first of them has expired the
  finding blocks though the second has not (audit.go:308, against
  docs/VETTING.md:121). `PassIsJustified` excepts it (`Shadowed`).
- The licence parser accepts "(" as the exception of a WITH (license.go:170,
  against :41-44). `LicenceIsRead` excepts it (`OpenException`).
- npm-shrinkwrap.json is looked for (audit.go:41) and ReadLock refuses it.
- OSV's `next_page_token` is not followed (osv.go:128-186).
- After an overlap's close, a run that carries over blobs of the old key alone is
  refused by the site's verification, when its index is on GHCR already; step 7 of
  docs/KEY-ROTATION.md says nothing of it. A run that builds everything gets
  through.
- With both keys in SIGNING_KEYS and a signing step for the old one alone, no
  unsuffixed `.sig` is written and the run is not refused (sign.go, against
  docs/KEY-ROTATION.md:37-40).
- With both keys in SIGNING_KEYS and a signing step for the new one alone, neither
  `mcplib sign` nor `mcplib verify` refuses (sign.go:47-62, verify.go:95), and
  gateways that hold the old key alone are left out; docs/KEY-ROTATION.md:37-40
  says a half-done edit fails in CI, and :21-22 that an old gateway keeps
  verifying throughout the overlap. `IndexVerifies` excepts it (`LeftOut`).
- During an overlap a wrong secret for one of the two keys passes the check before
  the push, since the first key that verifies is enough (verify.go:95, against
  publish.yml:218-221).
- Run calls Wait while the reader still reads stdout (smoke.go:204), and Wait
  closes the pipe; container.go:521 asks for the other order. `Reap` and
  `CallClosed` keep the outcome: an answer written before the exit may be lost.
- A `docker run` that lands after Down found no such container (container.go:599)
  leaves a created, never running, container (container.go:588 says every one is
  removed). `Landed` excludes this case from `CleanupHappens`.
- A package that exits by itself after settle has begun is shut down as if alive
  (smoke.go:230); smoke.go:209 says it must be alive until shutdown.
- A package that exits with 143 by itself after the grace, before docker stop, is
  taken for one that died of smoke's SIGTERM (smoke.go:624-633, against
  smoke.go:605-606).
- A snapshot's write that fails may leave the committed file truncated
  (smoke.go:587, os.WriteFile).
- A denied dial that the proxy has not logged when the log is read, or whose log
  write failed (proxy.go:162), does not fail the run; docs/CURATION.md:95-98 says
  a pass proves there was none.
- An interrupt reads as a failure of the package (smoke.go:449, against
  smoke.go:113).
- Retire forgets the digest, so a later publish of the same name@version may list
  another (index.go:324, against docs/INDEX-FORMAT.md:46-49).
- What a client sends right behind its CONNECT may stay in the reader that Hijack
  returns and serveConnect drops (proxy.go:209, against proxy.go:173-175); a
  client that waits for the 200 does not meet this. A tunnel lasts until both
  sides have closed, not "until either side closes" (proxy.go:174).
- A version built per architecture carries a rendered manifest that no tar holds
  (index.go:281, against docs/INDEX-FORMAT.md:38), and architectures added later
  are not in the manifest kept from before (merge.go:74, against
  index.go:252-253).
- A package's text is that of what was built last, not of the newest version
  (merge.go:47, against docs/INDEX-FORMAT.md:32).
- A push that waits in the publish group is cancelled by a later push whose
  matrix does not name its servers (publish.yml:37, against
  docs/PUBLISHING.md:54).
- A tag lookup that fails for any reason reads as "not there" and the tag is
  pushed over (publish-blobs.sh:27, against :8): the same bytes, with this run's
  signatures in place of those that were there.

## Proofs

The theorems hold for every value of the constants under the named assumptions
of each module (`SessionAssumption`: the goroutines are distinct and a pipe holds
a frame; `StackAssumption`: the proxy is no package; `IndexAssumption`,
`CommandAssumption`: the null values are none of the values, dates are naturals;
`ProxyAssumption`: the same of ports, and the allow list holds names and ports;
`AuditAssumption`: days are integers, a recipe's waivers and the tokens of its
licence sequences; `EvidenceAssumption`: the versions of a dependency and of the
records returned for it are of one ecosystem, or "0", or what its parser refuses;
`LicenceAssumption`: no licence is in both tables;
`SigningAssumption`: there is a first key; `RunAssumption`: tools/list may have a
page; `PublishingAssumption`: the null value is no request).

`StdioSession_proofs`. The properties are not inductive: that the channel is
empty when the reader sends rests on what happened to the call's entry before.
`IInv` follows a response on its only way to its call (`Registered` in pending,
`Claimed` by the reader, `Channelled`), and says that no two of these hold of one
call at once. From it: `TypeCorrect`, `ReaderNeverBlocked`, `OnlyOwnAnswer`,
`NoEntryLeaks`, `NobodyOrphaned`, `PromptAnswersWin`, and `ContractHolds`, the
refinement: initial states map to initial states, every step to a step of
`SessionContract` or a stutter.

`SmokeStack_proofs`. That a launched `docker run` cannot start its container
after a Down returned nil rests on the network being gone, which rests on the
order of Up and Down: `BeforeUp`, `BeforeStart`, `AfterUp`, `NetKnown`,
`NilMeansNoNet`. From it: `StackTypes`, `AllRecorded`, `NilDownStopsAll`.

`IndexCommand_proofs`. Lemmas say what `Generate`, `Merge` and `Retire` return
for well-formed arguments (`Sound`: typed, blobs serve, cards exist); `Sound` is
the inductive invariant. From it: `IndexTypes`, `BlobsServeAlways`,
`CardExistsAlways`, `RepeatIsHarmless`, and the action properties `DigestsStay`
and `RetireAloneDrops`.

`EgressProxy_proofs`. `DialIsLogged` rests on the decision a handler carries from
its log line to its dial (`Decided`). `EofIsHonest` rests on the copies: nothing
is carried before the hijack (`NotYet`), no more than was sent (`Counted`), and
an end is shown EOF only when the copy to it is over, or cut off with the process
(`FinIsLast`). From it:
`ProxyTypes`, `OnlyLoggedDials`, `EofsAreHonest`.

`Audit_proofs`. `ExceptionEnds` and `MainIsReadable` are about main, but what
bounds a waiver was judged when a pull request was checked. `IInv` carries that
day from the check to main (`PullDated`, `MainDated`): whatever passed satisfies
`checkWaiverDates` of the day it was checked, and days only pass. From it:
`ExceptionsEnd`, `MainStaysReadable`. `PassesAreJustified` is an action property
and in essence a fact about `vulnFindings`: a finding some waiver matches has a
first one (`FirstDecides`, by the well-foundedness of the naturals), and what
leaves no blocking line (`NothingBlocks`, `PassIs`) is what `Justified` says
without speaking of an order.

The same module proves what the audit computes, for inputs of any length. These
are inductions over data, for which no induction theorem of the library can be
cited; they are done with sets of naturals and a least counterexample
(`HasLeast`, `UpToBound`, `ByLesser`, `ByRank`). A recursive function is a CHOOSE
in TLA+, so before anything can be said of one, a function that satisfies its
equation is shown to exist (`RecursionExists` for the sort and the walk,
`FixpointExists` for the descent and the grammar).

- *Versions.* `VersionsAreOrdered`: `compareVersion` is a total preorder on the
  parsed versions of an ecosystem. The hard parts are sequences of different
  length, compared as if padded (`PreIsPadded`, `ReleaseIsPadded`), and that a
  lexical comparison orders if each place does (`LexicalComposes`).
- *Fixes.* `RangeFixesAreNearest`: the sort returns the same events in ascending
  order (`SortIs`), and the walk keeps an invariant over the events it has passed
  (`WalkHolds`: whether the installed version is affected so far, and which fix
  is the next above it), which at the end is OSV's definition. With the invariant
  `Evidence` (what OSV holds and what is offered comes from the world) it gives
  `FindingsNameNearestFix`.
- *Licences.* `LicenceMeansWhatSPDXSays`: the descent and the grammar are two
  recursions over the same tokens. `Completeness`, by induction on the tokens
  derived from: what a rule derives, the descent reads, if no operator of a
  tighter rule follows (`Complete`), and reads on through the rest of a chain
  (`Extends`). `Soundness`, by induction on how far the calls are from the
  deepest: what is read is derived. The descent of the model joins a chain from
  the right, the loops of the code and the grammar from the left;
  `MeaningGroups` and `Prepend` are why that is the same. It gives
  `LicencesAreRead`.

`SmokeRun_proofs`. The package's end shows in three places that the model lets
change independently, and the verdict is about what Run took from each. `InOrder`
says where Run is when it has asked the package to go, called docker stop or
signalled it, `ExitFits` that what docker reported is the package's own status.
`CleanExit` then carries the clean exit from the select that took it
to the verdict. `Caused` has a clause for everything that may come to be called a
failure; the hard one is that until Run has asked, any sign of an end is one.
`Snapped` says that a full run past tools/list without a failure has its snapshot.
From them: `SmokeRunTypes`, `PassedCleanly`, `PassedCompared`, `FailedWithCause`.
They need no fairness, which only `RunReturns` does.

`Publishing_proofs`. `GhcrComplete` and `SiteBehind` are about single states, but the push of an index is decided by a merge some steps before it. What makes
that merge still right is the concurrency group: the index a run merged into is
the one its push replaces (`RunFits`, `PushFits`), and the pages' artifact is of an
index that was on GHCR (`PagesFit`). With the lemmas on `Generate` and `Merge` this
gives `PublishingTypes`, `GhcrAlwaysComplete`, `SiteNeverAhead`,
`WholeBuildListsMain`, the action property `NothingIsUnpublished` (`Keeps`, what an
index keeps of another, composes, so a site that waits keeps what the one before it
lists), and the refinement `PublishingRunsTheCommand`: the step that pushes the
index is a `Publish` of what the run built, or a stutter, and every other step a
stutter.

`Signing_proofs`. `Current` is the newest key whose secret is sure to be right: the
newest, or, while the rotation to it is open, the one before. `IInv` says how each
part relates to it: each release has a key no newer and leaves no gap (`HeldFits`);
the site's index has a good signature by a key no older (`SiteFits`), and so will
what the run under way deploys (`RunFits`), which may have been started under an
earlier configuration. A gateway that is not left out then holds the key of a good
signature: only the newest named key's may be bad. The hard step is the close,
where `Current` changes: by then the site verified under the new key, so its secret
is right, and a run started during the overlap signed with it too (`RunFollows`).
From it: `AlwaysVerifies`. `BlobsAlwaysVerify` rests on the check before the push:
of what a run signed, only the newest named key's signature may be by a wrong
secret, so if anything in it verified, the oldest key's signature is good
(`OldestGood`), and it stays good on GHCR, carried over or pushed over (`BlobsFit`).

Only model-checked: the liveness properties (`CallsReturn`, `RequestsAnswered`,
`CloseUnblocks`, `StdoutDrains`, `CleanupHappens`, `RunReturns`, `TunnelEnds`,
`AlwaysReported`), for which TLAPS has no rule of fairness here; and
`VersionsInOrder`, which is about the ladders of the instance: that the
comparison is an order is proved, that it is npm's, Go's or PyPI's order is what
the ladders show.

## Left out

Of the modelled parts: JSON, the wording of failures, docker's arguments, the
order of an index. A frame enters a pipe whole. Of signing: PEM, base64 and ECDSA
(a signature verifies under the key that made it and no other), the rehearsal
with the fixture. Of the audit: the CVSS formula (a vector is its band), the text
of the report, `--resolve` and the registries it asks (their licences are the
lockfile's), the scan for binaries, batches and retries of the OSV client.

Not modelled: the HTTP session's SSE body and its DELETE (one request at a time,
without shared state; `SmokeRun` has their outcomes); the build and the tar writer
(a straight line over a fresh directory; a crash between the tar's rename and its
sidecars, tar.go:233-238, is met only by a developer's own dist, since a publish
run starts from an empty one); the field checks of documents and the site's HTML
(no state, covered by table tests); release tags and assets. "components" in
`PROJECT.json` has the rest.

## Plan

Done: the session and its contract; the stack and the run; the index over
successive runs; publishing under failure; the proxy; key rotation; the audit's
verdict and what it rests on.

Proved: every safety invariant, action property and refinement of the passing runs,
but the one about the instance's ladders.

Left: `PackWrite`, the tar and its sidecars across a crash, with the readers of a
developer's dist; `HttpSession`, the SSE body and the DELETE.
