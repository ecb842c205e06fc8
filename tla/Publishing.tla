----------------------------- MODULE Publishing -----------------------------
(***************************************************************************)
(* Publishing (publish.yml, pages.yml and the scripts they run): pushes    *)
(* and releases trigger runs of the publish workflow, of which one runs    *)
(* and one waits; a run builds the servers its matrix names, merges them   *)
(* into the index fetched from GHCR, pushes blobs and then the index to    *)
(* GHCR, and assembles the site that a second workflow deploys to Pages.   *)
(* A run may fail at any step, and what it did until then stays done.      *)
(*                                                                         *)
(* Signatures, the release's own tag and asset, and the verification of    *)
(* the exact bytes a run has just made are left out.                       *)
(***************************************************************************)
EXTENDS LibraryIndex

CONSTANTS
  Native,       \* servers built to one tar per architecture
  MaxTriggers,  \* bound on pushes and releases
  None,         \* no run
  Skipped       \* a run of the pages workflow that deploys nothing

(* What a commit says of a server: its version, and the bytes it builds to.  *)
Recipes == [version : Versions, build : Builds]
Trees   == [Names -> Recipes]

(* The digests of an index, and of a dist.                                   *)
Digest(s, t) == <<s, t>>
Listed(idx)  == {d \in Slots \X Tars : \E a \in Arches : Blob(idx, d[1], a) = d[2]}
Packed(dist) == {Digest(Slot(m), m.tar) : m \in dist}

(* The metas of every leg of the matrix for servers ns at a commit.          *)
Dist(ns, tree) ==
  {m \in Metas :
     /\ m.name \in ns
     /\ m.version = tree[m.name].version
     /\ m.tar.build = tree[m.name].build
     /\ IF m.name \in Native THEN \E a \in Arches : m.tar.archs = {a}
                             ELSE m.tar.archs = Arches}

Requests == [names : SUBSET Names, tree : Trees]

ASSUME PublishingAssumption ==
  /\ MaxTriggers \in Nat
  /\ Native \subseteq Names
  /\ None \notin Requests

VARIABLES
  tree,       \* main
  triggers,   \* pushes and releases so far
  \* the publish group: the run under way and the step it is at, the run
  \* waiting, and what the run has: its dist, the index fetched, its own,
  \* and the digests it has yet to look up and push
  run, step, waiting, dist, prev, index, todo,
  \* GHCR: blob tags and index:latest
  blobs, latest,
  \* the pages group and the deployed site
  deploying, deployNext, site,
  \* history: a deployment failed; the digests successful runs built; main
  \* was built whole as it stands
  failed, built, whole

group  == <<run, step, waiting, dist, prev, index, todo>>
ghcr   == <<blobs, latest>>
pages  == <<deploying, deployNext, site>>
hist   == <<failed, built, whole>>
vars   == <<tree, triggers, group, ghcr, pages, hist>>

NoSite == [index |-> Empty, blobs |-> {}]

Init ==
  /\ tree \in Trees /\ triggers = 0
  /\ run = None /\ step = "idle" /\ waiting = None
  /\ dist = {} /\ prev = Empty /\ index = Empty /\ todo = {}
  /\ blobs = {} /\ latest = Empty
  /\ deploying = None /\ deployNext = None /\ site = NoSite
  /\ failed = FALSE /\ built = {} /\ whole = FALSE

-----------------------------------------------------------------------------
(* A run of publish that completes, whatever its outcome, starts one of      *)
(* pages (pages.yml:13-25): at once, or in place of the one that waits.      *)
Completed(new) ==
  IF deploying = None THEN deploying' = new /\ UNCHANGED deployNext
                      ELSE deployNext' = new /\ UNCHANGED deploying

(* The group's concurrency: a run that comes while another is under way      *)
(* waits, in place of the one that waited, which is cancelled.               *)
Trigger(req) ==
  /\ triggers < MaxTriggers /\ triggers' = triggers + 1
  /\ IF run = None THEN run' = req /\ step' = "build" /\ UNCHANGED waiting
                   ELSE waiting' = req /\ UNCHANGED <<run, step>>
  /\ IF waiting = None THEN UNCHANGED <<deploying, deployNext>> ELSE Completed(Skipped)
  /\ UNCHANGED <<dist, prev, index, todo, ghcr, site, failed, built>>

(* A push changes one server, or the build image and with it any of them,    *)
(* or none (keys, the tool itself); its matrix names those and no others.    *)
Push(ns, new) ==
  /\ \A n \in Names \ ns : new[n] = tree[n]
  /\ tree' = new /\ whole' = FALSE
  /\ Trigger([names |-> ns, tree |-> new])

(* A release or a manual run builds everything.                              *)
Release ==
  /\ Trigger([names |-> Names, tree |-> tree])
  /\ UNCHANGED <<tree, whole>>

(* A run is over, and the one that waited begins.                            *)
Leave ==
  /\ run' = waiting /\ waiting' = None
  /\ step' = IF waiting = None THEN "idle" ELSE "build"
  /\ dist' = {} /\ prev' = Empty /\ index' = Empty /\ todo' = {}

-----------------------------------------------------------------------------
(* The steps of a run.                                                       *)

(* Mutant of Build: what is built is main's tip at the time of the build. *)
BuildTip ==
  /\ step = "build" /\ step' = "fetch"
  /\ dist' = Dist(run.names, tree)
  /\ UNCHANGED <<tree, triggers, run, waiting, prev, index, todo, ghcr, pages, hist>>

Build ==
  /\ step = "build" /\ step' = "fetch"
  /\ dist' = Dist(run.names, run.tree)
  /\ UNCHANGED <<tree, triggers, run, waiting, prev, index, todo, ghcr, pages, hist>>

(* Mutant of Fetch: any error reads as a first publish. *)
FetchOrEmpty ==
  /\ step = "fetch" /\ step' = "merge"
  /\ prev' \in {latest, Empty}
  /\ UNCHANGED <<tree, triggers, run, waiting, dist, index, todo, ghcr, pages, hist>>

(* index:latest, or the empty index if there is none; any other error fails. *)
(* The script tells the two apart by "not found" in oras's output, which is  *)
(* taken here to be exact.                                                   *)
Fetch ==
  /\ step = "fetch" /\ step' = "merge"
  /\ prev' = latest
  /\ UNCHANGED <<tree, triggers, run, waiting, dist, index, todo, ghcr, pages, hist>>

MergeIndex ==
  /\ step = "merge" /\ step' = "blobs"
  /\ BuildsAgree(dist) /\ MergeAllowed(prev, Generate(dist, triggers))
  /\ index' = Merge(prev, Generate(dist, triggers))
  /\ todo' = Packed(dist)
  /\ UNCHANGED <<tree, triggers, run, waiting, dist, prev, ghcr, pages, hist>>

(* Each tar of the dist in turn.  A tag that is there is skipped, but the    *)
(* lookup's own failure reads as a tag that is not there (publish-blobs.sh:  *)
(* 27), and the same bytes are pushed to it again: no difference here.       *)
PushBlob(d) ==
  /\ step = "blobs" /\ d \in todo /\ todo' = todo \ {d}
  /\ blobs' = blobs \union {d}
  /\ UNCHANGED <<tree, triggers, run, step, waiting, dist, prev, index, latest, pages, hist>>

(* Mutant of PushIndex: it does not wait for the blobs. *)
PushIndexAtOnce ==
  /\ step = "blobs" /\ step' = "site"
  /\ latest' = index
  /\ UNCHANGED <<tree, triggers, run, waiting, dist, prev, index, todo, blobs, pages, hist>>

PushIndex ==
  /\ step = "blobs" /\ todo = {} /\ step' = "site"
  /\ latest' = index
  /\ UNCHANGED <<tree, triggers, run, waiting, dist, prev, index, todo, blobs, pages, hist>>

Succeed ==
  /\ built' = built \union Packed(dist)
  /\ whole' = (whole \/ (run.names = Names /\ run.tree = tree))
  /\ Leave
  /\ UNCHANGED <<tree, triggers, ghcr, site, failed>>

(* Mutant of Assemble: the site does not wait for the index's push. *)
AssembleUnpushed ==
  /\ step \in {"blobs", "site"}
  /\ Listed(index) \subseteq Packed(dist) \union blobs
  /\ Completed([index |-> index, blobs |-> Packed(dist) \union Listed(index)])
  /\ Succeed

(* The site holds what the run built and, carried over from GHCR, every      *)
(* other blob its index lists.  With the artifact uploaded the run succeeds, *)
(* and its success triggers a deployment.                                    *)
Assemble ==
  /\ step = "site"
  /\ Listed(index) \subseteq Packed(dist) \union blobs
  /\ Completed([index |-> index, blobs |-> Packed(dist) \union Listed(index)])
  /\ Succeed

(* A step fails, or refuses: a leg of the matrix, the merge, a push, the     *)
(* site's budget.                                                            *)
RunFails ==
  /\ run # None
  /\ Completed(Skipped)
  /\ Leave
  /\ UNCHANGED <<tree, triggers, ghcr, site, hist>>

-----------------------------------------------------------------------------
(* pages.yml: the deployment under way replaces the whole site, or fails;    *)
(* without a successful run of publish there is none.                        *)
Deploy ==
  /\ deploying # None
  /\ \/ deploying # Skipped /\ site' = deploying /\ UNCHANGED failed
     \/ deploying # Skipped /\ failed' = TRUE /\ UNCHANGED site
     \/ deploying = Skipped /\ UNCHANGED <<site, failed>>
  /\ deploying' = deployNext /\ deployNext' = None
  /\ UNCHANGED <<tree, triggers, group, ghcr, built, whole>>

-----------------------------------------------------------------------------
RunStep == Build \/ Fetch \/ MergeIndex \/ (\E d \in todo : PushBlob(d))
             \/ PushIndex \/ Assemble

Next ==
  \/ \E new \in Trees : \E ns \in {{n} : n \in Names} \union {{}, Names} : Push(ns, new)
  \/ Release
  \/ RunStep \/ RunFails
  \/ Deploy

Spec == Init /\ [][Next]_vars

-----------------------------------------------------------------------------
Digests == Slots \X Tars
Sites   == [index : Indexes, blobs : SUBSET Digests]

TypeOK ==
  /\ tree \in Trees /\ triggers \in 0 .. MaxTriggers
  /\ run \in Requests \union {None} /\ waiting \in Requests \union {None}
  /\ step \in {"idle", "build", "fetch", "merge", "blobs", "site"}
  /\ dist \subseteq Metas /\ prev \in Indexes /\ index \in Indexes
  /\ todo \subseteq Digests /\ blobs \subseteq Digests /\ latest \in Indexes
  /\ {deploying, deployNext} \subseteq Sites \union {None, Skipped}
  /\ site \in Sites
  /\ failed \in BOOLEAN /\ whole \in BOOLEAN
  /\ built \subseteq Digests

(* Every blob GHCR's index lists is on GHCR, at every moment and after any   *)
(* failure: blobs go first (publish-blobs.sh:24-56).                         *)
GhcrComplete == Listed(latest) \subseteq blobs

(* The site never lists what GHCR's index does not: a failed run may leave   *)
(* the site behind, never ahead.                                             *)
SiteBehind == Listed(site.index) \subseteq Listed(latest)

(* What one index lists, another lists under the same digests and with the   *)
(* same date.                                                                *)
Keeps(old, new) ==
  \A s \in Slots : Lists(old, s) =>
    /\ Lists(new, s)
    /\ new.version[s].at = old.version[s].at
    /\ \A a \in Arches : Blob(old, s, a) # NoTar => Blob(new, s, a) = Blob(old, s, a)

(* What GHCR's index once listed it lists for ever, under the same digests   *)
(* and with the same date, and so does the site: no failure, no order of     *)
(* runs and of deployments takes a published version back or replaces it     *)
(* (fetch-previous-index.sh:2-6, merge.go:8-17).                             *)
NothingUnpublished ==
  [][Keeps(latest, latest') /\ Keeps(site.index, site'.index)]_vars

(* index:latest goes through a series of runs of mcplib index, each merging  *)
(* a dist it accepts into what the run before it published: two runs of the  *)
(* workflow never merge into the same index, though each fetches, merges and *)
(* pushes in steps of its own (publish.yml:37, fetch-previous-index.sh).     *)
Command == INSTANCE IndexCommand WITH index <- latest, MaxAt <- MaxTriggers

CommandSpec == Command!Spec

(* After a release or manual run of main as it stands, every server is       *)
(* listed as main has it, whatever earlier runs dropped                      *)
(* (publish-matrix.sh:6-8).                                                  *)
WholeIsListed == whole => Packed(Dist(Names, tree)) \subseteq Listed(latest)

Quiet == run = None /\ deploying = None

(* "this deploys the moment it can" (pages.yml:10): when all is quiet and no  *)
(* deployment has failed, the site lists what successful runs built, though  *)
(* a later run failed.                                                       *)
BuiltIsDeployed == Quiet /\ ~failed => built \subseteq Listed(site.index)

=============================================================================
