-------------------------- MODULE Publishing_proofs --------------------------
(* Proofs about publishing, for any servers, versions, architectures and   *)
(* builds, and any number of pushes and releases.                          *)
EXTENDS Publishing, TLAPS

-----------------------------------------------------------------------------
(* What an index lists of a dist, and what merging does to it.             *)

LEMMA AbsentTyped == Absent \in Entries
BY DEF Absent, Entries, Dates

LEMMA ListedIs ==
  ASSUME NEW idx, NEW s \in Slots, NEW t \in Tars
  PROVE  <<s, t>> \in Listed(idx) <=> \E a \in Arches : Blob(idx, s, a) = t
BY DEF Listed

LEMMA PackedTyped ==
  ASSUME NEW d \in SUBSET Metas
  PROVE  /\ Packed(d) \subseteq Digests
         /\ \A m \in d : Slot(m) \in Slots /\ m.tar \in Tars
BY DEF Packed, Digest, Digests, Slot, Slots, Metas

(* A blob Generate lists for a slot is the tar of a meta of the dist. *)
LEMMA GenerateBlob ==
  ASSUME NEW d \in SUBSET Metas, NEW at \in Nat, NEW s \in Slots, NEW a \in Arches
  PROVE  \/ Blob(Generate(d, at), s, a) = NoTar
         \/ \E m \in d : Slot(m) = s /\ Blob(Generate(d, at), s, a) = m.tar
<1>1. CASE ~ \E m \in d : Slot(m) = s
  BY <1>1 DEF Blob, Generate, Absent
<1>2. CASE \E m \in d : Slot(m) = s
  <2>1. Blob(Generate(d, at), s, a)
          = IF Built(d, s, a) = {} THEN NoTar
            ELSE (CHOOSE m \in Built(d, s, a) : TRUE).tar
    BY <1>2 DEF Blob, Generate, VersionFrom
  <2>2. ASSUME Built(d, s, a) # {}
        PROVE  \E m \in d : /\ Slot(m) = s
                            /\ (CHOOSE k \in Built(d, s, a) : TRUE).tar = m.tar
    BY <2>2 DEF Built
  <2>. QED
    BY <2>1, <2>2
<1>. QED
  BY <1>1, <1>2

(* If the builds agree, every tar of the dist is listed. *)
LEMMA GenerateListsAll ==
  ASSUME NEW d \in SUBSET Metas, BuildsAgree(d), NEW at \in Nat, NEW m \in d
  PROVE  \E a \in Arches : Blob(Generate(d, at), Slot(m), a) = m.tar
<1>1. Slot(m) \in Slots /\ m.tar \in Tars
  BY PackedTyped
<1>2. PICK a \in Arches : a \in m.tar.archs
  BY <1>1 DEF Tars
<1>3. m \in Built(d, Slot(m), a)
  BY <1>2 DEF Built
<1>4. Blob(Generate(d, at), Slot(m), a) = (CHOOSE k \in Built(d, Slot(m), a) : TRUE).tar
  BY <1>1, <1>3 DEF Blob, Generate, VersionFrom
<1>5. (CHOOSE k \in Built(d, Slot(m), a) : TRUE).tar = m.tar
  BY <1>1, <1>3 DEF BuildsAgree
<1>. QED
  BY <1>4, <1>5

LEMMA GenerateTyped ==
  ASSUME NEW d \in SUBSET Metas, NEW at \in Nat
  PROVE  Generate(d, at) \in Indexes
<1>. DEFINE idx == Generate(d, at)
<1>1. ASSUME NEW s \in Slots PROVE idx.version[s] \in Entries
  <2>1. CASE ~ \E m \in d : Slot(m) = s
    BY <2>1, AbsentTyped DEF Generate
  <2>2. CASE \E m \in d : Slot(m) = s
    <3>1. idx.version[s] = VersionFrom(d, s, at)
      BY <2>2 DEF Generate
    <3>2. ASSUME NEW a \in Arches PROVE VersionFrom(d, s, at).blob[a] \in Tars \union {NoTar}
      BY <3>1, GenerateBlob, PackedTyped DEF Blob
    <3>. QED
      BY <3>1, <3>2 DEF VersionFrom, Entries, Dates
  <2>. QED
    BY <2>1, <2>2
<1>2. ASSUME NEW n \in Names PROVE idx.card[n] \in Versions \union {NoVersion}
  BY DEF Generate, Metas
<1>. QED
  BY <1>1, <1>2 DEF Indexes, Generate

(* A merge keeps each blob there was and adds those of the new index.      *)
LEMMA MergeBlob ==
  ASSUME NEW old \in Indexes, NEW new \in Indexes, NEW s \in Slots, NEW a \in Arches
  PROVE  Blob(Merge(old, new), s, a)
           = IF Blob(old, s, a) = NoTar THEN Blob(new, s, a) ELSE Blob(old, s, a)
<1>1. old.version[s] \in Entries /\ new.version[s] \in Entries
  BY DEF Indexes
<1>2. ~Lists(old, s) => Blob(old, s, a) = NoTar
  BY DEF Lists, Blob, Absent
<1>3. ~Lists(new, s) => Blob(new, s, a) = NoTar
  BY DEF Lists, Blob, Absent
<1>4. CASE ~Lists(old, s)
  BY <1>2, <1>4 DEF Merge, Blob
<1>5. CASE Lists(old, s) /\ ~Lists(new, s)
  BY <1>3, <1>5 DEF Merge, Blob
<1>6. CASE Lists(old, s) /\ Lists(new, s)
  <2>1. Merge(old, new).version[s] = MergeVersion(old.version[s], new.version[s])
    BY <1>6 DEF Merge
  <2>. QED
    BY <1>1, <2>1 DEF MergeVersion, Blob, Entries
<1>. QED
  BY <1>4, <1>5, <1>6

LEMMA MergeTyped ==
  ASSUME NEW old \in Indexes, NEW new \in Indexes
  PROVE  Merge(old, new) \in Indexes
<1>1. ASSUME NEW s \in Slots PROVE Merge(old, new).version[s] \in Entries
  <2>1. old.version[s] \in Entries /\ new.version[s] \in Entries
    BY DEF Indexes
  <2>2. MergeVersion(old.version[s], new.version[s]) \in Entries
    BY <2>1 DEF MergeVersion, Entries
  <2>. QED
    BY <2>1, <2>2 DEF Merge
<1>2. ASSUME NEW n \in Names PROVE Merge(old, new).card[n] \in Versions \union {NoVersion}
  BY DEF Merge, Indexes
<1>. QED
  BY <1>1, <1>2 DEF Merge, Indexes

(* One index keeping what another lists.                                   *)

LEMMA KeepsSelf == ASSUME NEW x PROVE Keeps(x, x)
BY DEF Keeps

LEMMA KeepsTrans ==
  ASSUME NEW x, NEW y, NEW z, Keeps(x, y), Keeps(y, z)
  PROVE  Keeps(x, z)
BY DEF Keeps

LEMMA KeepsListed ==
  ASSUME NEW x \in Indexes, NEW y, Keeps(x, y)
  PROVE  Listed(x) \subseteq Listed(y)
<1>1. ASSUME NEW s \in Slots, NEW t \in Tars, <<s, t>> \in Listed(x)
      PROVE  <<s, t>> \in Listed(y)
  <2>1. PICK a \in Arches : Blob(x, s, a) = t
    BY <1>1, ListedIs
  <2>2. Lists(x, s)
    BY <2>1, IndexAssumption DEF Lists, Blob, Absent
  <2>3. Blob(y, s, a) = t
    BY <2>1, <2>2, IndexAssumption DEF Keeps
  <2>. QED
    BY <2>3, ListedIs
<1>. QED
  BY <1>1 DEF Listed

(* A merge drops no version and moves no date. *)
LEMMA MergeKeeps ==
  ASSUME NEW old \in Indexes, NEW new \in Indexes
  PROVE  Keeps(old, Merge(old, new))
<1>. DEFINE merged == Merge(old, new)
<1>1. SUFFICES ASSUME NEW s \in Slots, Lists(old, s)
               PROVE  Lists(merged, s) /\ merged.version[s].at = old.version[s].at
  BY <1>1, MergeBlob DEF Keeps
<1>2. old.version[s] \in Entries
  BY DEF Indexes
<1>3. CASE ~Lists(new, s)
  BY <1>1, <1>3 DEF Merge, Lists
<1>4. CASE Lists(new, s)
  <2>1. merged.version[s] = MergeVersion(old.version[s], new.version[s])
    BY <1>1, <1>4 DEF Merge
  <2>2. /\ merged.version[s].at = old.version[s].at
        /\ merged.version[s].arch = old.version[s].arch
    BY <1>2, <2>1 DEF MergeVersion, Entries
  <2>3. ASSUME merged.version[s] = Absent PROVE FALSE
    <3>1. \A a \in Arches : old.version[s].blob[a] = NoTar
      BY <2>3, MergeBlob DEF Blob, Absent
    <3>2. old.version[s].blob = [a \in Arches |-> NoTar]
      BY <1>2, <3>1 DEF Entries
    <3>3. old.version[s].at = 0 /\ old.version[s].arch = {}
      BY <2>2, <2>3 DEF Absent
    <3>4. old.version[s] = Absent
      BY <1>2, <3>2, <3>3 DEF Entries, Absent
    <3>. QED
      BY <1>1, <3>4 DEF Lists
  <2>. QED
    BY <2>2, <2>3 DEF Lists
<1>. QED
  BY <1>3, <1>4

(* Merging a dist into an index keeps what it has, and lists what either   *)
(* has and nothing else.                                                   *)
LEMMA MergeOfDist ==
  ASSUME NEW old \in Indexes, NEW d \in SUBSET Metas, BuildsAgree(d), NEW at \in Nat,
         MergeAllowed(old, Generate(d, at))
  PROVE  /\ Merge(old, Generate(d, at)) \in Indexes
         /\ Keeps(old, Merge(old, Generate(d, at)))
         /\ Listed(Merge(old, Generate(d, at))) = Listed(old) \union Packed(d)
<1>. DEFINE new == Generate(d, at)
            merged == Merge(old, new)
<1>1. new \in Indexes /\ merged \in Indexes
  BY GenerateTyped, MergeTyped
<1>2. ASSUME NEW s \in Slots, NEW t \in Tars, <<s, t>> \in Listed(merged)
      PROVE  <<s, t>> \in Listed(old) \union Packed(d)
  <2>1. PICK a \in Arches : Blob(merged, s, a) = t
    BY <1>2, ListedIs
  <2>2. CASE Blob(old, s, a) # NoTar
    BY <1>1, <2>1, <2>2, MergeBlob, ListedIs
  <2>3. CASE Blob(old, s, a) = NoTar
    <3>1. Blob(new, s, a) = t
      BY <1>1, <2>1, <2>3, MergeBlob
    <3>2. PICK m \in d : Slot(m) = s /\ m.tar = t
      BY <3>1, GenerateBlob, IndexAssumption
    <3>. QED
      BY <3>2 DEF Packed, Digest
  <2>. QED
    BY <2>2, <2>3
<1>3. Keeps(old, merged)
  BY <1>1, MergeKeeps
<1>4. ASSUME NEW m \in d PROVE <<Slot(m), m.tar>> \in Listed(merged)
  <2>1. Slot(m) \in Slots /\ m.tar \in Tars
    BY PackedTyped
  <2>2. PICK a \in Arches : Blob(new, Slot(m), a) = m.tar
    BY GenerateListsAll
  <2>3. Blob(old, Slot(m), a) # NoTar => Blob(old, Slot(m), a) = m.tar
    BY <2>1, <2>2, IndexAssumption DEF MergeAllowed
  <2>4. Blob(merged, Slot(m), a) = m.tar
    BY <1>1, <2>1, <2>2, <2>3, MergeBlob
  <2>. QED
    BY <2>1, <2>4, ListedIs
<1>5. Listed(merged) \subseteq Listed(old) \union Packed(d)
  BY <1>2 DEF Listed
<1>6. Listed(old) \subseteq Listed(merged)
  BY <1>3, KeepsListed
<1>7. Packed(d) \subseteq Listed(merged)
  BY <1>4 DEF Packed, Digest
<1>. QED
  BY <1>1, <1>3, <1>5, <1>6, <1>7

(* What a run builds is a dist mcplib index accepts, if the builds agree.  *)
LEMMA DistTyped ==
  ASSUME NEW ns, NEW t
  PROVE  Dist(ns, t) \in SUBSET Metas /\ IsDist(Dist(ns, t))
BY DEF Dist, IsDist

-----------------------------------------------------------------------------
(* The inductive invariant.  index:latest moves only when the run that     *)
(* fetched it pushes, since no other run is under way; so what a run       *)
(* merged into is still what it replaces.                                  *)

(* The index of a run under way is a merge of its dist into old. *)
MergedInto(old) ==
  \E at \in 1 .. MaxTriggers :
    /\ MergeAllowed(old, Generate(dist, at))
    /\ index = Merge(old, Generate(dist, at))

RunFits ==
  /\ step = "idle" <=> run = None
  /\ run # None => triggers \in 1 .. MaxTriggers
  /\ step \in {"fetch", "merge", "blobs", "site"} => dist = Dist(run.names, run.tree)
  /\ step \in {"merge", "blobs"} => prev = latest
  /\ step = "blobs" => BuildsAgree(dist) /\ MergedInto(latest)
  /\ step = "site" => index = latest

(* Blobs go first. *)
PushFits ==
  /\ step = "blobs" => Packed(dist) \subseteq todo \union blobs
  /\ step = "site" => Packed(dist) \subseteq Listed(latest)

(* What a site that is deployed, or is to be, lists, GHCR's index keeps.   *)
SiteFits(x) == Keeps(x.index, latest)

Real(x) == x \notin {None, Skipped}

(* A later deployment keeps what an earlier one lists. *)
Follows(x, y) == Keeps(x.index, y.index)

PagesFit ==
  /\ deploying = None => deployNext = None
  /\ SiteFits(site)
  /\ Real(deploying)  => SiteFits(deploying)  /\ Follows(site, deploying)
  /\ Real(deployNext) => SiteFits(deployNext) /\ Follows(site, deployNext)
  /\ Real(deploying) /\ Real(deployNext) => Follows(deploying, deployNext)

IInv ==
  /\ TypeOK /\ RunFits /\ PushFits /\ PagesFit
  /\ GhcrComplete /\ WholeIsListed

LEMMA EmptyTyped == Empty \in Indexes /\ Listed(Empty) = {} /\ Keeps(Empty, Empty)
<1>1. Empty \in Indexes
  BY AbsentTyped DEF Empty, Indexes
<1>2. ASSUME NEW s \in Slots, NEW t \in Tars PROVE <<s, t>> \notin Listed(Empty)
  BY ListedIs, IndexAssumption DEF Empty, Blob, Absent
<1>. QED
  BY <1>1, <1>2, KeepsSelf DEF Listed

LEMMA InitIInv == Init => IInv
<1>. SUFFICES ASSUME Init PROVE IInv
  OBVIOUS
<1>1. TypeOK
  <2>1. site \in Sites
    BY EmptyTyped DEF Init, Sites, NoSite
  <2>2. triggers \in 0 .. MaxTriggers
    BY PublishingAssumption DEF Init
  <2>. QED
    BY <2>1, <2>2, EmptyTyped DEF Init, TypeOK
<1>2. RunFits /\ PushFits
  BY DEF Init, RunFits, PushFits
<1>3. PagesFit
  BY EmptyTyped DEF Init, PagesFit, Real, SiteFits, NoSite
<1>4. GhcrComplete /\ WholeIsListed
  BY EmptyTyped DEF Init, GhcrComplete, WholeIsListed
<1>. QED
  BY <1>1, <1>2, <1>3, <1>4 DEF IInv

(* A completed run queues a deployment that keeps all GHCR's index lists,  *)
(* or one that deploys nothing.                                            *)
LEMMA CompletedFits ==
  ASSUME TypeOK, PagesFit, NEW new, Completed(new), UNCHANGED <<site, latest>>,
         new = Skipped \/ (new \in Sites /\ Keeps(latest, new.index) /\ SiteFits(new))
  PROVE  PagesFit' /\ {deploying, deployNext}' \subseteq Sites \union {None, Skipped}
<1>. DEFINE Fits(x) == SiteFits(x) /\ Follows(site, x)
<1>1. Real(new) => Fits(new) /\ \A x : SiteFits(x) => Follows(x, new)
  BY KeepsTrans DEF Real, SiteFits, Follows, PagesFit
<1>2. \A x : SiteFits(x)' <=> SiteFits(x)
  BY DEF SiteFits
<1>3. CASE deploying = None
  <2>1. deploying' = new /\ deployNext' = None /\ site' = site
    BY <1>3 DEF Completed, PagesFit
  <2>. QED
    BY <1>1, <1>2, <2>1 DEF PagesFit, Real, Follows, TypeOK
<1>4. CASE deploying # None
  <2>1. deploying' = deploying /\ deployNext' = new /\ site' = site
    BY <1>4 DEF Completed
  <2>. QED
    BY <1>1, <1>2, <1>4, <2>1 DEF PagesFit, Real, Follows, TypeOK
<1>. QED
  BY <1>3, <1>4

LEMMA StepTrigger ==
  ASSUME IInv, NEW req \in Requests, Trigger(req),
         tree' \in Trees, whole' \in BOOLEAN, whole' => whole /\ tree' = tree
  PROVE  IInv'
<1>1. /\ triggers' = triggers + 1 /\ triggers' \in 1 .. MaxTriggers
      /\ UNCHANGED <<dist, prev, index, todo, blobs, latest, site, failed, built>>
  BY PublishingAssumption DEF Trigger, IInv, TypeOK, ghcr
<1>2. \/ run = None /\ run' = req /\ step' = "build" /\ waiting' = waiting
      \/ run # None /\ waiting' = req /\ run' = run /\ step' = step
  BY DEF Trigger
<1>3. PagesFit' /\ {deploying, deployNext}' \subseteq Sites \union {None, Skipped}
  <2>1. CASE waiting = None
    <3>1. UNCHANGED <<deploying, deployNext, site, latest>>
      BY <1>1, <2>1 DEF Trigger
    <3>. QED
      BY <3>1 DEF IInv, TypeOK, PagesFit, SiteFits, Real, Follows
  <2>2. CASE waiting # None
    <3>1. Completed(Skipped) /\ UNCHANGED <<site, latest>>
      BY <1>1, <2>2 DEF Trigger
    <3>. QED
      BY <3>1, CompletedFits DEF IInv
  <2>. QED
    BY <2>1, <2>2
<1>4. TypeOK'
  BY <1>1, <1>2, <1>3 DEF IInv, TypeOK
<1>5. RunFits'
  <2>1. req # None
    BY PublishingAssumption
  <2>. QED
    BY <1>1, <1>2, <2>1 DEF IInv, RunFits, MergedInto
<1>6. PushFits' /\ GhcrComplete' /\ WholeIsListed'
  BY <1>1, <1>2 DEF IInv, RunFits, PushFits, GhcrComplete, WholeIsListed
<1>. QED
  BY <1>3, <1>4, <1>5, <1>6 DEF IInv

LEMMA StepPush ==
  ASSUME IInv, NEW ns \in SUBSET Names, NEW new \in Trees, Push(ns, new)
  PROVE  IInv'
<1>1. [names |-> ns, tree |-> new] \in Requests
  BY DEF Requests
<1>2. Trigger([names |-> ns, tree |-> new]) /\ tree' = new /\ whole' = FALSE
  BY DEF Push
<1>. QED
  BY <1>1, <1>2, StepTrigger

LEMMA StepRelease ==
  ASSUME IInv, Release
  PROVE  IInv'
<1>1. [names |-> Names, tree |-> tree] \in Requests
  BY DEF IInv, TypeOK, Requests
<1>2. Trigger([names |-> Names, tree |-> tree]) /\ tree' = tree /\ whole' = whole
  BY DEF Release
<1>. QED
  BY <1>1, <1>2, StepTrigger DEF IInv, TypeOK

(* The pages group does not see the steps inside a run. *)
LEMMA PagesStay ==
  ASSUME PagesFit, UNCHANGED pages, Keeps(latest, latest')
  PROVE  PagesFit'
BY KeepsTrans DEF pages, PagesFit, SiteFits, Real, Follows

LEMMA StepBuild ==
  ASSUME IInv, Build
  PROVE  IInv'
<1>. USE DEF Build, ghcr, pages, hist
<1>1. TypeOK'
  BY DistTyped DEF IInv, TypeOK
<1>2. RunFits' /\ PushFits'
  BY DEF IInv, RunFits, PushFits
<1>3. PagesFit'
  BY KeepsSelf, PagesStay DEF IInv
<1>. QED
  BY <1>1, <1>2, <1>3 DEF IInv, GhcrComplete, WholeIsListed

LEMMA StepFetch ==
  ASSUME IInv, Fetch
  PROVE  IInv'
<1>. USE DEF Fetch, ghcr, pages, hist
<1>1. TypeOK'
  BY DEF IInv, TypeOK
<1>2. RunFits' /\ PushFits'
  BY DEF IInv, RunFits, PushFits
<1>3. PagesFit'
  BY KeepsSelf, PagesStay DEF IInv
<1>. QED
  BY <1>1, <1>2, <1>3 DEF IInv, GhcrComplete, WholeIsListed

LEMMA StepMergeIndex ==
  ASSUME IInv, MergeIndex
  PROVE  IInv'
<1>. USE DEF MergeIndex, ghcr, pages, hist
<1>1. dist \in SUBSET Metas /\ prev \in Indexes /\ triggers \in Nat /\ triggers \in 1 .. MaxTriggers
  BY DEF IInv, TypeOK, RunFits
<1>2. index' \in Indexes
  BY <1>1, MergeOfDist
<1>3. TypeOK'
  BY <1>1, <1>2, PackedTyped DEF IInv, TypeOK
<1>4. MergedInto(latest)'
  BY <1>1 DEF IInv, RunFits, MergedInto
<1>5. RunFits' /\ PushFits'
  BY <1>1, <1>4 DEF IInv, RunFits, PushFits
<1>6. PagesFit'
  BY KeepsSelf, PagesStay DEF IInv
<1>. QED
  BY <1>3, <1>5, <1>6 DEF IInv, GhcrComplete, WholeIsListed

LEMMA StepPushBlob ==
  ASSUME IInv, NEW d \in todo, PushBlob(d)
  PROVE  IInv'
<1>. USE DEF PushBlob, ghcr, pages, hist
<1>1. TypeOK'
  BY DEF IInv, TypeOK
<1>2. RunFits' /\ PushFits'
  BY DEF IInv, RunFits, MergedInto, PushFits
<1>3. PagesFit'
  BY KeepsSelf, PagesStay DEF IInv
<1>. QED
  BY <1>1, <1>2, <1>3 DEF IInv, GhcrComplete, WholeIsListed

(* What a run is about to push keeps what GHCR's index lists, and adds     *)
(* what the run has built.                                                 *)
LEMMA MergedLists ==
  ASSUME IInv, step = "blobs"
  PROVE  /\ Keeps(latest, index)
         /\ Listed(index) = Listed(latest) \union Packed(dist)
<1>1. PICK at \in 1 .. MaxTriggers :
        MergeAllowed(latest, Generate(dist, at)) /\ index = Merge(latest, Generate(dist, at))
  BY DEF IInv, RunFits, MergedInto
<1>2. at \in Nat /\ latest \in Indexes /\ dist \in SUBSET Metas /\ BuildsAgree(dist)
  BY PublishingAssumption DEF IInv, TypeOK, RunFits
<1>. QED
  BY <1>1, <1>2, MergeOfDist

LEMMA StepPushIndex ==
  ASSUME IInv, PushIndex
  PROVE  IInv'
<1>. USE DEF PushIndex, pages, hist
<1>1. /\ latest' = index /\ Keeps(latest, latest')
      /\ Listed(index) = Listed(latest) \union Packed(dist)
  BY MergedLists
<1>2. Packed(dist) \subseteq blobs
  BY DEF IInv, PushFits
<1>3. TypeOK'
  BY DEF IInv, TypeOK
<1>4. RunFits' /\ PushFits'
  BY <1>1 DEF IInv, RunFits, PushFits
<1>5. PagesFit'
  BY <1>1, PagesStay DEF IInv
<1>6. GhcrComplete' /\ WholeIsListed'
  BY <1>1, <1>2 DEF IInv, GhcrComplete, WholeIsListed
<1>. QED
  BY <1>3, <1>4, <1>5, <1>6 DEF IInv

(* The run that waited, if there is one, begins with nothing. *)
LEMMA StepLeave ==
  ASSUME IInv, Leave, run # None, UNCHANGED triggers
  PROVE  /\ RunFits' /\ PushFits'
         /\ run' \in Requests \union {None} /\ waiting' \in Requests \union {None}
         /\ step' \in {"idle", "build"}
         /\ dist' \subseteq Metas /\ prev' \in Indexes /\ index' \in Indexes
         /\ todo' \subseteq Digests
<1>1. step' \in {"idle", "build"} /\ (step' = "idle" <=> run' = None)
  BY DEF Leave
<1>2. triggers' \in 1 .. MaxTriggers
  BY DEF IInv, RunFits
<1>3. RunFits' /\ PushFits'
  BY <1>1, <1>2 DEF RunFits, PushFits
<1>. QED
  BY <1>1, <1>3, EmptyTyped DEF Leave, IInv, TypeOK

LEMMA StepAssemble ==
  ASSUME IInv, Assemble
  PROVE  IInv'
<1>. DEFINE new == [index |-> index, blobs |-> Packed(dist) \union Listed(index)]
<1>1. /\ step = "site" /\ run # None /\ index = latest /\ dist = Dist(run.names, run.tree)
      /\ Packed(dist) \subseteq Listed(latest)
  BY DEF Assemble, IInv, RunFits, PushFits
<1>2. /\ Leave /\ UNCHANGED <<tree, triggers, blobs, latest, site, failed>>
      /\ built' = built \union Packed(dist)
      /\ whole' = (whole \/ (run.names = Names /\ run.tree = tree))
  BY DEF Assemble, Succeed, ghcr
<1>3. Packed(dist) \subseteq Digests /\ Listed(index) \subseteq Digests
  BY PackedTyped DEF IInv, TypeOK, Listed, Digests
<1>4. PagesFit' /\ {deploying, deployNext}' \subseteq Sites \union {None, Skipped}
  <2>1. new \in Sites
    BY <1>3 DEF IInv, TypeOK, Sites
  <2>2. SiteFits(new) /\ Keeps(latest, new.index)
    BY <1>1, KeepsSelf DEF SiteFits
  <2>3. Completed(new)
    BY DEF Assemble
  <2>. QED
    BY <1>2, <2>1, <2>2, <2>3, CompletedFits DEF IInv
<1>5. TypeOK' /\ RunFits' /\ PushFits'
  BY <1>1, <1>2, <1>3, <1>4, StepLeave DEF IInv, TypeOK
<1>6. WholeIsListed'
  BY <1>1, <1>2 DEF IInv, WholeIsListed
<1>. QED
  BY <1>2, <1>4, <1>5, <1>6 DEF IInv, GhcrComplete

LEMMA StepRunFails ==
  ASSUME IInv, RunFails
  PROVE  IInv'
<1>1. /\ run # None /\ Leave /\ Completed(Skipped)
      /\ UNCHANGED <<tree, triggers, blobs, latest, site, failed, built, whole>>
  BY DEF RunFails, ghcr, hist
<1>2. PagesFit' /\ {deploying, deployNext}' \subseteq Sites \union {None, Skipped}
  BY <1>1, CompletedFits DEF IInv
<1>3. TypeOK' /\ RunFits' /\ PushFits'
  BY <1>1, <1>2, StepLeave DEF IInv, TypeOK
<1>. QED
  BY <1>1, <1>2, <1>3 DEF IInv, GhcrComplete, WholeIsListed

(* What is deployed keeps what was deployed before. *)
LEMMA StepDeploy ==
  ASSUME IInv, Deploy
  PROVE  IInv' /\ Follows(site, site')
<1>1. /\ UNCHANGED <<tree, triggers, run, step, waiting, dist, prev, index, todo,
                     blobs, latest, built, whole>>
      /\ deploying' = deployNext /\ deployNext' = None
      /\ site' = site \/ (Real(deploying) /\ site' = deploying)
      /\ failed' \in {failed, TRUE}
  BY DEF Deploy, group, ghcr, Real
<1>2. TypeOK'
  BY <1>1 DEF IInv, TypeOK, Real
<1>3. RunFits' /\ PushFits'
  BY <1>1 DEF IInv, RunFits, PushFits, MergedInto
<1>4. PagesFit' /\ Follows(site, site')
  BY <1>1, KeepsSelf DEF IInv, PagesFit, SiteFits, Real, Follows
<1>. QED
  BY <1>1, <1>2, <1>3, <1>4 DEF IInv, GhcrComplete, WholeIsListed

LEMMA StepIInv == IInv /\ [Next]_vars => IInv'
<1>. SUFFICES ASSUME IInv, [Next]_vars PROVE IInv'
  OBVIOUS
<1>1. ASSUME NEW new \in Trees, NEW ns \in {{n} : n \in Names} \union {{}, Names}, Push(ns, new)
      PROVE  IInv'
  BY <1>1, StepPush
<1>2. CASE Release
  BY <1>2, StepRelease
<1>3. CASE RunStep
  BY <1>3, StepBuild, StepFetch, StepMergeIndex, StepPushBlob, StepPushIndex, StepAssemble
     DEF RunStep
<1>4. CASE RunFails
  BY <1>4, StepRunFails
<1>5. CASE Deploy
  BY <1>5, StepDeploy
<1>6. CASE UNCHANGED vars
  <2>1. TypeOK' /\ RunFits' /\ PushFits'
    BY <1>6 DEF vars, group, ghcr, pages, hist, IInv, TypeOK, RunFits, PushFits, MergedInto
  <2>2. PagesFit' /\ GhcrComplete' /\ WholeIsListed'
    BY <1>6, KeepsSelf, PagesStay DEF vars, group, ghcr, pages, hist, IInv, GhcrComplete, WholeIsListed
  <2>. QED
    BY <2>1, <2>2 DEF IInv
<1>. QED
  BY <1>1, <1>2, <1>3, <1>4, <1>5, <1>6 DEF Next

LEMMA PublishingInvariant == Spec => []IInv
<1>1. IInv /\ [Next]_vars => IInv'
  BY StepIInv
<1>. QED
  BY InitIInv, <1>1, PTL DEF Spec

-----------------------------------------------------------------------------

(* The queues hold what they are for, and what is listed and pushed are    *)
(* digests.                                                                *)
THEOREM PublishingTypes == Spec => []TypeOK
BY PublishingInvariant, PTL DEF IInv

(* Blobs go first: at every moment, and after any failure, each blob       *)
(* index:latest lists is on GHCR (publish-blobs.sh:24-56).                 *)
THEOREM GhcrAlwaysComplete == Spec => []GhcrComplete
BY PublishingInvariant, PTL DEF IInv

(* The site is never ahead of GHCR. *)
THEOREM SiteNeverAhead == Spec => []SiteBehind
<1>1. IInv => SiteBehind
  BY KeepsListed DEF IInv, TypeOK, Sites, PagesFit, SiteFits, SiteBehind
<1>. QED
  BY <1>1, PublishingInvariant, PTL

(* A run that built all of main as it stands has listed all of it,         *)
(* whatever the concurrency group dropped before (publish-matrix.sh:6-8).  *)
THEOREM WholeBuildListsMain == Spec => []WholeIsListed
BY PublishingInvariant, PTL DEF IInv

(* index:latest moves only when a run pushes its index. *)
LEMMA LatestMoves == IInv /\ Next => UNCHANGED latest \/ PushIndex
<1>. SUFFICES ASSUME IInv, Next, ~PushIndex PROVE latest' = latest
  OBVIOUS
<1>. USE DEF ghcr
<1>1. ASSUME NEW new \in Trees, NEW ns \in {{n} : n \in Names} \union {{}, Names}, Push(ns, new)
      PROVE  latest' = latest
  BY <1>1 DEF Push, Trigger
<1>2. CASE Release
  BY <1>2 DEF Release, Trigger
<1>3. CASE RunStep
  BY <1>3 DEF RunStep, Build, Fetch, MergeIndex, PushBlob, Assemble, Succeed
<1>4. CASE RunFails \/ Deploy
  BY <1>4 DEF RunFails, Deploy
<1>. QED
  BY <1>1, <1>2, <1>3, <1>4 DEF Next

(* The site moves only when a deployment ends. *)
LEMMA SiteMoves == IInv /\ Next => UNCHANGED site \/ Deploy
<1>. SUFFICES ASSUME IInv, Next, ~Deploy PROVE site' = site
  OBVIOUS
<1>. USE DEF pages
<1>1. ASSUME NEW new \in Trees, NEW ns \in {{n} : n \in Names} \union {{}, Names}, Push(ns, new)
      PROVE  site' = site
  BY <1>1 DEF Push, Trigger
<1>2. CASE Release
  BY <1>2 DEF Release, Trigger
<1>3. CASE RunStep
  BY <1>3 DEF RunStep, Build, Fetch, MergeIndex, PushBlob, PushIndex, Assemble, Succeed
<1>4. CASE RunFails
  BY <1>4 DEF RunFails
<1>. QED
  BY <1>1, <1>2, <1>3, <1>4 DEF Next

(* No failure, no order of runs and of deployments takes a published       *)
(* version back, on GHCR or on the site, or gives it other digests or      *)
(* another date (fetch-previous-index.sh:2-6, merge.go:8-17).              *)
THEOREM NothingIsUnpublished == Spec => NothingUnpublished
<1>. DEFINE Grows == Keeps(latest, latest') /\ Keeps(site.index, site'.index)
<1>1. IInv /\ [Next]_vars => [Grows]_vars
  <2>. SUFFICES ASSUME IInv, Next PROVE Grows
    OBVIOUS
  <2>1. Keeps(latest, latest')
    BY LatestMoves, MergedLists, KeepsSelf DEF PushIndex
  <2>2. Keeps(site.index, site'.index)
    BY SiteMoves, StepDeploy, KeepsSelf DEF Follows
  <2>. QED
    BY <2>1, <2>2
<1>. QED
  BY <1>1, PublishingInvariant, PTL DEF Spec, NothingUnpublished

-----------------------------------------------------------------------------
(* Publishing implements successive runs of mcplib index.  The instance    *)
(* has its own copies of LibraryIndex's operators.                         *)

LEMMA SameIndex ==
  /\ Command!Empty = Empty
  /\ \A d : Command!IsDist(d) = IsDist(d) /\ Command!BuildsAgree(d) = BuildsAgree(d)
  /\ \A d, at : Command!Generate(d, at) = Generate(d, at)
  /\ \A old, new : Command!MergeAllowed(old, new) = MergeAllowed(old, new)
  /\ \A old, new : Command!Merge(old, new) = Merge(old, new)
  /\ Command!Metas = Metas
<1>. USE DEF Command!Slots, Slots, Command!Slot, Slot, Command!Tars, Tars,
             Command!Absent, Absent, Command!Built, Built, Command!Lists, Lists,
             Command!Blob, Blob, Command!Metas, Metas
<1>1. Command!Empty = Empty
  BY DEF Command!Empty, Empty
<1>2. ASSUME NEW d
      PROVE  Command!IsDist(d) = IsDist(d) /\ Command!BuildsAgree(d) = BuildsAgree(d)
  BY DEF Command!IsDist, IsDist, Command!BuildsAgree, BuildsAgree
<1>3. ASSUME NEW d, NEW at PROVE Command!Generate(d, at) = Generate(d, at)
  BY DEF Command!Generate, Generate, Command!VersionFrom, VersionFrom
<1>4. ASSUME NEW old, NEW new
      PROVE  Command!MergeAllowed(old, new) = MergeAllowed(old, new)
  BY DEF Command!MergeAllowed, MergeAllowed
<1>5. ASSUME NEW old, NEW new PROVE Command!Merge(old, new) = Merge(old, new)
  BY DEF Command!Merge, Merge, Command!HasPackage, HasPackage,
         Command!MergeVersion, MergeVersion
<1>6. Command!Metas = Metas
  OBVIOUS
<1>. QED
  BY <1>1, <1>2, <1>3, <1>4, <1>5, <1>6

(* GHCR's index goes through a series of runs of mcplib index, each on     *)
(* what the one before it published, though the workflow fetches, merges   *)
(* and pushes in separate steps (publish.yml:37).                          *)
THEOREM PublishingRunsTheCommand == Spec => CommandSpec
<1>1. Init => Command!Init
  BY SameIndex DEF Init, Command!Init
<1>2. IInv /\ [Next]_vars => [Command!Next]_(Command!vars)
  <2>. SUFFICES ASSUME IInv, [Next]_vars, latest' # latest PROVE Command!Next
    BY DEF Command!vars
  <2>1. PushIndex
    BY LatestMoves DEF vars, ghcr
  <2>2. /\ step = "blobs" /\ BuildsAgree(dist) /\ MergedInto(latest)
        /\ dist = Dist(run.names, run.tree) /\ latest' = index
    BY <2>1 DEF PushIndex, IInv, RunFits
  <2>3. dist \in Command!Dists
    BY <2>2, DistTyped, SameIndex DEF Command!Dists
  <2>4. PICK at \in 1 .. MaxTriggers :
          MergeAllowed(latest, Generate(dist, at)) /\ index = Merge(latest, Generate(dist, at))
    BY <2>2 DEF MergedInto
  <2>5. Command!Publish(dist, at)
    BY <2>2, <2>4, SameIndex DEF Command!Publish
  <2>. QED
    BY <2>3, <2>5 DEF Command!Next
<1>. QED
  BY <1>1, <1>2, PublishingInvariant, PTL DEF Spec, CommandSpec, Command!Spec

=============================================================================
