------------------------------ MODULE Signing ------------------------------
(***************************************************************************)
(* Which keys sign what through the rotation of docs/KEY-ROTATION.md, and  *)
(* who can verify it: internal/sign, mcplib sign and verify, and the steps *)
(* of publish.yml and its scripts that carry signatures.  Publishing has   *)
(* the queues and the failures between these steps; here one publish run   *)
(* is under way at a time, it may fail at every step, and the site it      *)
(* leaves is deployed with its last one.                                   *)
(*                                                                         *)
(* A key is its generation.  The signature files beside an object are a    *)
(* function from the files there are, a sibling .sig.<id> by its id and    *)
(* the unsuffixed .sig as Bare, to the key that made each.                 *)
(***************************************************************************)
EXTENDS Integers, Sequences, FiniteSets

CONSTANTS Generations,   \* as many keys as there will be
          Digests, Gateways, NoRun

ASSUME SigningAssumption == Generations \in Nat \ {0}

Keys == 1 .. Generations
Bare == 0       \* the unsuffixed .sig
Stranger == 0   \* a key nobody publishes: a wrong secret's

VARIABLES
  conf,      \* publish.yml: [names: SIGNING_KEYS, newest first; index, tars: the
             \* keys its steps sign the index and the tars with]
  secret,    \* id -> the key its Actions secret really holds
  pubs,      \* keys/*.pub
  run,       \* the publish run, or NoRun
  ghcr,      \* digest -> the signature files pushed with it, for those that are pushed
  latest,    \* what index:latest lists
  site,      \* the deployed site: [names (in its index), with: the keys whose steps
             \* signed its index, sigs: its signature files, blobs]
  release,   \* the keys that ship in the newest gateway release
  held       \* gateway -> the keys of the release it runs

library == <<run, ghcr, latest, site>>
people == <<conf, secret, pubs, release, held>>
vars == <<conf, secret, pubs, run, ghcr, latest, site, release, held>>

(***************************************************************************)
(* internal/sign                                                           *)
(***************************************************************************)

\* Mutant of FileSigs: the unsuffixed file first.
FileSigsBareFirst(sigs, k) ==
  IF Bare \in DOMAIN sigs THEN {sigs[Bare]} ELSE IF k \in DOMAIN sigs THEN {sigs[k]} ELSE {}

\* The key's own sibling when there is one, otherwise the unsuffixed file.
FileSigs(sigs, k) ==
  IF k \in DOMAIN sigs THEN {sigs[k]} ELSE IF Bare \in DOMAIN sigs THEN {sigs[Bare]} ELSE {}

Named(names) == {names[i] : i \in DOMAIN names}

\* The order in which they are tried does not tell whether one verifies.
Order(keys, names) == IF names = <<>> THEN keys ELSE keys \intersect Named(names)

\* VerifyAny: a key with no signature, and one whose does not verify, is
\* skipped.
VerifyAny(order, sigs) == \E k \in order : k \in FileSigs(sigs, k)

\* mcplib sign refuses a key SIGNING_KEYS does not name; with nothing built
\* the tars' steps do not run.
CanSign(c, built) ==
  (IF built = {} THEN c.index ELSE c.index \union c.tars) \subseteq Named(c.names)

\* Mutant of SignFile: every object is signed by one key.
SignFileOne(names, with, secrets) ==
  LET k == IF names[1] \in with THEN names[1] ELSE names[Len(names)]
  IN  [f \in {Bare, k} |-> secrets[k]]

\* mcplib sign, once for every key of with: the newest of names writes the
\* unsuffixed file as well.
SignFile(names, with, secrets) ==
  [f \in with \union (IF names[1] \in with THEN {Bare} ELSE {}) |->
     IF f = Bare THEN secrets[names[1]] ELSE secrets[f]]

(***************************************************************************)
(* A publish run                                                           *)
(***************************************************************************)

\* The jobs build, sign what was built, merge it into the index and sign
\* that.
Start(built) ==
  /\ run = NoRun
  /\ CanSign(conf, built)
  /\ run' = [step |-> "signed", names |-> conf.names, with |-> conf.index, pubs |-> pubs,
             sigs |-> SignFile(conf.names, conf.index, secret),
             tars |-> SignFile(conf.names, conf.tars, secret),
             built |-> built, listed |-> latest \union built]
  /\ UNCHANGED <<ghcr, latest, site, people>>

\* mcplib verify --index dist/index.json --dist dist.
VerifyDist ==
  /\ run # NoRun
  /\ run.step = "signed"
  /\ VerifyAny(Order(run.pubs, run.names), run.sigs)
  /\ run.built # {} => VerifyAny(Order(run.pubs, run.names), run.tars)
  /\ run' = [run EXCEPT !.step = "verified"]
  /\ UNCHANGED <<ghcr, latest, site, people>>

\* A blob tag that exists is skipped, and its signatures with it, when
\* "oras manifest fetch" finds it; when that fails for any reason, the blob
\* is pushed, over the tag if there is one.
PushBlob(d) ==
  /\ run # NoRun
  /\ run.step = "verified"
  /\ d \in run.built
  /\ ghcr' = [e \in DOMAIN ghcr \union {d} |-> IF e = d THEN run.tars ELSE ghcr[e]]
  /\ UNCHANGED <<run, latest, site, people>>

PushIndex ==
  /\ run # NoRun
  /\ run.step = "verified"
  /\ run.built \subseteq DOMAIN ghcr
  /\ latest' = run.listed
  /\ run' = [run EXCEPT !.step = "pushed"]
  /\ UNCHANGED <<ghcr, site, people>>

\* assemble-site.sh: what was built is placed with this run's signatures,
\* the rest is carried over from GHCR.
Assembled(r) == [d \in r.listed |-> IF d \in r.built THEN r.tars ELSE ghcr[d]]

\* mcplib verify --index site/index.json --blobs site/blobs/sha256
SiteVerifies(r) ==
  /\ VerifyAny(Order(r.pubs, r.names), r.sigs)
  /\ \A d \in r.listed : VerifyAny(Order(r.pubs, r.names), Assembled(r)[d])

Deploy ==
  /\ run # NoRun
  /\ run.step = "pushed"
  /\ SiteVerifies(run)
  /\ site' = [names |-> run.names, with |-> run.with, sigs |-> run.sigs, blobs |-> Assembled(run)]
  /\ run' = NoRun
  /\ UNCHANGED <<ghcr, latest, people>>

\* A step fails, a verification among them.
RunFails ==
  /\ run # NoRun
  /\ run' = NoRun
  /\ UNCHANGED <<ghcr, latest, site, people>>

(***************************************************************************)
(* The maintainers and the gateways, by docs/KEY-ROTATION.md.              *)
(***************************************************************************)
Newest == CHOOSE k \in pubs : \A j \in pubs : j <= k
Overlap == <<Newest, Newest - 1>>
Single(k) == [names |-> <<k>>, index |-> {k}, tars |-> {k}]

\* Steps 1 and 2.  The secret may be a wrong one.
AddKey(key) ==
  /\ Newest < Generations
  /\ conf = Single(Newest)
  /\ release = {Newest}
  /\ pubs' = pubs \union {Newest + 1}
  /\ key \in {Newest + 1, Stranger}
  /\ secret' = [secret EXCEPT ![Newest + 1] = key]
  /\ UNCHANGED <<library, conf, release, held>>

CorrectSecret ==
  /\ secret' = [secret EXCEPT ![Newest] = Newest]
  /\ UNCHANGED <<library, conf, pubs, release, held>>

\* Step 3 and the release that has it.
ReleaseBoth ==
  /\ release = {Newest - 1}
  /\ release' = {Newest - 1, Newest}
  /\ UNCHANGED <<library, conf, secret, pubs, held>>

\* Step 4, or part of it: SIGNING_KEYS left as it was, or a place that signs
\* left with a step for one of the keys alone.
Both == {Newest - 1, Newest}
Edited == [names |-> Overlap, index |-> Both, tars |-> Both]
HalfDone ==
  LET Some == (SUBSET Both) \ {{}}
  IN  ([names : {Overlap}, index : Some, tars : Some] \ {Edited})
        \union {[Edited EXCEPT !.names = <<Newest - 1>>]}

OpenOverlap ==
  /\ conf.names \in {<<Newest - 1>>, Overlap}
  /\ conf' = Edited \/ conf' \in HalfDone
  /\ UNCHANGED <<library, secret, pubs, release, held>>

\* Step 5 was done: the site is of the workflow as it stands, and someone
\* saw its index verify under the new key.
SignedBy(r) == r.names = conf.names /\ r.with = conf.index

Republished == SignedBy(site) /\ VerifyAny({Newest}, site.sigs)

\* Steps 6 and 7: there was a release with the new key, which some gateways
\* may not have taken, and no run from before the last edit is left.
CloseOverlap ==
  /\ conf.names = Overlap
  /\ Republished
  /\ Newest \in release
  /\ run # NoRun => SignedBy(run)
  /\ conf' = Single(Newest)
  /\ UNCHANGED <<library, secret, pubs, release, held>>

ReleaseNew ==
  /\ conf.names = <<Newest>>
  /\ release' = {Newest}
  /\ UNCHANGED <<library, conf, secret, pubs, held>>

Upgrade(g) ==
  /\ held' = [held EXCEPT ![g] = release]
  /\ UNCHANGED <<library, conf, secret, pubs, release>>

(***************************************************************************)
(* Before the first rotation: one key, and a library published under it.   *)
(***************************************************************************)
FirstSigs == [f \in {1, Bare} |-> 1]

Init ==
  /\ conf = Single(1)
  /\ secret = [k \in Keys |-> IF k = 1 THEN 1 ELSE Stranger]
  /\ pubs = {1}
  /\ run = NoRun
  /\ \E published \in SUBSET Digests :
       /\ ghcr = [d \in published |-> FirstSigs]
       /\ latest = published
       /\ site = [names |-> <<1>>, with |-> {1}, sigs |-> FirstSigs, blobs |-> ghcr]
  /\ release = {1}
  /\ held = [g \in Gateways |-> {1}]

Next ==
  \/ \E built \in SUBSET Digests : Start(built)
  \/ VerifyDist
  \/ \E d \in Digests : PushBlob(d)
  \/ PushIndex
  \/ Deploy
  \/ RunFails
  \/ \E key \in Keys \union {Stranger} : AddKey(key)
  \/ CorrectSecret
  \/ ReleaseBoth
  \/ OpenOverlap
  \/ CloseOverlap
  \/ ReleaseNew
  \/ \E g \in Gateways : Upgrade(g)

Spec == Init /\ [][Next]_vars

(***************************************************************************)
(* Properties                                                              *)
(***************************************************************************)

\* Every gateway, on whatever release, verifies the deployed index at every
\* moment of a rotation, unless it has only keys older than every key the
\* site's index was signed with (VerifyAny, FileSigs): a wrong secret, a
\* half-done edit, a release that drops a key or a run that failed midway
\* leaves out no other.
LeftOut(g) == \A k \in held[g], j \in site.with : k < j

IndexVerifies ==
  \A g \in Gateways : LeftOut(g) \/ VerifyAny(Order(held[g], site.names), site.sigs)

\* A gateway verifies each blob of the site if it holds the oldest key the
\* blob was signed with and the index names that key, whether this run
\* signed the blob, an earlier one did, or one pushed over it: the newer
\* key's signature may be by a wrong secret, the oldest key's never.
Oldest(sigs) == CHOOSE k \in DOMAIN sigs \ {Bare} : \A j \in DOMAIN sigs \ {Bare} : k <= j

BlobsVerify ==
  \A g \in Gateways, d \in DOMAIN site.blobs :
    Oldest(site.blobs[d]) \in held[g] \intersect Named(site.names)
      => VerifyAny(Order(held[g], site.names), site.blobs[d])

\* After a key is retired, "the library keeps publishing `.sig.library-vN`
\* siblings for objects that already had them, forever"
\* (docs/KEY-ROTATION.md:48-50).
SiblingsStay ==
  [][\A d \in DOMAIN site.blobs \intersect DOMAIN site'.blobs :
       DOMAIN site.blobs[d] \ (Named(site'.names) \union {Bare}) \subseteq DOMAIN site'.blobs[d]]_vars
=============================================================================
