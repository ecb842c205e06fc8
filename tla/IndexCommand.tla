---------------------------- MODULE IndexCommand ----------------------------
(***************************************************************************)
(* Successive runs of mcplib index (cmd/mcplib/index.go), each merging a   *)
(* dist of new builds into the index the run before it published, and      *)
(* retiring what it is told to.  What is built, when, in which order and   *)
(* how often is anybody's choice: a build may be published again, a build  *)
(* that is not reproducible may be published under a version already out.  *)
(***************************************************************************)
EXTENDS LibraryIndex

CONSTANT MaxAt  \* bound on dates

ASSUME CommandAssumption == MaxAt \in Nat

(* What Generate accepts; it refuses every other dist. *)
Dists == {dist \in SUBSET Metas : IsDist(dist) /\ BuildsAgree(dist)}

VARIABLE index  \* the published index

vars == <<index>>

Init == index = Empty

(* One run without --retire.  A refused one writes nothing.  The date is     *)
(* --generated-at: the clock, or a release's date.                           *)
Publish(dist, at) ==
  LET next == Generate(dist, at)
  IN  /\ MergeAllowed(index, next)
      /\ index' = Merge(index, next)

(* One run with --retire.  One that publishes as well does the one after the *)
(* other before it writes the index (index.go:67-86).                        *)
RetireVersion(s) ==
  /\ Lists(index, s)
  /\ index' = Retire(index, s)

Next ==
  \/ \E dist \in Dists, at \in 1 .. MaxAt : Publish(dist, at)
  \/ \E s \in Slots : RetireVersion(s)

Spec == Init /\ [][Next]_vars

-----------------------------------------------------------------------------
TypeOK == index \in Indexes

(* A listed version has a blob, and each blob is of a tar that serves the    *)
(* architecture it is listed under: a gateway that looks up its pair gets a  *)
(* package for it (index.go:65-76).                                          *)
BlobsServe ==
  \A s \in Slots :
    /\ Lists(index, s) <=> \E a \in Arches : Blob(index, s, a) # NoTar
    /\ \A a \in Arches : Blob(index, s, a) # NoTar => a \in Blob(index, s, a).archs

(* While a version stays listed its digests do not change and its date does  *)
(* not move, however often it is built again (merge.go:8-17).                *)
Stays(s) ==
  Lists(index, s) /\ Lists(index, s)' =>
    /\ index.version'[s].at = index.version[s].at
    /\ \A a \in Arches : Blob(index, s, a) # NoTar
                           => Blob(index, s, a)' = Blob(index, s, a)

PublishedStays == [][\A s \in Slots : Stays(s)]_vars

(* Only Retire takes a version out of the index, and no other with it        *)
(* (merge.go:13-16).                                                         *)
OnlyRetireDrops ==
  [][\A s \in Slots : Lists(index, s) /\ ~Lists(index, s)' =>
        /\ index' = Retire(index, s)
        /\ \A t \in Slots \ {s} : index.version'[t] = index.version[t]]_vars

(* A dist all of whose tars are listed can be published again, at any later  *)
(* date, and changes no version: a publish run that failed half-way can be   *)
(* run again (merge.go:29-43, 66-96).                                        *)
Listed(dist) ==
  \A m \in dist : \A a \in m.tar.archs : Blob(index, Slot(m), a) = m.tar

RepeatChangesNothing ==
  \A dist \in Dists, at \in 1 .. MaxAt :
    Listed(dist) =>
      /\ MergeAllowed(index, Generate(dist, at))
      /\ Merge(index, Generate(dist, at)).version = index.version

(* The catalogue entry of a package has the text of a version it lists or    *)
(* of one it has retired; a package that lists nothing has no entry.         *)
CardExists == \A n \in Names : index.card[n] # NoVersion <=> HasPackage(index, n)

=============================================================================
