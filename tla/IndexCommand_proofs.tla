------------------------ MODULE IndexCommand_proofs ------------------------
(* Proofs about the index and the runs of mcplib index, for any names,     *)
(* versions, architectures and builds.                                     *)
EXTENDS IndexCommand, TLAPS

(* What one index has of BlobsServe and CardExists. *)
Serves(idx) ==
  \A s \in Slots :
    /\ Lists(idx, s) <=> \E a \in Arches : Blob(idx, s, a) # NoTar
    /\ \A a \in Arches : Blob(idx, s, a) # NoTar => a \in Blob(idx, s, a).archs

Carded(idx) == \A n \in Names : idx.card[n] # NoVersion <=> HasPackage(idx, n)

Sound(idx) == idx \in Indexes /\ Serves(idx) /\ Carded(idx)

-----------------------------------------------------------------------------
(* The operators. *)

LEMMA AbsentType == Absent \in Entries
BY DEF Absent, Entries, Dates

(* What Generate lists for a slot is the tar of a meta of dist. *)
LEMMA GenerateBlob ==
  ASSUME NEW dist \in Dists, NEW at \in 1 .. MaxAt, NEW s \in Slots, NEW a \in Arches
  PROVE  /\ Built(dist, s, a) = {} => Blob(Generate(dist, at), s, a) = NoTar
         /\ \A m \in Built(dist, s, a) : Blob(Generate(dist, at), s, a) = m.tar
<1>1. CASE ~ \E m \in dist : Slot(m) = s
  BY <1>1 DEF Blob, Generate, Built, Absent
<1>2. CASE \E m \in dist : Slot(m) = s
  <2>1. Blob(Generate(dist, at), s, a)
          = IF Built(dist, s, a) = {} THEN NoTar
            ELSE (CHOOSE m \in Built(dist, s, a) : TRUE).tar
    BY <1>2 DEF Blob, Generate, VersionFrom
  <2>2. ASSUME NEW m \in Built(dist, s, a)
        PROVE  (CHOOSE k \in Built(dist, s, a) : TRUE).tar = m.tar
    BY DEF Dists, BuildsAgree
  <2>. QED
    BY <2>1, <2>2
<1>. QED
  BY <1>1, <1>2

LEMMA GenerateSound ==
  ASSUME NEW dist \in Dists, NEW at \in 1 .. MaxAt
  PROVE  Sound(Generate(dist, at))
<1>. DEFINE idx == Generate(dist, at)
<1>1. dist \subseteq Metas
  BY DEF Dists
<1>2. ASSUME NEW s \in Slots PROVE idx.version[s] \in Entries
  <2>1. CASE ~ \E m \in dist : Slot(m) = s
    BY <2>1, AbsentType DEF Generate
  <2>2. CASE \E m \in dist : Slot(m) = s
    <3>1. idx.version[s] = VersionFrom(dist, s, at)
      BY <2>2 DEF Generate
    <3>2. ASSUME NEW a \in Arches
          PROVE  VersionFrom(dist, s, at).blob[a] \in Tars \union {NoTar}
      <4>1. CASE Built(dist, s, a) = {}
        BY <4>1 DEF VersionFrom
      <4>2. CASE Built(dist, s, a) # {}
        <5>1. (CHOOSE m \in Built(dist, s, a) : TRUE) \in Metas
          BY <4>2, <1>1 DEF Built
        <5>. QED
          BY <4>2, <5>1 DEF VersionFrom, Metas
      <4>. QED
        BY <4>1, <4>2
    <3>. QED
      BY <3>1, <3>2, CommandAssumption DEF VersionFrom, Entries, Dates
  <2>. QED
    BY <2>1, <2>2
<1>3. ASSUME NEW n \in Names PROVE idx.card[n] \in Versions \union {NoVersion}
  BY <1>1 DEF Generate, Metas
<1>4. idx \in Indexes
  BY <1>2, <1>3 DEF Indexes, Generate
<1>5. ASSUME NEW s \in Slots, NEW m \in dist, Slot(m) = s
      PROVE  Lists(idx, s) /\ \E a \in Arches : Blob(idx, s, a) # NoTar
  <2>1. m.tar \in Tars
    BY <1>1 DEF Metas
  <2>2. PICK a \in Arches : a \in m.tar.archs
    BY <2>1 DEF Tars
  <2>3. m \in Built(dist, s, a)
    BY <1>5, <2>2 DEF Built
  <2>4. Blob(idx, s, a) # NoTar
    BY <2>1, <2>3, GenerateBlob, IndexAssumption
  <2>5. Lists(idx, s)
    BY <2>4 DEF Lists, Blob, Absent
  <2>. QED
    BY <2>4, <2>5
<1>6. ASSUME NEW s \in Slots, ~ \E m \in dist : Slot(m) = s
      PROVE  ~ Lists(idx, s) /\ \A a \in Arches : Blob(idx, s, a) = NoTar
  BY <1>6 DEF Lists, Blob, Generate, Absent
<1>7. Serves(idx)
  <2>1. ASSUME NEW s \in Slots, NEW a \in Arches, Blob(idx, s, a) # NoTar
        PROVE  a \in Blob(idx, s, a).archs
    <3>1. PICK m \in dist : m \in Built(dist, s, a)
      BY <2>1, GenerateBlob DEF Built
    <3>. QED
      BY <3>1, GenerateBlob DEF Built
  <2>. QED
    BY <1>5, <1>6, <2>1 DEF Serves
<1>8. Carded(idx)
  <2>1. ASSUME NEW n \in Names
        PROVE  idx.card[n] # NoVersion <=> HasPackage(idx, n)
    <3>1. CASE \E m \in dist : m.name = n
      <4>1. PICK m \in dist : m.name = n
        BY <3>1
      <4>2. m.version \in Versions /\ Slot(m) = <<n, m.version>> /\ Slot(m) \in Slots
        BY <4>1, <1>1 DEF Metas, Slot, Slots
      <4>3. HasPackage(idx, n)
        BY <4>2, <1>5 DEF HasPackage
      <4>4. idx.card[n] \in Versions
        BY <3>1, <1>1 DEF Generate, Metas
      <4>. QED
        BY <4>3, <4>4, IndexAssumption
    <3>2. CASE ~ \E m \in dist : m.name = n
      <4>1. idx.card[n] = NoVersion
        BY <3>2 DEF Generate
      <4>2. ASSUME NEW v \in Versions PROVE ~ Lists(idx, <<n, v>>)
        <5>1. <<n, v>> \in Slots
          BY DEF Slots
        <5>2. ~ \E m \in dist : Slot(m) = <<n, v>>
          BY <3>2 DEF Slot
        <5>. QED
          BY <5>1, <5>2, <1>6
      <4>. QED
        BY <4>1, <4>2 DEF HasPackage
    <3>. QED
      BY <3>1, <3>2
  <2>. QED
    BY <2>1 DEF Carded
<1>. QED
  BY <1>4, <1>7, <1>8 DEF Sound

(* Merge lists what either index lists, and keeps what it held. *)
LEMMA MergeLists ==
  ASSUME NEW prev, Sound(prev), NEW next, Sound(next), NEW s \in Slots
  PROVE  /\ Merge(prev, next).version[s] \in Entries
         /\ Lists(Merge(prev, next), s) <=> Lists(prev, s) \/ Lists(next, s)
         /\ \A a \in Arches :
              Blob(Merge(prev, next), s, a)
                = IF Blob(prev, s, a) # NoTar THEN Blob(prev, s, a)
                  ELSE Blob(next, s, a)
         /\ Lists(prev, s) => /\ Merge(prev, next).version[s].at = prev.version[s].at
                              /\ Merge(prev, next).version[s].arch = prev.version[s].arch
<1>. DEFINE new == Merge(prev, next).version[s]
<1>1. prev.version[s] \in Entries /\ next.version[s] \in Entries
  BY DEF Sound, Indexes
<1>2. \A a \in Arches : ~Lists(prev, s) => Blob(prev, s, a) = NoTar
  BY DEF Sound, Serves
<1>3. \A a \in Arches : ~Lists(next, s) => Blob(next, s, a) = NoTar
  BY DEF Sound, Serves
<1>4. CASE ~Lists(prev, s)
  <2>1. new = next.version[s]
    BY <1>4 DEF Merge
  <2>. QED
    BY <1>1, <1>2, <1>4, <2>1 DEF Lists, Blob
<1>5. CASE Lists(prev, s) /\ ~Lists(next, s)
  <2>1. new = prev.version[s]
    BY <1>5 DEF Merge
  <2>. QED
    BY <1>1, <1>3, <1>5, <2>1 DEF Lists, Blob
<1>6. CASE Lists(prev, s) /\ Lists(next, s)
  <2>1. new = MergeVersion(prev.version[s], next.version[s])
    BY <1>6 DEF Merge
  <2>2. /\ new.at = prev.version[s].at /\ new.arch = prev.version[s].arch
        /\ new.blob = [a \in Arches |-> IF prev.version[s].blob[a] = NoTar
                                        THEN next.version[s].blob[a]
                                        ELSE prev.version[s].blob[a]]
        /\ new \in Entries
    BY <1>1, <2>1 DEF MergeVersion, Entries
  <2>3. \A a \in Arches : Blob(Merge(prev, next), s, a)
          = IF Blob(prev, s, a) # NoTar THEN Blob(prev, s, a) ELSE Blob(next, s, a)
    BY <2>2 DEF Blob
  <2>4. PICK a \in Arches : Blob(prev, s, a) # NoTar
    BY <1>6 DEF Sound, Serves
  <2>5. new # Absent
    BY <2>3, <2>4 DEF Blob, Absent
  <2>. QED
    BY <1>6, <2>2, <2>3, <2>5 DEF Lists
<1>. QED
  BY <1>4, <1>5, <1>6

LEMMA MergeSound ==
  ASSUME NEW prev, Sound(prev), NEW next, Sound(next)
  PROVE  Sound(Merge(prev, next))
<1>. DEFINE idx == Merge(prev, next)
<1>1. \A s \in Slots : Lists(idx, s) <=> Lists(prev, s) \/ Lists(next, s)
  BY MergeLists
<1>2. ASSUME NEW n \in Names
      PROVE  HasPackage(idx, n) <=> HasPackage(prev, n) \/ HasPackage(next, n)
  BY <1>1 DEF HasPackage, Slots
<1>3. idx \in Indexes
  <2>1. \A s \in Slots : idx.version[s] \in Entries
    BY MergeLists
  <2>2. \A n \in Names : idx.card[n] \in Versions \union {NoVersion}
    BY DEF Sound, Indexes, Merge
  <2>. QED
    BY <2>1, <2>2 DEF Indexes, Merge
<1>4. Serves(idx)
  <2>1. ASSUME NEW s \in Slots, NEW a \in Arches, Blob(idx, s, a) # NoTar
        PROVE  Lists(idx, s) /\ a \in Blob(idx, s, a).archs
    BY <2>1, <1>1, MergeLists DEF Sound, Serves
  <2>2. ASSUME NEW s \in Slots, Lists(idx, s)
        PROVE  \E a \in Arches : Blob(idx, s, a) # NoTar
    BY <2>2, <1>1, MergeLists DEF Sound, Serves
  <2>. QED
    BY <2>1, <2>2 DEF Serves
<1>5. Carded(idx)
  <2>1. ASSUME NEW n \in Names
        PROVE  idx.card[n] = IF HasPackage(next, n) THEN next.card[n] ELSE prev.card[n]
    BY DEF Merge
  <2>. QED
    BY <1>2, <2>1 DEF Sound, Carded
<1>. QED
  BY <1>3, <1>4, <1>5 DEF Sound

LEMMA RetireSound ==
  ASSUME NEW idx, Sound(idx), NEW s \in Slots
  PROVE  /\ Sound(Retire(idx, s))
         /\ ~Lists(Retire(idx, s), s)
         /\ \A t \in Slots \ {s} : Retire(idx, s).version[t] = idx.version[t]
<1>. DEFINE new == Retire(idx, s)
<1>1. idx.version \in [Slots -> Entries]
        /\ idx.card \in [Names -> Versions \union {NoVersion}]
  BY DEF Sound, Indexes
<1>2. new.version = [idx.version EXCEPT ![s] = Absent]
  BY DEF Retire
<1>3. new.version[s] = Absent /\ \A t \in Slots \ {s} : new.version[t] = idx.version[t]
  BY <1>1, <1>2
<1>4. s[1] \in Names
  BY DEF Slots
<1>5. new.card = [idx.card EXCEPT ![s[1]] = IF HasPackage(new, s[1]) THEN idx.card[s[1]]
                                            ELSE NoVersion]
  BY <1>2 DEF Retire, HasPackage, Lists
<1>6. new \in Indexes
  <2>1. new.version \in [Slots -> Entries]
    BY <1>1, <1>2, AbsentType
  <2>2. new.card \in [Names -> Versions \union {NoVersion}]
    BY <1>1, <1>4, <1>5
  <2>. QED
    BY <2>1, <2>2 DEF Indexes, Retire
<1>7. Serves(new)
  <2>1. ASSUME NEW t \in Slots \ {s}
        PROVE  /\ Lists(new, t) <=> \E a \in Arches : Blob(new, t, a) # NoTar
               /\ \A a \in Arches : Blob(new, t, a) # NoTar => a \in Blob(new, t, a).archs
    BY <1>3 DEF Sound, Serves, Lists, Blob
  <2>2. ~Lists(new, s) /\ \A a \in Arches : Blob(new, s, a) = NoTar
    BY <1>3 DEF Lists, Blob, Absent
  <2>. QED
    BY <2>1, <2>2 DEF Serves
<1>8. Carded(new)
  <2>1. ASSUME NEW n \in Names, n # s[1]
        PROVE  new.card[n] = idx.card[n] /\ (HasPackage(new, n) <=> HasPackage(idx, n))
    <3>1. ASSUME NEW v \in Versions PROVE Lists(new, <<n, v>>) <=> Lists(idx, <<n, v>>)
      BY <1>3, <2>1 DEF Lists, Slots
    <3>. QED
      BY <1>1, <1>4, <1>5, <2>1, <3>1 DEF HasPackage
  <2>2. HasPackage(new, s[1]) => HasPackage(idx, s[1])
    <3>1. ASSUME NEW v \in Versions, Lists(new, <<s[1], v>>)
          PROVE  Lists(idx, <<s[1], v>>)
      BY <1>3, <1>4, <3>1 DEF Lists, Slots
    <3>. QED
      BY <3>1 DEF HasPackage
  <2>3. new.card[s[1]] # NoVersion <=> HasPackage(new, s[1])
    BY <1>1, <1>4, <1>5, <2>2 DEF Sound, Carded
  <2>. QED
    BY <2>1, <2>3 DEF Sound, Carded
<1>. QED
  BY <1>3, <1>6, <1>7, <1>8 DEF Sound, Lists

-----------------------------------------------------------------------------
(* The runs. *)

IInv == Sound(index)

LEMMA EmptySound == Sound(Empty)
<1>1. Empty \in Indexes
  BY AbsentType DEF Empty, Indexes
<1>2. Serves(Empty) /\ Carded(Empty)
  BY DEF Serves, Carded, HasPackage, Lists, Blob, Empty, Absent, Slots
<1>. QED
  BY <1>1, <1>2 DEF Sound

LEMMA InitIInv == Init => IInv
BY EmptySound DEF Init, IInv

LEMMA StepIInv == IInv /\ [Next]_vars => IInv'
<1>. SUFFICES ASSUME IInv, [Next]_vars PROVE IInv'
  OBVIOUS
<1>1. ASSUME NEW dist \in Dists, NEW at \in 1 .. MaxAt, Publish(dist, at) PROVE IInv'
  <2>1. index' = Merge(index, Generate(dist, at))
    BY <1>1 DEF Publish
  <2>2. Sound(Merge(index, Generate(dist, at)))
    BY GenerateSound, MergeSound DEF IInv
  <2>. QED
    BY <2>1, <2>2 DEF IInv
<1>2. ASSUME NEW s \in Slots, RetireVersion(s) PROVE IInv'
  <2>1. index' = Retire(index, s)
    BY <1>2 DEF RetireVersion
  <2>2. Sound(Retire(index, s))
    BY RetireSound DEF IInv
  <2>. QED
    BY <2>1, <2>2 DEF IInv
<1>3. CASE UNCHANGED vars
  BY <1>3 DEF vars, IInv, Sound, Serves, Carded, HasPackage, Lists, Blob
<1>. QED
  BY <1>1, <1>2, <1>3 DEF Next

LEMMA CommandInvariant == Spec => []IInv
<1>1. IInv /\ [Next]_vars => IInv'
  BY StepIInv
<1>. QED
  BY InitIInv, <1>1, PTL DEF Spec

(* Every run of mcplib index leaves a well-formed index.                     *)
THEOREM IndexTypes == Spec => []TypeOK
<1>1. IInv => TypeOK
  BY DEF IInv, Sound, TypeOK
<1>. QED
  BY <1>1, CommandInvariant, PTL

(* A blob is listed only under architectures its tar serves (index.go:       *)
(* 65-76), through any number of merges and retirements.                     *)
THEOREM BlobsServeAlways == Spec => []BlobsServe
<1>1. IInv => BlobsServe
  BY DEF IInv, Sound, Serves, BlobsServe
<1>. QED
  BY <1>1, CommandInvariant, PTL

(* A package has a catalogue entry exactly while it lists a version.         *)
THEOREM CardExistsAlways == Spec => []CardExists
<1>1. IInv => CardExists
  BY DEF IInv, Sound, Carded, CardExists
<1>. QED
  BY <1>1, CommandInvariant, PTL

(* What a run does to the index, as the action properties see it. *)
LEMMA StepPublish ==
  ASSUME IInv, NEW dist \in Dists, NEW at \in 1 .. MaxAt, Publish(dist, at)
  PROVE  \A s \in Slots : Lists(index, s) => Lists(index', s) /\ Stays(s)
<1>. DEFINE next == Generate(dist, at)
<1>1. index' = Merge(index, next)
  BY DEF Publish
<1>2. Sound(index) /\ Sound(next)
  BY GenerateSound DEF IInv
<1>3. ASSUME NEW s \in Slots, Lists(index, s)
      PROVE  Lists(index', s) /\ Stays(s)
  <2>1. /\ index'.version[s].at = index.version[s].at
        /\ Lists(index', s)
        /\ \A a \in Arches : Blob(index, s, a) # NoTar
                               => Blob(index', s, a) = Blob(index, s, a)
    BY <1>1, <1>2, <1>3, MergeLists
  <2>. QED
    BY <2>1 DEF Stays, Lists, Blob
<1>. QED
  BY <1>3

LEMMA StepRetire ==
  ASSUME IInv, NEW t \in Slots, RetireVersion(t)
  PROVE  /\ index' = Retire(index, t)
         /\ ~Lists(index', t)
         /\ \A s \in Slots \ {t} : index'.version[s] = index.version[s]
BY RetireSound DEF RetireVersion, IInv

(* A version that stays listed keeps its digests and its date, however often *)
(* it is built again and whatever is merged in (merge.go:8-17).              *)
THEOREM DigestsStay == Spec => PublishedStays
<1>1. IInv /\ [Next]_vars => [\A s \in Slots : Stays(s)]_vars
  <2>. SUFFICES ASSUME IInv, Next, NEW s \in Slots PROVE Stays(s)
    OBVIOUS
  <2>1. ASSUME NEW dist \in Dists, NEW at \in 1 .. MaxAt, Publish(dist, at)
        PROVE  Stays(s)
    <3>1. CASE Lists(index, s)
      BY <2>1, <3>1, StepPublish
    <3>2. CASE ~Lists(index, s)
      BY <3>2 DEF Stays
    <3>. QED
      BY <3>1, <3>2
  <2>2. ASSUME NEW t \in Slots, RetireVersion(t)
        PROVE  Stays(s)
    <3>1. CASE s = t
      BY <2>2, <3>1, StepRetire DEF Stays, Lists
    <3>2. CASE s # t
      BY <2>2, <3>2, StepRetire DEF Stays, Blob
    <3>. QED
      BY <3>1, <3>2
  <2>. QED
    BY <2>1, <2>2 DEF Next
<1>. QED
  BY <1>1, CommandInvariant, PTL DEF Spec, PublishedStays

(* Nothing leaves the index but by Retire, and nothing else with it          *)
(* (merge.go:13-16).                                                         *)
THEOREM RetireAloneDrops == Spec => OnlyRetireDrops
<1>. DEFINE Drops == \A s \in Slots : Lists(index, s) /\ ~Lists(index, s)' =>
                        /\ index' = Retire(index, s)
                        /\ \A t \in Slots \ {s} : index.version'[t] = index.version[t]
<1>1. IInv /\ [Next]_vars => [Drops]_vars
  <2>. SUFFICES ASSUME IInv, Next, NEW s \in Slots, Lists(index, s), ~Lists(index, s)'
                PROVE  /\ index' = Retire(index, s)
                       /\ \A t \in Slots \ {s} : index.version'[t] = index.version[t]
    OBVIOUS
  <2>1. ASSUME NEW dist \in Dists, NEW at \in 1 .. MaxAt, Publish(dist, at)
        PROVE  FALSE
    BY <2>1, StepPublish DEF Lists
  <2>2. ASSUME NEW t \in Slots, RetireVersion(t)
        PROVE  t = s
    BY <2>2, StepRetire DEF Lists
  <2>. QED
    BY <2>1, <2>2, StepRetire DEF Next
<1>. QED
  BY <1>1, CommandInvariant, PTL DEF Spec, OnlyRetireDrops

(* A dist whose tars are all listed can be published again at any date and  *)
(* changes no version: a publish run that failed half-way can be repeated.   *)
THEOREM RepeatIsHarmless == Spec => []RepeatChangesNothing
<1>1. ASSUME IInv, NEW dist \in Dists, NEW at \in 1 .. MaxAt, Listed(dist)
      PROVE  /\ MergeAllowed(index, Generate(dist, at))
             /\ Merge(index, Generate(dist, at)).version = index.version
  <2>. DEFINE again == Generate(dist, at)
  <2>1. Sound(again) /\ Sound(index)
    BY <1>1, GenerateSound DEF IInv
  <2>2. ASSUME NEW s \in Slots, NEW a \in Arches, Blob(again, s, a) # NoTar
        PROVE  Blob(index, s, a) = Blob(again, s, a)
    <3>1. PICK m \in Built(dist, s, a) : TRUE
      BY <2>2, GenerateBlob
    <3>2. Blob(again, s, a) = m.tar
      BY <3>1, GenerateBlob
    <3>. QED
      BY <1>1, <3>1, <3>2 DEF Built, Listed
  <2>3. MergeAllowed(index, again)
    BY <2>2 DEF MergeAllowed
  <2>4. ASSUME NEW s \in Slots
        PROVE  Merge(index, again).version[s] = index.version[s]
    <3>1. index.version[s] \in Entries
      BY <2>1 DEF Sound, Indexes
    <3>2. CASE ~Lists(index, s)
      <4>1. \A a \in Arches : Blob(again, s, a) = NoTar
        BY <2>1, <2>2, <3>2 DEF Sound, Serves
      <4>2. ~Lists(again, s)
        BY <2>1, <4>1 DEF Sound, Serves
      <4>. QED
        BY <3>2, <4>2 DEF Merge, Lists
    <3>3. CASE Lists(index, s) /\ ~Lists(again, s)
      BY <3>3 DEF Merge
    <3>4. CASE Lists(index, s) /\ Lists(again, s)
      <4>. DEFINE old == index.version[s]
      <4>1. Merge(index, again).version[s] = MergeVersion(old, again.version[s])
        BY <3>4 DEF Merge
      <4>2. \A a \in Arches : (IF old.blob[a] = NoTar THEN again.version[s].blob[a]
                               ELSE old.blob[a]) = old.blob[a]
        BY <2>2 DEF Blob
      <4>3. [a \in Arches |-> IF old.blob[a] = NoTar THEN again.version[s].blob[a]
                              ELSE old.blob[a]] = old.blob
        BY <3>1, <4>2 DEF Entries
      <4>4. MergeVersion(old, again.version[s]) = [old EXCEPT !.blob = old.blob]
        BY <4>3 DEF MergeVersion
      <4>. QED
        BY <3>1, <4>1, <4>4 DEF Entries
    <3>. QED
      BY <3>2, <3>3, <3>4
  <2>5. index.version \in [Slots -> Entries]
    BY <2>1 DEF Sound, Indexes
  <2>6. Merge(index, again).version = [s \in Slots |-> Merge(index, again).version[s]]
    BY DEF Merge
  <2>7. Merge(index, again).version = index.version
    BY <2>4, <2>5, <2>6
  <2>. QED
    BY <2>3, <2>7
<1>2. IInv => RepeatChangesNothing
  BY <1>1 DEF RepeatChangesNothing
<1>. QED
  BY <1>2, CommandInvariant, PTL

=============================================================================
