---------------------------- MODULE LibraryIndex ----------------------------
(***************************************************************************)
(* The index as data (internal/index): what one run of mcplib build leaves *)
(* in dist, the index Generate makes of it, Merge into the previous index  *)
(* and Retire.                                                             *)
(*                                                                         *)
(* A digest is modelled by the tar it is the digest of, and a tar by what  *)
(* the index knows of it: the architectures its manifest names, and which  *)
(* build of the version it is.  The order Canonicalise gives packages,     *)
(* versions and blobs is a function of the content (names and versions are *)
(* unique), so an index is a function and has no order of its own.  Sizes, *)
(* the os (always linux), the schema version and the signing keys are left *)
(* out.                                                                    *)
(***************************************************************************)
EXTENDS Naturals

CONSTANTS
  Names, Versions, Arches,
  Builds,      \* different outcomes of building one name@version
  NoTar,       \* no tar
  NoVersion    \* no version

Tars == [archs : (SUBSET Arches) \ {{}}, build : Builds]

ASSUME IndexAssumption == NoTar \notin Tars /\ NoVersion \notin Versions

Slots == Names \X Versions          \* name@version

Dates == Nat

(* A .meta.json and the tar beside it. *)
Metas == [name : Names, version : Versions, tar : Tars]

Slot(m) == <<m.name, m.version>>

(* One name@version of an index: its date, a tar for each architecture, and  *)
(* the architectures its embedded manifest names.                            *)
Absent == [at |-> 0, blob |-> [a \in Arches |-> NoTar], arch |-> {}]

Entries == [at : Dates, blob : [Arches -> Tars \union {NoTar}], arch : SUBSET Arches]

(* An index: its versions, and for each package the version whose manifest   *)
(* its title, description, homepage and license are taken from.              *)
Indexes == [version : [Slots -> Entries], card : [Names -> Versions \union {NoVersion}]]

Lists(idx, s)    == idx.version[s] # Absent
Blob(idx, s, a)  == idx.version[s].blob[a]
HasPackage(idx, n) == \E v \in Versions : Lists(idx, <<n, v>>)

Empty == [version |-> [s \in Slots |-> Absent], card |-> [n \in Names |-> NoVersion]]

-----------------------------------------------------------------------------
(* Generate.  One build of a server's recipe leaves one meta per             *)
(* architecture it was run for, all of the recipe's version.                 *)
IsDist(dist) == \A m, k \in dist : m.name = k.name => m.version = k.version

(* Mutant of Built: a tar is listed for every architecture. *)
BuiltForAny(dist, s, a) == {m \in dist : Slot(m) = s}

Built(dist, s, a) == {m \in dist : Slot(m) = s /\ a \in m.tar.archs}

(* versionFrom refuses two digests for one name@version and architecture.    *)
BuildsAgree(dist) ==
  \A s \in Slots, a \in Arches : \A m, k \in Built(dist, s, a) : m.tar = k.tar

(* The embedded manifest is the tars' own if all carry the same, and is      *)
(* rendered with the union of their architectures if not.                    *)
VersionFrom(dist, s, at) ==
  [at   |-> at,
   blob |-> [a \in Arches |-> IF Built(dist, s, a) = {} THEN NoTar
                              ELSE (CHOOSE m \in Built(dist, s, a) : TRUE).tar],
   arch |-> {a \in Arches : Built(dist, s, a) # {}}]

Generate(dist, at) ==
  [version |-> [s \in Slots |-> IF \E m \in dist : Slot(m) = s
                                THEN VersionFrom(dist, s, at) ELSE Absent],
   card    |-> [n \in Names |-> IF \E m \in dist : m.name = n
                                THEN (CHOOSE m \in dist : m.name = n).version
                                ELSE NoVersion]]

-----------------------------------------------------------------------------
(* Merge refuses to change a published digest.                               *)
MergeAllowed(prev, next) ==
  \A s \in Slots, a \in Arches :
     Blob(prev, s, a) # NoTar /\ Blob(next, s, a) # NoTar
       => Blob(prev, s, a) = Blob(next, s, a)

(* Mutant of MergeVersion: the new date wins. *)
MergeNewDate(old, new) ==
  [old EXCEPT !.at = new.at,
              !.blob = [a \in Arches |-> IF old.blob[a] = NoTar THEN new.blob[a]
                                         ELSE old.blob[a]]]

(* A version already listed keeps its date and its manifest, and gains the   *)
(* architectures it did not have.                                            *)
MergeVersion(old, new) ==
  [old EXCEPT !.blob = [a \in Arches |-> IF old.blob[a] = NoTar THEN new.blob[a]
                                         ELSE old.blob[a]]]

(* Mutants of Merge: the new build wins; what was not built is not carried forward. *)
MergeReplaces(prev, next) ==
  [version |-> [s \in Slots |-> IF Lists(next, s) THEN next.version[s] ELSE prev.version[s]],
   card    |-> [n \in Names |-> IF HasPackage(next, n) THEN next.card[n]
                                ELSE prev.card[n]]]

MergeBuiltOnly(prev, next) ==
  [version |-> [s \in Slots |-> IF Lists(prev, s) /\ Lists(next, s)
                                THEN MergeVersion(prev.version[s], next.version[s])
                                ELSE next.version[s]],
   card    |-> next.card]

Merge(prev, next) ==
  [version |-> [s \in Slots |-> IF ~Lists(prev, s) THEN next.version[s]
                                ELSE IF ~Lists(next, s) THEN prev.version[s]
                                ELSE MergeVersion(prev.version[s], next.version[s])],
   card    |-> [n \in Names |-> IF HasPackage(next, n) THEN next.card[n]
                                ELSE prev.card[n]]]

(* Retire drops a version, and with the last one the package.                *)
Retire(idx, s) ==
  LET left == [idx.version EXCEPT ![s] = Absent]
  IN  [version |-> left,
       card    |-> [idx.card EXCEPT ![s[1]] =
                      IF \E v \in Versions : left[<<s[1], v>>] # Absent
                      THEN idx.card[s[1]] ELSE NoVersion]]

=============================================================================
