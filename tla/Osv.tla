-------------------------------- MODULE Osv --------------------------------
(***************************************************************************)
(* What the OSV database's records say of a locked dependency              *)
(* (internal/audit/osv.go).  A record is                                   *)
(*   [id, aliases: a set of ids,                                           *)
(*    severity: a sequence of [type, band], band "" for a vector that does *)
(*      not parse (the CVSS formula itself is left out),                   *)
(*    database: the database's own band or "",                             *)
(*    affected: a set of [package: a name or "",                           *)
(*                        ranges: a set of [type, events]],                *)
(*    hits: the [name, version] pairs the service returns it for].         *)
(* An event is [kind, version]; an event with no version is dropped when   *)
(* it is read and is not there.                                            *)
(***************************************************************************)
EXTENDS Versions

CONSTANT Beginning    \* the version "0": since the beginning

\* severityOf: the first CVSS v3 vector that parses, else the database's
\* own band.
severityOf(record) ==
  LET parsed == SelectSeq(record.severity, LAMBDA s : s.type = "CVSS_V3" /\ s.band # "")
  IN  IF parsed # <<>> THEN parsed[1].band
      ELSE IF record.database # "" THEN record.database ELSE "UNKNOWN"

\* rangeFixes' cmp: "0" is below every other version.
CompareInRange(ecosystem, a, b) ==
  IF a = Beginning /\ b = Beginning THEN 0
  ELSE IF a = Beginning THEN -1
  ELSE IF b = Beginning THEN 1
  ELSE compareVersion(ecosystem, a, b)

\* Whether every version of the range can be placed.
Orderable(ecosystem, installed, events) ==
  /\ installed # Beginning
  /\ Parses(ecosystem, installed)
  /\ \A i \in DOMAIN events :
       events[i].version = Beginning \/ Parses(ecosystem, events[i].version)

\* The insertion sort, which keeps the order of equal versions: an event
\* goes in front of those behind the last that is not above it.
Insert(ecosystem, points, e) ==
  LET Above(i) == CompareInRange(ecosystem, points[i].version, e.version) > 0
      place == CHOOSE p \in 0 .. Len(points) :
                 (p = 0 \/ ~Above(p)) /\ \A i \in p + 1 .. Len(points) : Above(i)
  IN  [i \in 1 .. Len(points) + 1 |->
         IF i <= place THEN points[i] ELSE IF i = place + 1 THEN e ELSE points[i - 1]]

\* sorted[n] is what the sort makes of the first n events.
SortFrom(ecosystem, events) ==
  LET sorted[n \in 0 .. Len(events)] ==
        IF n = 0 THEN <<>> ELSE Insert(ecosystem, sorted[n - 1], events[n])
  IN  sorted

SortEvents(ecosystem, events) == SortFrom(ecosystem, events)[Len(events)]

\* Mutant of WalkEvent: the end of any interval that began at or below the
\* installed version is taken for its fix.
WalkEventAnyEnd(ecosystem, installed, walk, e) ==
  IF e.kind = "introduced"
    THEN IF walk.open THEN walk ELSE [walk EXCEPT !.open = TRUE, !.lower = e.version]
  ELSE IF ~walk.open THEN walk
  ELSE [walk EXCEPT !.open = FALSE,
                    !.fixes = IF /\ e.kind = "fixed"
                                 /\ CompareInRange(ecosystem, installed, walk.lower) >= 0
                                THEN @ \union {e.version} ELSE @]

\* One event of the walk: "introduced" opens an interval unless one is open,
\* any other closes the open one, and a "fixed" that closes the interval the
\* installed version lies in is a fix.
WalkEvent(ecosystem, installed, walk, e) ==
  IF e.kind = "introduced"
    THEN IF walk.open THEN walk ELSE [walk EXCEPT !.open = TRUE, !.lower = e.version]
  ELSE IF ~walk.open THEN walk
  ELSE [walk EXCEPT !.open = FALSE,
                    !.fixes = IF /\ e.kind = "fixed"
                                 /\ CompareInRange(ecosystem, installed, walk.lower) >= 0
                                 /\ CompareInRange(ecosystem, installed, e.version) < 0
                                THEN @ \union {e.version} ELSE @]

\* walk[n] is where the walk has come to after the first n events.
WalkFrom(ecosystem, installed, points) ==
  LET walk[n \in 0 .. Len(points)] ==
        IF n = 0 THEN [open |-> FALSE, lower |-> Beginning, fixes |-> {}]
                 ELSE WalkEvent(ecosystem, installed, walk[n - 1], points[n])
  IN  walk

Points(events) == {events[i] : i \in DOMAIN events}

Fixed(points) == {e.version : e \in {x \in points : x.kind = "fixed"}}

rangeFixes(ecosystem, installed, events) ==
  IF ~Orderable(ecosystem, installed, events)
    THEN Fixed(Points(events))
    ELSE WalkFrom(ecosystem, installed, SortEvents(ecosystem, events))[Len(events)].fixes

(***************************************************************************)
(* The reference, by OSV's definition: a version is affected if the event  *)
(* nearest at or below it is an introduced, and then the nearest of the    *)
(* other events above it, if it is a fixed, is its fix.                    *)
(***************************************************************************)
NearestFix(ecosystem, installed, points) ==
  LET AtMost(a, b) == CompareInRange(ecosystem, a, b) <= 0
      below == {e \in points : AtMost(e.version, installed)}
      ends == {e \in points \ below : e.kind # "introduced"}
      affected == \E e \in below : /\ e.kind = "introduced"
                                  /\ \A x \in below : AtMost(x.version, e.version)
  IN  IF affected THEN Fixed({e \in ends : \A x \in ends : AtMost(e.version, x.version)})
                  ELSE {}

\* Two events at one version, of which the code takes the first listed.
Tied(ecosystem, events) ==
  \E i, j \in DOMAIN events :
    i < j /\ CompareInRange(ecosystem, events[i].version, events[j].version) = 0

\* The ranges that speak of dep: of its own package, and not by commits.
RangesOf(record, dep) ==
  {range \in UNION {a.ranges : a \in {b \in record.affected : b.package \in {"", dep.name}}} :
     range.type # "GIT"}

fixedVersions(record, dep) ==
  UNION {rangeFixes(dep.ecosystem, dep.version, range.events) : range \in RangesOf(record, dep)}

\* Query: every record the service returns for a dependency, under the
\* record's own id.  Batches of a thousand are left out: their answers are
\* concatenated.
Query(known, deps) ==
  {[id |-> hit[1].id, aliases |-> hit[1].aliases, severity |-> severityOf(hit[1]),
    fixed |-> fixedVersions(hit[1], hit[2]), dep |-> hit[2]] :
     hit \in {h \in known \X deps :
                [name |-> h[2].name, version |-> h[2].version] \in h[1].hits}}
=============================================================================
