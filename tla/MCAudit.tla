------------------------------ MODULE MCAudit ------------------------------
(***************************************************************************)
(* Worlds for the audit: many with one recipe and one day, each a question *)
(* to the evidence (a range, a licence, a lockfile), and two of three days *)
(* for the waivers and the advisories behind them.                         *)
(***************************************************************************)
EXTENDS Audit

MCServers == {"s1", "s2"}
MCPermits == {"MIT"}
MCRefuses == {"GPL-3.0"}

\* Sequences over S of length 1 to n.
UpTo(S, n) == UNION {[1 .. k -> S] : k \in 1 .. n}

(***************************************************************************)
(* Versions, in their order; the last two of PyPI's third set are equal.   *)
(***************************************************************************)
Sem(pre) == [core |-> <<1, 0, 0>>, pre |-> pre]
N(n) == [num |-> TRUE, val |-> n]
A(rank) == [num |-> FALSE, val |-> rank]
Py(release, pre, post, dev) == [epoch |-> 0, release |-> release, pre |-> pre, post |-> post, dev |-> dev]

NpmLadder ==
  <<{Sem(<<N(1)>>)}, {Sem(<<A(1)>>)}, {Sem(<<A(1), N(1)>>)}, {Sem(<<A(1), A(2)>>)},
    {Sem(<<A(2), N(2)>>)}, {Sem(<<A(2), N(11)>>)}, {Sem(<<>>)},
    {[core |-> <<1, 0, 2>>, pre |-> <<>>]}, {[core |-> <<1, 0, 10>>, pre |-> <<>>]}>>

PyPILadder ==
  <<{Py(<<1, 0>>, <<>>, <<>>, <<1>>)}, {Py(<<1, 0>>, <<0, 1>>, <<>>, <<1>>)},
    {Py(<<1, 0>>, <<0, 1>>, <<>>, <<>>)}, {Py(<<1, 0>>, <<2, 1>>, <<>>, <<>>)},
    {Py(<<1, 0>>, <<>>, <<>>, <<>>), Py(<<1, 0, 0>>, <<>>, <<>>, <<>>)},
    {Py(<<1, 0>>, <<>>, <<1>>, <<1>>)}, {Py(<<1, 0>>, <<>>, <<1>>, <<>>)},
    {Py(<<1, 1>>, <<>>, <<>>, <<>>)}, {[Py(<<0>>, <<>>, <<>>, <<>>) EXCEPT !.epoch = 1]}>>

Ladder(ecosystem) == IF ecosystem = "PyPI" THEN PyPILadder ELSE NpmLadder
On(ladder, S) == UNION {ladder[i] : i \in S}
Position(ecosystem, v) ==
  IF v = Beginning THEN 0 ELSE CHOOSE i \in DOMAIN Ladder(ecosystem) : v \in Ladder(ecosystem)[i]

Events(kinds, versions) == [kind : kinds, version : versions]

(***************************************************************************)
(* One recipe, one day                                                     *)
(***************************************************************************)
Entry(name, version, licence) ==
  [name |-> name, version |-> version, dev |-> FALSE, link |-> FALSE, licence |-> licence]
Recipe(lock, licence, vettedOn, waivers) ==
  [lock |-> lock, licence |-> licence, vettedOn |-> vettedOn, waivers |-> waivers]
Single(recipe, records) ==
  [records |-> {}, known |-> records, offers |-> {[server |-> "s1", recipe |-> recipe]}, days |-> 0]

Record(id, aliases, band, affected, hits) ==
  [id |-> id, aliases |-> aliases, severity |-> <<[type |-> "CVSS_V3", band |-> band]>>, database |-> "",
   affected |-> affected, hits |-> hits]

RangeWorld(ecosystem, installed, events) ==
  Single(Recipe([kind |-> ecosystem, entries |-> {Entry("a", installed, NoLicence)}], <<"MIT">>, 0, <<>>),
         {Record("GHSA-1", {}, "HIGH",
                 {[package |-> "a", ranges |-> {[type |-> "ECOSYSTEM", events |-> events]}]},
                 {[name |-> "a", version |-> installed]})})

\* Every pair of versions, with every version installed.
PairWorlds(ecosystem) ==
  LET all == On(Ladder(ecosystem), DOMAIN Ladder(ecosystem))
  IN  {RangeWorld(ecosystem, v, <<[kind |-> "introduced", version |-> lo], [kind |-> "fixed", version |-> hi]>>) :
         v \in all, lo \in all, hi \in all}

\* Lists of events in every order: branches, gaps and ends without a fix.
WalkWorlds ==
  LET few == On(NpmLadder, {1, 7, 8})
      opens == Events({"introduced"}, few \union {Beginning})
  IN  {RangeWorld("npm", v, es) : v \in few \union {Unparsed, Beginning},
         es \in UpTo(opens \union Events({"fixed"}, few \union {Unparsed})
                           \union Events({"last_affected", "limit"}, few), 2)
                \union [1 .. 3 -> opens \union Events({"fixed"}, few)]
                \union [1 .. 4 -> Events({"introduced"}, {Beginning} \union On(NpmLadder, {7}))
                                  \union Events({"fixed"}, On(NpmLadder, {1, 8}))]}

LicenceWorlds ==
  LET Lone(tokens) == Single(Recipe([kind |-> "none", entries |-> {}], tokens, 0, <<>>), {})
      ids == {"MIT", "EPL", "GPL-3.0"}
      ops == {"AND", "OR"}
  IN  {Lone(tokens) : tokens \in
        {<<>>} \union UpTo({"MIT", "GPL-3.0", "AND", "OR", "WITH", "(", ")"}, 3)
        \union [1 .. 4 -> {"MIT", "AND", "WITH", "(", ")"}]
        \union {<<a, o, b, p, c, q, d>> : a \in ids, b \in ids, c \in ids, d \in ids, o \in ops, p \in ops, q \in ops}
        \union {<<"(", a, o, b, ")", p, c>> : a \in ids, b \in ids, c \in ids, o \in ops, p \in ops}
        \union {<<a, o, "(", b, p, c, ")">> : a \in ids, b \in ids, c \in ids, o \in ops, p \in ops}
        \union {<<a, "WITH", "e", o, b, x>> : a \in ids, b \in ids, o \in ops, x \in {")", "MIT", "OR"}}}

\* Lockfiles: entries that are not shipped, records of other packages, by
\* commit, with a second vector or with none, and lockfiles with no entries.
LockWorlds ==
  LET one == CHOOSE v \in NpmLadder[7] : TRUE
      two == CHOOSE v \in NpmLadder[8] : TRUE
      Dev(e) == [e EXCEPT !.dev = TRUE]
      Link(e) == [e EXCEPT !.link = TRUE]
      open == <<[kind |-> "introduced", version |-> Beginning], [kind |-> "fixed", version |-> two]>>
      Affected(package, type) == [package |-> package, ranges |-> {[type |-> type, events |-> open]}]
      Hit(name) == {[name |-> name, version |-> one]}
      entries == {Entry("a", one, NoLicence), Entry("b", one, <<"GPL-3.0">>), Dev(Entry("b", one, <<"GPL-3.0">>)),
                  Link(Entry("a", one, NoLicence)), Entry("c", NoVersion, <<"GPL-3.0">>)}
      records == {Record("GHSA-1", {}, "HIGH", {Affected(p, t)}, Hit("a")) : p \in {"", "a", "b"}, t \in {"GIT", "SEMVER"}}
                 \union {[Record("GHSA-1", {}, "", {}, Hit("a")) EXCEPT !.database = d] : d \in {"", "CRITICAL", "LOW"}}
                 \union {[Record("GHSA-1", {}, "", {}, Hit("a")) EXCEPT
                            !.severity = <<[type |-> "CVSS_V2", band |-> "CRITICAL"], [type |-> "CVSS_V3", band |-> ""],
                                           [type |-> "CVSS_V3", band |-> "CRITICAL"]>>]}
  IN  {Single(Recipe([kind |-> "npm", entries |-> es], <<"MIT">>, 0, <<>>), {record}) :
         es \in SUBSET entries, record \in records}
      \union
      {Single(Recipe([kind |-> "Go", entries |-> {Entry("a", one, NoLicence)}], <<"MIT">>, 0, <<>>), {record}) :
         record \in records}
      \union
      {Single(Recipe([kind |-> kind, entries |-> es], <<"MIT">>, 0, <<>>), {}) :
         kind \in {"missing", "none", "PyPI"}, es \in {{}, {Entry("a", NoVersion, NoLicence)}}}

(***************************************************************************)
(* Three days.  Waiving: a CVE with two advisories, waivers by either id   *)
(* in either order, with every vetted_on and expires.  Reporting: two      *)
(* servers, a second advisory, a fix that comes later, a pin that clears   *)
(* one server's findings.                                                  *)
(***************************************************************************)
Waiving == [name |-> "waiving"]
Reporting == [name |-> "reporting"]

LongWorlds ==
  LET one == CHOOSE v \in NpmLadder[7] : TRUE
      two == CHOOSE v \in NpmLadder[8] : TRUE
      Ranges(events) == {[package |-> "", ranges |-> {[type |-> "SEMVER", events |-> events]}]}
      since == [kind |-> "introduced", version |-> Beginning]
      fixed == [kind |-> "fixed", version |-> two]
      Hit(name) == {[name |-> name, version |-> one]}
      ghsa == Record("GHSA-1", {"CVE-1"}, "CRITICAL", Ranges(<<since>>), Hit("a"))
      mal == Record("MAL-1", {"CVE-1"}, "HIGH", Ranges(<<since, fixed>>), Hit("a"))
      b(events) == Record("GHSA-2", {}, "HIGH", Ranges(events), Hit("b"))
      On1(pin, waivers, v) ==
        [server |-> "s1",
         recipe |-> Recipe([kind |-> "npm", entries |-> {Entry("a", pin, <<"MIT">>), Entry("b", one, NoLicence)}],
                           <<"MIT">>, v, waivers)]
      On2 == [server |-> "s2",
              recipe |-> Recipe([kind |-> "npm", entries |-> {Entry("b", one, NoLicence)}], <<"MIT">>, 0, <<>>)]
      W(id, package, expires) == [id |-> id, package |-> package, expires |-> expires, complete |-> TRUE]
      waiving ==
        {On1(one, ws, v) : v \in {0, 1},
           ws \in {<<W("CVE-1", "a", e)>> : e \in 1 .. 2}
                  \union {<<W("CVE-1", "a", 1), W("GHSA-1", "a", 1)>>, <<W("GHSA-1", "a", 1), W("CVE-1", "a", 1)>>}}
        \union
        {On1(one, ws, 0) :
           ws \in {<<W("GHSA-1", "a", 1)>>, <<W("CVE-1", "a", 1), W("GHSA-2", "b", 1)>>,
                   <<W("CVE-1", "a", 1), W("CVE-1", "a", 0)>>,
                   <<[W("CVE-1", "a", 1) EXCEPT !.complete = FALSE]>>}}
      reporting ==
        {On1(one, <<W("CVE-1", "a", 1)>>, 0), On1(two, <<>>, 0), On2}
  IN  [w \in {Waiving, Reporting} |->
         IF w = Waiving
           THEN [records |-> {}, known |-> {ghsa, mal, b(<<since>>)}, offers |-> waiving, days |-> 2]
           ELSE [records |-> {mal, b(<<since>>), b(<<since, fixed>>)}, known |-> {ghsa, b(<<since>>)},
                 offers |-> reporting, days |-> 2]]

MCWorlds ==
  PairWorlds("npm") \union PairWorlds("PyPI") \union WalkWorlds
  \union LicenceWorlds \union LockWorlds \union {Waiving, Reporting}

MCOutside(w) == IF w \in {Waiving, Reporting} THEN LongWorlds[w] ELSE w

\* An installed version and the events of a record that speaks of it are
\* ordered as their ecosystem orders them: numbers as numbers, a pre-release
\* and a dev release before what they lead to, 1.0 at 1.0.0
\* (compareVersion).
VersionsInOrder ==
  pull # NoPull =>
    \A dep \in ReadLock(pull.recipe.lock) :
      \A record \in {k \in known : [name |-> dep.name, version |-> dep.version] \in k.hits} :
      \A range \in RangesOf(record, dep) :
      LET placed == {v \in {dep.version} \union {e.version : e \in Points(range.events)} :
                       v = Beginning \/ Parses(dep.ecosystem, v)}
          At(v) == Position(dep.ecosystem, v)
      IN  \A a, b \in placed : CompareInRange(dep.ecosystem, a, b) = cmpInt(At(a), At(b))
=============================================================================
