------------------------------ MODULE Versions ------------------------------
(***************************************************************************)
(* The order of two versions of one package (internal/audit/version.go).   *)
(* A version is what its parser made of the string: for npm and Go         *)
(*   [core |-> <<major, minor, patch>>, pre |-> a sequence of identifiers],*)
(* an identifier being [num |-> BOOLEAN, val |-> Nat], val an alphabetic   *)
(* one's rank in the byte order; for PyPI                                  *)
(*   [epoch |-> n, release |-> <<n, ...>>, pre |-> <<>> or <<rank, n>>,    *)
(*    post |-> <<>> or <<n>>, dev |-> <<>> or <<n>>].                      *)
(* What the parsers drop (a leading v, build and local metadata, the       *)
(* spelling of a, b and rc) is not there.  Unparsed is what they refuse.   *)
(***************************************************************************)
EXTENDS Integers, Sequences

CONSTANT Unparsed

Ecosystems == {"npm", "Go", "PyPI"}

Semvers == [core : [1 .. 3 -> Nat], pre : Seq([num : BOOLEAN, val : Nat])]

Pep440s == [epoch : Nat, release : Seq(Nat), pre : {<<>>} \union (Nat \X Nat),
            post : Seq(Nat), dev : Seq(Nat)]

VersionsOf(ecosystem) == IF ecosystem = "PyPI" THEN Pep440s ELSE Semvers

cmpInt(a, b) == IF a < b THEN -1 ELSE IF a > b THEN 1 ELSE 0

\* The first comparison that tells the two apart decides.
Then(c, d) == IF c = 0 THEN d ELSE c

Lexical(cs) ==
  LET telling == {i \in DOMAIN cs : cs[i] # 0}
  IN  IF telling = {} THEN 0 ELSE cs[CHOOSE i \in telling : \A j \in telling : i <= j]

\* A numeric identifier sorts before an alphanumeric one.
CompareIds(x, y) ==
  IF x.num = y.num THEN cmpInt(x.val, y.val) ELSE IF x.num THEN -1 ELSE 1

\* A pre-release sorts before its release, a shorter one before what
\* continues it.
compareSemver(a, b) ==
  LET Released(v) == IF v.pre = <<>> THEN 1 ELSE 0
      shared == 1 .. (IF Len(a.pre) < Len(b.pre) THEN Len(a.pre) ELSE Len(b.pre))
  IN  Then(Lexical([i \in 1 .. 3 |-> cmpInt(a.core[i], b.core[i])]),
      Then(cmpInt(Released(a), Released(b)),
      Then(Lexical([i \in shared |-> CompareIds(a.pre[i], b.pre[i])]),
           cmpInt(Len(a.pre), Len(b.pre)))))

\* Above every number a version carries: TLC's largest integer, for math.MaxInt.
Latest == 2147483647

\* Mutant of SortKey: a dev release is taken for one after the pre-releases.
SortKeyNoDev(v) ==
  <<IF v.pre # <<>> THEN v.pre[1] ELSE Latest,
    IF v.pre # <<>> THEN v.pre[2] ELSE 0,
    IF v.post # <<>> THEN v.post[1] ELSE -1,
    IF v.dev # <<>> THEN v.dev[1] ELSE Latest>>

\* The four numbers after the release.  An absent pre sorts after any
\* pre-release, unless the version is the dev release of a final one.
SortKey(v) ==
  <<IF v.pre # <<>> THEN v.pre[1] ELSE IF v.post = <<>> /\ v.dev # <<>> THEN -1 ELSE Latest,
    IF v.pre # <<>> THEN v.pre[2] ELSE 0,
    IF v.post # <<>> THEN v.post[1] ELSE -1,
    IF v.dev # <<>> THEN v.dev[1] ELSE Latest>>

\* Missing segments of a release are zero.
comparePEP440(a, b) ==
  LET Segment(v, i) == IF i <= Len(v.release) THEN v.release[i] ELSE 0
      longest == IF Len(a.release) < Len(b.release) THEN Len(b.release) ELSE Len(a.release)
  IN  Then(cmpInt(a.epoch, b.epoch),
      Then(Lexical([i \in 1 .. longest |-> cmpInt(Segment(a, i), Segment(b, i))]),
           Lexical([i \in 1 .. 4 |-> cmpInt(SortKey(a)[i], SortKey(b)[i])])))

\* compareVersion's ok, asked of each of the two.
Parses(ecosystem, v) == ecosystem \in Ecosystems /\ v # Unparsed

compareVersion(ecosystem, a, b) ==
  IF ecosystem = "PyPI" THEN comparePEP440(a, b) ELSE compareSemver(a, b)
=============================================================================
