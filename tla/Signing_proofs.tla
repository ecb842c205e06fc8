--------------------------- MODULE Signing_proofs ---------------------------
(***************************************************************************)
(* Who verifies the index, and the blobs, through any number of rotations. *)
(*                                                                         *)
(* Current is the newest key whose secret is sure to be right: the newest, *)
(* or while the rotation to it is open the one before.  Every release has  *)
(* a key no newer than Current and leaves no gap (HeldFits), and what is   *)
(* deployed has a good signature by a key no older (SiteFits), and so will *)
(* what the run under way deploys (RunFits).  When the overlap closes      *)
(* Current changes: that someone saw the site verify under the new key     *)
(* tells, by Made and RunFollows, that the secret is the right one and     *)
(* that the run started with it.                                           *)
(***************************************************************************)
EXTENDS Signing, TLAPS

Closed == conf.names = <<Newest>>
Current == IF Closed THEN Newest ELSE Newest - 1

KeysFit ==
  /\ Newest \in Keys
  /\ pubs = 1 .. Newest
  /\ \A k \in Keys : secret[k] \in {k, Stranger}
  /\ DOMAIN secret = Keys

ConfFits ==
  \/ conf = Single(Newest)
  \/ /\ Newest - 1 \in Keys
     /\ conf.names \in {<<Newest - 1>>, Overlap}
     /\ conf.index \subseteq Both /\ conf.index # {}
     /\ conf.tars \subseteq Both /\ conf.tars # {}

SecretFits == \A k \in pubs : k <= Current => secret[k] = k

Shaped(names) ==
  \E k \in Keys : names = <<k>> \/ (k - 1 \in Keys /\ names = <<k, k - 1>>)

\* Signature files by mcplib sign, once for each key of with: only the newest
\* key's may be by a wrong secret.
Signed(names, with, sigs) ==
  /\ Shaped(names)
  /\ with # {} /\ with \subseteq Named(names)
  /\ with \subseteq DOMAIN sigs /\ DOMAIN sigs \subseteq with \union {Bare}
  /\ \A k \in with : sigs[k] \in {k, Stranger} /\ (k # names[1] => sigs[k] = k)
  /\ Bare \in DOMAIN sigs => names[1] \in with /\ sigs[Bare] = sigs[names[1]]

\* No signature is by a key whose secret is wrong.
Made(with, sigs) ==
  /\ with \subseteq pubs
  /\ \A k \in with : sigs[k] = k => secret[k] = k

Good(with, sigs) == \E k \in with : k >= Current /\ sigs[k] = k

SiteFits ==
  /\ Signed(site.names, site.with, site.sigs)
  /\ Made(site.with, site.sigs)
  /\ Good(site.with, site.sigs)

IsRun(r) == r = [step |-> r.step, names |-> r.names, with |-> r.with, pubs |-> r.pubs,
                 sigs |-> r.sigs, tars |-> r.tars, built |-> r.built, listed |-> r.listed]

RunFits ==
  run # NoRun =>
    /\ IsRun(run)
    /\ Signed(run.names, run.with, run.sigs)
    /\ Made(run.with, run.sigs)
    /\ \/ Good(run.with, run.sigs)
       \/ run.step = "signed" /\ \A k \in Named(run.names) : k >= Current

RunFollows ==
  run # NoRun /\ Newest \in site.with /\ site.sigs[Newest] = Newest /\ Newest \in run.with
    => run.sigs[Newest] = Newest

\* The keys of a release: no key between two of them is missing.
Shipped(keys) ==
  /\ keys \subseteq pubs
  /\ \E k \in keys : k <= Current
  /\ \A j, k \in keys, m \in Keys : j <= m /\ m <= k => m \in keys

HeldFits ==
  /\ Shipped(release)
  /\ DOMAIN held = Gateways
  /\ \A g \in Gateways : Shipped(held[g])

IInv == /\ KeysFit /\ ConfFits /\ SecretFits
        /\ SiteFits /\ RunFits /\ RunFollows /\ HeldFits

-----------------------------------------------------------------------------
LEMMA NewestIs ==
  ASSUME NEW n \in Keys, pubs = 1 .. n
  PROVE  Newest = n
<1>1. n \in pubs /\ \A j \in pubs : j <= n
  BY SigningAssumption DEF Keys
<1>2. \A k \in pubs : (\A j \in pubs : j <= k) => k = n
  BY <1>1 DEF Keys
<1> QED BY <1>1, <1>2 DEF Newest

\* The ids of SIGNING_KEYS as a set.
LEMMA NamedOne == \A k : Named(<<k>>) = {k}
BY DEF Named

LEMMA NamedTwo == \A j, k : Named(<<j, k>>) = {j, k} /\ <<j, k>>[1] = j
<1> TAKE j, k
<1>1. DOMAIN <<j, k>> = {1, 2} /\ <<j, k>>[1] = j /\ <<j, k>>[2] = k
  OBVIOUS
<1> QED BY <1>1 DEF Named

\* One key, or two that follow each other, the newer first.
LEMMA NamedShape ==
  ASSUME NEW names, Shaped(names)
  PROVE  /\ names # <<>>
         /\ names[1] \in Keys /\ names[1] \in Named(names)
         /\ Named(names) \subseteq Keys
         /\ \A k \in Named(names) : k = names[1] \/ k = names[1] - 1
<1>1. PICK a \in Keys : names = <<a>> \/ (a - 1 \in Keys /\ names = <<a, a - 1>>)
  BY DEF Shaped
<1>2. CASE names = <<a>>
  BY <1>1, <1>2, NamedOne
<1>3. CASE a - 1 \in Keys /\ names = <<a, a - 1>>
  <2>1. Named(names) = {a, a - 1} /\ names[1] = a
    BY <1>3, NamedTwo
  <2>2. names # <<>>
    BY <1>3
  <2> QED BY <1>1, <1>3, <2>1, <2>2
<1> QED BY <1>1, <1>2, <1>3

\* A named key under which something verifies has its own, good signature
\* there: the unsuffixed file is the newest key's (keys.go's FileSigs).
LEMMA FoundIsGood ==
  ASSUME NEW names, NEW with, NEW sigs, Signed(names, with, sigs),
         NEW k \in Named(names), k \in FileSigs(sigs, k)
  PROVE  k \in with /\ sigs[k] = k
<1>1. k \in Keys /\ names[1] \in Keys
  BY NamedShape DEF Signed
<1>2. k # Bare /\ k # Stranger
  BY <1>1 DEF Keys, Bare, Stranger
<1>3. CASE k \in DOMAIN sigs
  BY <1>2, <1>3 DEF Signed, FileSigs
<1>4. CASE k \notin DOMAIN sigs
  <2>1. Bare \in DOMAIN sigs /\ sigs[Bare] = k
    BY <1>4 DEF FileSigs
  <2>2. names[1] \in with /\ sigs[names[1]] = k
    BY <2>1 DEF Signed
  <2>3. k = names[1]
    BY <1>2, <2>2 DEF Signed
  <2> QED BY <1>4, <2>2, <2>3 DEF Signed
<1> QED BY <1>3, <1>4

\* Current while the rotation is closed and while it is open.
LEMMA CurrentKey ==
  ASSUME KeysFit, ConfFits
  PROVE  /\ Newest \in Nat /\ Newest >= 1 /\ Newest <= Generations
         /\ Current \in pubs /\ Current \in Keys /\ pubs \subseteq Keys
         /\ Closed <=> conf = Single(Newest)
         /\ ~Closed => /\ Newest - 1 \in Keys /\ Current = Newest - 1
                       /\ conf.names \in {<<Newest - 1>>, Overlap}
                       /\ conf.index \subseteq Both /\ conf.index # {}
                       /\ conf.tars \subseteq Both /\ conf.tars # {}
         /\ Closed => Current = Newest
         /\ <<Newest - 1>> # <<Newest>> /\ Overlap # <<Newest>>
<1>1. Newest \in Nat /\ Newest >= 1 /\ Newest <= Generations
  BY SigningAssumption DEF KeysFit, Keys
<1>2. conf = Single(Newest) => Closed
  BY DEF Closed, Single
<1>3. <<Newest - 1>> # <<Newest>> /\ Overlap # <<Newest>>
  <2>1. <<Newest - 1>>[1] = Newest - 1 /\ <<Newest>>[1] = Newest
    OBVIOUS
  <2>2. Len(Overlap) = 2 /\ Len(<<Newest>>) = 1
    BY DEF Overlap
  <2> QED BY <2>1, <2>2, <1>1
<1>4. conf # Single(Newest) =>
        /\ ~Closed /\ Newest - 1 \in Keys
        /\ conf.names \in {<<Newest - 1>>, Overlap}
        /\ conf.index \subseteq Both /\ conf.index # {}
        /\ conf.tars \subseteq Both /\ conf.tars # {}
  BY <1>3 DEF ConfFits, Closed
<1>5. Current \in Keys
  BY <1>1, <1>2, <1>4 DEF Current, KeysFit
<1>6. Current \in pubs /\ pubs \subseteq Keys
  <2>1. Current \in Nat /\ 1 <= Current /\ Current <= Newest
    BY <1>1, <1>5 DEF Current, Keys
  <2> QED BY <2>1, <1>1, SigningAssumption DEF KeysFit, Keys
<1> QED BY <1>1, <1>2, <1>3, <1>4, <1>5, <1>6 DEF Current

THEOREM InitFits == Init => IInv
<1> SUFFICES ASSUME Init PROVE IInv
  OBVIOUS
<1>1. 1 \in Keys /\ pubs = 1 .. 1 /\ 1 # Bare
  BY SigningAssumption DEF Init, Keys, Bare
<1>2. Newest = 1
  BY <1>1, NewestIs
<1>3. KeysFit
  BY <1>1, <1>2 DEF KeysFit, Init
<1>4. ConfFits /\ conf = Single(Newest)
  BY <1>2 DEF ConfFits, Init
<1>5. Closed /\ Current = 1
  BY <1>2, <1>4 DEF Closed, Current, Single
<1>6. SecretFits
  BY <1>1, <1>5 DEF SecretFits, Init
<1>7. SiteFits
  <2>1. site.sigs = FirstSigs /\ site.names = <<1>> /\ site.with = {1}
    BY DEF Init
  <2>2. Signed(<<1>>, {1}, FirstSigs)
    BY <1>1, NamedOne DEF Signed, Shaped, FirstSigs
  <2>3. Made({1}, FirstSigs) /\ Good({1}, FirstSigs)
    BY <1>1, <1>5 DEF Made, Good, FirstSigs, Init
  <2> QED BY <2>1, <2>2, <2>3 DEF SiteFits
<1>8. RunFits /\ RunFollows
  BY DEF RunFits, RunFollows, Init
<1>9. HeldFits
  <2>1. Shipped({1})
    BY <1>1, <1>5 DEF Shipped, Keys
  <2> QED BY <2>1 DEF HeldFits, Init
<1> QED BY <1>3, <1>4, <1>6, <1>7, <1>8, <1>9 DEF IInv

\* What a step that leaves the keys, the workflow and the secrets alone
\* leaves alone with them.
LEMMA SamePeople ==
  ASSUME conf' = conf, pubs' = pubs, secret' = secret
  PROVE  /\ Newest' = Newest /\ Current' = Current /\ Closed' = Closed
         /\ KeysFit => KeysFit'
         /\ ConfFits => ConfFits'
         /\ SecretFits => SecretFits'
         /\ \A with, sigs : Made(with, sigs)' = Made(with, sigs)
         /\ \A with, sigs : Good(with, sigs)' = Good(with, sigs)
         /\ \A keys : Shipped(keys)' = Shipped(keys)
<1>1. Newest' = Newest
  BY DEF Newest
<1>2. Overlap' = Overlap /\ Both' = Both /\ Closed' = Closed /\ Current' = Current
  BY <1>1 DEF Overlap, Both, Closed, Current
<1>3. KeysFit => KeysFit'
  BY <1>1 DEF KeysFit
<1>4. ConfFits => ConfFits'
  BY <1>1, <1>2 DEF ConfFits, Single
<1>5. SecretFits => SecretFits'
  BY <1>2 DEF SecretFits
<1>6. ASSUME NEW with, NEW sigs
      PROVE  Made(with, sigs)' = Made(with, sigs) /\ Good(with, sigs)' = Good(with, sigs)
  BY <1>2 DEF Made, Good
<1>7. ASSUME NEW keys PROVE Shipped(keys)' = Shipped(keys)
  BY <1>2 DEF Shipped
<1> QED BY <1>1, <1>2, <1>3, <1>4, <1>5, <1>6, <1>7

-----------------------------------------------------------------------------
(* A publish run. *)

\* What mcplib sign makes with keys the workflow names (SignFile).
LEMMA SignFits ==
  ASSUME IInv, NEW with, with \in {conf.index, conf.tars}, with \subseteq Named(conf.names)
  PROVE  /\ Signed(conf.names, with, SignFile(conf.names, with, secret))
         /\ Made(with, SignFile(conf.names, with, secret))
         /\ \A k \in with : SignFile(conf.names, with, secret)[k] = secret[k]
         /\ \A k \in Named(conf.names) : k >= Current
<1> USE DEF IInv
<1> DEFINE S == SignFile(conf.names, with, secret)
<1>1. /\ Newest \in Nat /\ Newest >= 1 /\ Newest \in Keys /\ pubs \subseteq Keys
      /\ Closed <=> conf = Single(Newest)
      /\ ~Closed => /\ Newest - 1 \in Keys /\ Current = Newest - 1
                    /\ conf.names \in {<<Newest - 1>>, Overlap}
                    /\ conf.index # {} /\ conf.tars # {}
      /\ Closed => Current = Newest
  BY CurrentKey DEF KeysFit
<1>2. /\ Shaped(conf.names) /\ with # {}
      /\ \A k \in Named(conf.names) : k >= Current /\ k <= Newest
      /\ \A k \in Named(conf.names) : k # conf.names[1] => k <= Current
  <2>1. CASE Closed
    <3>1. conf.names = <<Newest>> /\ with = {Newest} /\ Current = Newest
      BY <1>1, <2>1 DEF Single
    <3> QED BY <3>1, <1>1, NamedOne DEF Shaped
  <2>2. CASE ~Closed /\ conf.names = <<Newest - 1>>
    BY <1>1, <2>2, NamedOne DEF Shaped
  <2>3. CASE ~Closed /\ conf.names = Overlap
    <3>1. Named(conf.names) = {Newest, Newest - 1} /\ conf.names[1] = Newest
      BY <2>3, NamedTwo DEF Overlap
    <3>2. Shaped(conf.names)
      BY <1>1, <2>3 DEF Shaped, Overlap
    <3>3. with # {}
      BY <1>1, <2>3
    <3> QED BY <1>1, <2>3, <3>1, <3>2, <3>3
  <2> QED BY <1>1, <2>1, <2>2, <2>3
<1>3. conf.names[1] \in Keys /\ Named(conf.names) \subseteq Keys
  BY <1>2, NamedShape
<1>4. Bare \notin with /\ \A k \in with : k # Bare
  BY <1>3 DEF Keys, Bare
<1>5. DOMAIN S = with \union (IF conf.names[1] \in with THEN {Bare} ELSE {})
  BY DEF SignFile
<1>6. \A k \in with : S[k] = secret[k]
  BY <1>4, <1>5 DEF SignFile
<1>7. Bare \in DOMAIN S => conf.names[1] \in with /\ S[Bare] = secret[conf.names[1]]
  BY <1>4, <1>5 DEF SignFile
<1>8. with \subseteq pubs
  BY <1>1, <1>2, <1>3 DEF KeysFit, Keys
<1>9. \A k \in with : S[k] \in {k, Stranger} /\ (k # conf.names[1] => S[k] = k)
  BY <1>2, <1>3, <1>6, <1>8 DEF KeysFit, SecretFits
<1>10. Bare \in DOMAIN S => S[Bare] = S[conf.names[1]]
  BY <1>6, <1>7
<1> HIDE DEF S
<1>11. Signed(conf.names, with, S)
  BY <1>2, <1>5, <1>7, <1>9, <1>10 DEF Signed
<1>12. Made(with, S)
  BY <1>6, <1>8 DEF Made
<1> QED BY <1>2, <1>6, <1>11, <1>12 DEF S

LEMMA StartFits ==
  ASSUME IInv, NEW built \in SUBSET Digests, Start(built)
  PROVE  IInv'
<1> DEFINE S == SignFile(conf.names, conf.index, secret)
           T == SignFile(conf.names, conf.tars, secret)
<1>1. conf' = conf /\ pubs' = pubs /\ secret' = secret /\ site' = site /\ UNCHANGED <<release, held>>
  BY DEF Start, people
<1>2. /\ run' = [step |-> "signed", names |-> conf.names, with |-> conf.index, pubs |-> pubs,
                 sigs |-> S, tars |-> T, built |-> built, listed |-> latest \union built]
      /\ conf.index \subseteq Named(conf.names)
  BY DEF Start, CanSign
<1>3. /\ Signed(conf.names, conf.index, S) /\ Made(conf.index, S)
      /\ \A k \in conf.index : S[k] = secret[k]
      /\ \A k \in Named(conf.names) : k >= Current
  BY <1>2, SignFits
<1> HIDE DEF S, T
<1>4. /\ run'.names = conf.names /\ run'.with = conf.index /\ run'.sigs = S
      /\ run'.step = "signed" /\ IsRun(run')
  BY <1>2 DEF IsRun
<1>5. KeysFit' /\ ConfFits' /\ SecretFits' /\ Newest' = Newest /\ Current' = Current
  BY <1>1, SamePeople DEF IInv
<1>7. RunFits'
  BY <1>1, <1>3, <1>4, <1>5 DEF RunFits, Signed, Shaped, Named, Made, Good, IsRun
<1>8. RunFollows'
  BY <1>1, <1>3, <1>4, <1>5 DEF RunFollows, IInv, SiteFits, Made
<1>9. SiteFits' /\ HeldFits'
  BY <1>1, <1>5 DEF SiteFits, HeldFits, IInv, Signed, Shaped, Named, Made, Good, Shipped
<1> QED BY <1>5, <1>7, <1>8, <1>9 DEF IInv

\* Steps that leave the run where it was, end it, or take it on.
LEMMA SameRunFits ==
  ASSUME IInv, UNCHANGED people, site' = site,
         \/ run' = run
         \/ run' = NoRun
         \/ /\ run # NoRun
            /\ \E s \in {"verified", "pushed"} : run' = [run EXCEPT !.step = s]
            /\ Good(run.with, run.sigs)
  PROVE  IInv'
<1>1. conf' = conf /\ pubs' = pubs /\ secret' = secret /\ UNCHANGED <<release, held>>
  BY DEF people
<1>2. KeysFit' /\ ConfFits' /\ SecretFits' /\ Newest' = Newest /\ Current' = Current
  BY <1>1, SamePeople DEF IInv
<1>3. run' # NoRun =>
        /\ run # NoRun /\ run'.names = run.names /\ run'.with = run.with /\ run'.sigs = run.sigs
        /\ IsRun(run')
        /\ run'.step = run.step \/ Good(run.with, run.sigs)
  BY DEF IInv, RunFits, IsRun
<1>4. RunFits'
  BY <1>1, <1>2, <1>3 DEF RunFits, IInv, Signed, Shaped, Named, Made, Good, IsRun
<1>5. RunFollows'
  BY <1>2, <1>3 DEF RunFollows, IInv
<1>6. SiteFits' /\ HeldFits'
  BY <1>1, <1>2 DEF SiteFits, HeldFits, IInv, Signed, Shaped, Named, Made, Good, Shipped
<1> QED BY <1>2, <1>4, <1>5, <1>6 DEF IInv

\* A run that verified has a good signature by a key no older than Current
\* (VerifyAny).
LEMMA VerifyDistFits ==
  ASSUME IInv, VerifyDist
  PROVE  IInv'
<1>1. /\ run # NoRun /\ UNCHANGED people /\ site' = site /\ run' = [run EXCEPT !.step = "verified"]
      /\ VerifyAny(Order(run.pubs, run.names), run.sigs)
  BY DEF VerifyDist
<1>2. Signed(run.names, run.with, run.sigs)
  BY <1>1 DEF IInv, RunFits
<1>3. run.names # <<>>
  BY <1>2, NamedShape DEF Signed
<1>4. PICK k \in Named(run.names) : k \in FileSigs(run.sigs, k)
  BY <1>1, <1>3 DEF VerifyAny, Order
<1>5. k \in run.with /\ run.sigs[k] = k
  BY <1>2, <1>4, FoundIsGood
<1>6. Good(run.with, run.sigs)
  BY <1>1, <1>4, <1>5 DEF IInv, RunFits, Good
<1> QED BY <1>1, <1>6, SameRunFits

\* The site is what the run under way signed.
LEMMA DeployFits ==
  ASSUME IInv, Deploy
  PROVE  IInv'
<1>1. conf' = conf /\ pubs' = pubs /\ secret' = secret /\ UNCHANGED <<release, held>>
  BY DEF Deploy, people
<1>2. KeysFit' /\ ConfFits' /\ SecretFits' /\ Newest' = Newest /\ Current' = Current
  BY <1>1, SamePeople DEF IInv
<1>3. /\ run # NoRun /\ run.step = "pushed" /\ run' = NoRun
      /\ site'.names = run.names /\ site'.with = run.with /\ site'.sigs = run.sigs
  BY DEF Deploy
<1>4. Good(run.with, run.sigs)
  BY <1>3 DEF IInv, RunFits
<1>5. SiteFits'
  BY <1>1, <1>2, <1>3, <1>4 DEF SiteFits, RunFits, IInv, Signed, Shaped, Named, Made, Good
<1>6. RunFits' /\ RunFollows'
  BY <1>3 DEF RunFits, RunFollows
<1>7. HeldFits'
  BY <1>1, <1>2 DEF HeldFits, Shipped, IInv
<1> QED BY <1>2, <1>5, <1>6, <1>7 DEF IInv

-----------------------------------------------------------------------------
(* The maintainers and the gateways. *)

\* A rotation opens: what was Current is still, and nothing is signed by the
\* new key.
LEMMA AddKeyFits ==
  ASSUME IInv, NEW key \in Keys \union {Stranger}, AddKey(key)
  PROVE  IInv'
<1> DEFINE n == Newest + 1
<1>1. conf' = conf /\ run' = run /\ site' = site /\ UNCHANGED <<release, held>>
  BY DEF AddKey, library
<1>2. /\ Newest < Generations /\ conf = Single(Newest)
      /\ pubs' = pubs \union {n} /\ key \in {n, Stranger}
      /\ secret' = [secret EXCEPT ![n] = key]
  BY DEF AddKey
<1>3. /\ Newest \in Nat /\ Newest >= 1 /\ n \in Keys /\ n # Newest /\ n - 1 = Newest
      /\ Closed /\ Current = Newest /\ pubs \subseteq Keys
  BY <1>2, CurrentKey, SigningAssumption DEF IInv, Keys
<1>4. pubs' = 1 .. n /\ n \notin pubs
  BY <1>2, <1>3 DEF IInv, KeysFit
<1>5. Newest' = n
  <2>1. n \in pubs' /\ \A j \in pubs' : j <= n
    BY <1>3, <1>4
  <2>2. \A k \in pubs' : (\A j \in pubs' : j <= k) => k = n
    BY <1>3, <2>1, <1>4
  <2> QED BY <2>1, <2>2 DEF Newest
<1> HIDE DEF n
<1>6. conf'.names = <<n - 1>> /\ conf'.index = {n - 1} /\ conf'.tars = {n - 1}
  BY <1>1, <1>2, <1>3 DEF Single
<1>7. ~Closed' /\ Current' = Newest /\ Current' = Current
  <2>1. <<n - 1>>[1] = n - 1 /\ <<n>>[1] = n
    OBVIOUS
  <2> QED BY <1>3, <1>5, <1>6, <2>1 DEF Closed, Current
<1>8. KeysFit' /\ ConfFits'
  <2>1. DOMAIN secret' = Keys /\ \A k \in Keys : secret'[k] \in {k, Stranger}
    BY <1>2, <1>3 DEF IInv, KeysFit
  <2>2. ConfFits'
    <3>1. Newest' - 1 \in Keys /\ Both' = {n - 1, n}
      BY <1>3, <1>5 DEF IInv, KeysFit, Both
    <3> QED BY <3>1, <1>5, <1>6 DEF ConfFits
  <2> QED BY <2>1, <2>2, <1>3, <1>4, <1>5 DEF KeysFit
<1>9. \A k \in pubs : secret'[k] = secret[k] /\ k # n
  BY <1>2, <1>3, <1>4 DEF IInv, KeysFit
<1>10. SecretFits'
  <2>1. \A k \in pubs' : k <= Newest => k \in pubs
    BY <1>3, <1>4 DEF IInv, KeysFit
  <2> QED BY <2>1, <1>3, <1>7, <1>9 DEF SecretFits, IInv
<1>11. pubs \subseteq pubs'
  BY <1>2
<1>12. SiteFits'
  BY <1>1, <1>7, <1>9, <1>11 DEF SiteFits, IInv, Signed, Shaped, Named, Made, Good
<1>13. RunFits'
  BY <1>1, <1>7, <1>9, <1>11 DEF RunFits, IInv, Signed, Shaped, Named, Made, Good, IsRun
<1>14. RunFollows'
  <2>1. n \notin site.with
    BY <1>4 DEF IInv, SiteFits, Made
  <2> QED BY <2>1, <1>1, <1>5 DEF RunFollows
<1>15. HeldFits'
  BY <1>1, <1>2, <1>7 DEF IInv, HeldFits, Shipped
<1> QED BY <1>8, <1>10, <1>12, <1>13, <1>14, <1>15 DEF IInv

\* Only the workflow changes, in a rotation that stays open.
LEMMA OpenFits ==
  ASSUME IInv, OpenOverlap
  PROVE  IInv'
<1>1. /\ pubs' = pubs /\ secret' = secret /\ run' = run /\ site' = site /\ UNCHANGED <<release, held>>
      /\ conf.names \in {<<Newest - 1>>, Overlap}
      /\ conf' = Edited \/ conf' \in HalfDone
  BY DEF OpenOverlap, library
<1>2. Newest' = Newest /\ Overlap' = Overlap /\ Both' = Both
  BY <1>1 DEF Newest, Overlap, Both
<1>3. /\ Newest \in Nat /\ <<Newest - 1>> # <<Newest>> /\ Overlap # <<Newest>>
      /\ ~Closed => Newest - 1 \in Keys /\ Current = Newest - 1
  BY CurrentKey DEF IInv
<1>4. ~Closed /\ Newest - 1 \in Keys /\ Current = Newest - 1
  BY <1>1, <1>3 DEF Closed
<1>5. /\ conf'.names \in {<<Newest - 1>>, Overlap}
      /\ conf'.index \subseteq Both /\ conf'.index # {}
      /\ conf'.tars \subseteq Both /\ conf'.tars # {}
  <2>1. Both # {}
    BY DEF Both
  <2>2. CASE conf' = Edited \/ conf' = [Edited EXCEPT !.names = <<Newest - 1>>]
    <3>1. /\ conf'.names \in {<<Newest - 1>>, Overlap}
          /\ conf'.index = Both /\ conf'.tars = Both
      BY <2>2 DEF Edited
    <3> QED BY <2>1, <3>1
  <2>3. CASE conf' \in [names : {Overlap}, index : (SUBSET Both) \ {{}}, tars : (SUBSET Both) \ {{}}]
    <3> DEFINE Some == (SUBSET Both) \ {{}}
    <3>1. \A with \in Some : with \subseteq Both /\ with # {}
      OBVIOUS
    <3> HIDE DEF Some
    <3>2. conf'.names = Overlap /\ conf'.index \in Some /\ conf'.tars \in Some
      BY <2>3 DEF Some
    <3> QED BY <3>1, <3>2
  <2> QED BY <1>1, <2>2, <2>3 DEF HalfDone
<1>6. ~Closed' /\ Current' = Current
  BY <1>2, <1>3, <1>4, <1>5 DEF Closed, Current
<1>7. KeysFit' /\ ConfFits' /\ SecretFits'
  BY <1>1, <1>2, <1>4, <1>5, <1>6 DEF IInv, KeysFit, ConfFits, SecretFits
<1>8. SiteFits' /\ HeldFits'
  BY <1>1, <1>6 DEF IInv, SiteFits, HeldFits, Signed, Shaped, Named, Made, Good, Shipped
<1>9. RunFits' /\ RunFollows'
  BY <1>1, <1>2, <1>6 DEF IInv, RunFits, RunFollows, Signed, Shaped, Named, Made, Good, IsRun
<1> QED BY <1>7, <1>8, <1>9 DEF IInv

\* Current becomes the newest key: the site was seen to verify under it, and
\* the run under way signs with the keys the site is signed with.
LEMMA CloseFits ==
  ASSUME IInv, CloseOverlap
  PROVE  IInv'
<1>1. /\ pubs' = pubs /\ secret' = secret /\ run' = run /\ site' = site /\ UNCHANGED <<release, held>>
      /\ conf' = Single(Newest) /\ conf.names = Overlap
      /\ site.names = Overlap /\ site.with = conf.index
      /\ VerifyAny({Newest}, site.sigs)
      /\ run # NoRun => run.with = conf.index
  BY DEF CloseOverlap, library, Republished, SignedBy
<1>2. /\ Newest \in Keys /\ Newest \in Nat /\ Newest >= 1 /\ Current <= Newest
      /\ Current \in Keys /\ pubs \subseteq Keys
  BY CurrentKey DEF IInv, KeysFit, Keys
<1>3. Newest' = Newest
  BY <1>1 DEF Newest
<1>4. Closed' /\ Current' = Newest /\ conf' = Single(Newest)'
  BY <1>1, <1>3 DEF Closed, Current, Single
<1>5. Newest \in site.with /\ site.sigs[Newest] = Newest
  <2>1. Newest \in Named(site.names)
    BY <1>1, NamedTwo DEF Overlap
  <2>2. Newest \in FileSigs(site.sigs, Newest)
    BY <1>1 DEF VerifyAny
  <2> QED BY <2>1, <2>2, FoundIsGood DEF IInv, SiteFits
<1>6. secret[Newest] = Newest
  BY <1>5 DEF IInv, SiteFits, Made
<1>7. KeysFit' /\ ConfFits'
  BY <1>1, <1>3, <1>4 DEF IInv, KeysFit, ConfFits
<1>8. SecretFits'
  <2>1. \A k \in pubs : k = Newest \/ k <= Current
    BY <1>2, CurrentKey DEF IInv, KeysFit
  <2> QED BY <1>1, <1>6, <2>1 DEF IInv, SecretFits
<1>9. SiteFits'
  <2>1. Good(site.with, site.sigs)'
    BY <1>1, <1>2, <1>4, <1>5 DEF Good
  <2> QED BY <2>1, <1>1 DEF IInv, SiteFits, Signed, Shaped, Named, Made
<1>10. run # NoRun => Newest \in run.with /\ run.sigs[Newest] = Newest
  BY <1>1, <1>5 DEF IInv, RunFollows
<1>11. RunFits' /\ RunFollows'
  <2>1. run # NoRun => Good(run.with, run.sigs)'
    BY <1>1, <1>2, <1>4, <1>10 DEF Good
  <2> QED BY <2>1, <1>1, <1>3, <1>10 DEF IInv, RunFits, RunFollows, Signed, Shaped, Named, Made, IsRun
<1>12. HeldFits'
  <2>1. ASSUME NEW keys, Shipped(keys) PROVE Shipped(keys)'
    BY <1>1, <1>2, <1>4, <2>1 DEF Shipped, Keys
  <2> QED BY <1>1, <2>1 DEF IInv, HeldFits
<1> QED BY <1>7, <1>8, <1>9, <1>11, <1>12 DEF IInv

LEMMA CorrectFits ==
  ASSUME IInv, CorrectSecret
  PROVE  IInv'
<1>1. /\ pubs' = pubs /\ conf' = conf /\ run' = run /\ site' = site /\ UNCHANGED <<release, held>>
      /\ secret' = [secret EXCEPT ![Newest] = Newest]
  BY DEF CorrectSecret, library
<1>2. /\ Newest' = Newest /\ Overlap' = Overlap /\ Both' = Both
      /\ Closed' = Closed /\ Current' = Current
  BY <1>1 DEF Newest, Overlap, Both, Closed, Current
<1>3. \A k \in Keys : secret'[k] \in {k, secret[k]}
  BY <1>1 DEF IInv, KeysFit
<1>4. pubs \subseteq Keys
  BY CurrentKey DEF IInv
<1>5. KeysFit' /\ ConfFits' /\ SecretFits'
  BY <1>1, <1>2, <1>3, <1>4 DEF IInv, KeysFit, ConfFits, SecretFits, Single
<1>7. SiteFits' /\ HeldFits'
  BY <1>1, <1>2, <1>3, <1>4
     DEF IInv, SiteFits, HeldFits, Signed, Shaped, Named, Made, Good, Shipped
<1>8. RunFits' /\ RunFollows'
  BY <1>1, <1>2, <1>3, <1>4
     DEF IInv, RunFits, RunFollows, Signed, Shaped, Named, Made, Good, IsRun
<1> QED BY <1>5, <1>7, <1>8 DEF IInv

\* The releases and the upgrades to them.
LEMMA ReleaseFits ==
  ASSUME IInv, ReleaseBoth \/ ReleaseNew \/ \E g \in Gateways : Upgrade(g)
  PROVE  IInv'
<1>1. conf' = conf /\ pubs' = pubs /\ secret' = secret /\ run' = run /\ site' = site
  BY DEF ReleaseBoth, ReleaseNew, Upgrade, library
<1>2. KeysFit' /\ ConfFits' /\ SecretFits' /\ Newest' = Newest /\ Current' = Current
  BY <1>1, SamePeople DEF IInv
<1>3. SiteFits' /\ RunFits' /\ RunFollows'
  BY <1>1, <1>2
     DEF SiteFits, RunFits, RunFollows, IInv, Signed, Shaped, Named, Made, Good, IsRun
<1>4. /\ Newest \in pubs /\ Newest \in Nat /\ Newest - 1 <= Current
      /\ Closed => Current = Newest
  BY CurrentKey DEF IInv, KeysFit, Keys
<1>5. ASSUME NEW keys PROVE Shipped(keys)' = Shipped(keys)
  BY <1>1, SamePeople
<1>6. CASE ReleaseBoth
  <2>1. release = {Newest - 1} /\ release' = {Newest - 1, Newest} /\ held' = held
    BY <1>6 DEF ReleaseBoth
  <2>2. Shipped({Newest - 1, Newest})
    BY <2>1, <1>4 DEF IInv, HeldFits, Shipped, Keys
  <2> QED BY <2>1, <2>2, <1>2, <1>3, <1>5 DEF IInv, HeldFits
<1>7. CASE ReleaseNew
  <2>1. release' = {Newest} /\ held' = held /\ Closed
    BY <1>7 DEF ReleaseNew, Closed
  <2>2. Shipped({Newest})
    BY <2>1, <1>4 DEF Shipped, Keys
  <2> QED BY <2>1, <2>2, <1>2, <1>3, <1>5 DEF IInv, HeldFits
<1>8. CASE \E g \in Gateways : Upgrade(g)
  <2>1. PICK g \in Gateways : held' = [held EXCEPT ![g] = release] /\ release' = release
    BY <1>8 DEF Upgrade
  <2> QED BY <2>1, <1>2, <1>3, <1>5 DEF IInv, HeldFits
<1> QED BY <1>6, <1>7, <1>8

THEOREM StepFits == IInv /\ [Next]_vars => IInv'
<1> SUFFICES ASSUME IInv, [Next]_vars PROVE IInv'
  OBVIOUS
<1>1. CASE \E built \in SUBSET Digests : Start(built)
  BY <1>1, StartFits
<1>2. CASE VerifyDist
  BY <1>2, VerifyDistFits
<1>3. CASE \E d \in Digests : PushBlob(d)
  BY <1>3, SameRunFits DEF PushBlob
<1>4. CASE PushIndex
  <2>1. run # NoRun /\ run.step = "verified" /\ Good(run.with, run.sigs)
    BY <1>4 DEF PushIndex, IInv, RunFits
  <2> QED BY <1>4, <2>1, SameRunFits DEF PushIndex
<1>5. CASE Deploy
  BY <1>5, DeployFits
<1>6. CASE RunFails
  BY <1>6, SameRunFits DEF RunFails
<1>7. CASE \E key \in Keys \union {Stranger} : AddKey(key)
  BY <1>7, AddKeyFits
<1>8. CASE CorrectSecret
  BY <1>8, CorrectFits
<1>9. CASE ReleaseBoth \/ ReleaseNew \/ \E g \in Gateways : Upgrade(g)
  BY <1>9, ReleaseFits
<1>10. CASE OpenOverlap
  BY <1>10, OpenFits
<1>11. CASE CloseOverlap
  BY <1>11, CloseFits
<1>12. CASE UNCHANGED vars
  BY <1>12, SameRunFits DEF vars, people
<1> QED BY <1>1, <1>2, <1>3, <1>4, <1>5, <1>6, <1>7, <1>8, <1>9, <1>10, <1>11, <1>12 DEF Next

\* Every gateway verifies the deployed index at every moment of any number
\* of rotations, unless it has only keys older than every key the index was
\* signed with (VerifyAny, FileSigs, SignFile and docs/KEY-ROTATION.md).
THEOREM AlwaysVerifies == Spec => []IndexVerifies
<1>1. IInv => IndexVerifies
  <2> SUFFICES ASSUME IInv, NEW g \in Gateways, ~LeftOut(g)
               PROVE  VerifyAny(Order(held[g], site.names), site.sigs)
    BY DEF IndexVerifies
  <2>1. /\ Signed(site.names, site.with, site.sigs) /\ Shipped(held[g])
        /\ site.names # <<>> /\ Named(site.names) \subseteq Keys
        /\ \A k \in Named(site.names) : k = site.names[1] \/ k = site.names[1] - 1
    BY NamedShape DEF IInv, SiteFits, HeldFits, Signed
  <2>2. PICK k \in held[g], j \in site.with : ~(k < j)
    BY DEF LeftOut
  <2>3. PICK q \in site.with : q >= Current /\ site.sigs[q] = q
    BY DEF IInv, SiteFits, Good
  <2>4. PICK m \in held[g] : m <= Current
    BY <2>1 DEF Shipped
  <2>5. /\ site.with \subseteq Keys /\ held[g] \subseteq Keys /\ Current \in Keys
        /\ j \in Named(site.names) /\ q \in Named(site.names)
    BY <2>1, CurrentKey DEF IInv, Signed, Shipped
  <2>6. \E x \in held[g] : x \in site.with /\ site.sigs[x] = x
    <3>1. CASE q \in held[g]
      BY <2>3, <3>1
    <3>2. CASE q \notin held[g]
      <4>1. k < q
        BY <2>1, <2>3, <2>4, <2>5, <3>2 DEF Shipped, Keys
      <4>2. k = j /\ q = site.names[1] /\ j # site.names[1]
        BY <2>1, <2>2, <2>5, <4>1 DEF Keys
      <4> QED BY <2>1, <2>2, <4>2 DEF Signed
    <3> QED BY <3>1, <3>2
  <2> QED BY <2>1, <2>6 DEF VerifyAny, Order, FileSigs, Signed
<1> QED BY <1>1, InitFits, StepFits, PTL DEF Spec

-----------------------------------------------------------------------------
(* The blobs: the oldest key's signature on what was verified before it was *)
(* pushed is good, for only the newest key a workflow names may be a wrong  *)
(* secret's.                                                                *)

OldestGood(sigs) == Oldest(sigs) \in DOMAIN sigs /\ sigs[Oldest(sigs)] = Oldest(sigs)

RunTars(r) == DOMAIN r.tars \ {Bare}

RunTarsFit ==
  run # NoRun =>
    /\ IsRun(run)
    /\ run.listed \subseteq DOMAIN ghcr \union run.built
    /\ run.built # {} =>
         /\ Signed(run.names, RunTars(run), run.tars)
         /\ run.step # "signed" => OldestGood(run.tars)

GhcrFits == latest \subseteq DOMAIN ghcr /\ \A d \in DOMAIN ghcr : OldestGood(ghcr[d])

SiteBlobsFit == \A d \in DOMAIN site.blobs : OldestGood(site.blobs[d])

BlobsFit == GhcrFits /\ RunTarsFit /\ SiteBlobsFit

LEMMA OldestIs ==
  ASSUME NEW sigs, NEW k \in DOMAIN sigs \ {Bare}, DOMAIN sigs \ {Bare} \subseteq Keys,
         \A j \in DOMAIN sigs \ {Bare} : k <= j
  PROVE  Oldest(sigs) = k
<1>1. \A i \in DOMAIN sigs \ {Bare} : (\A j \in DOMAIN sigs \ {Bare} : i <= j) => i = k
  BY DEF Keys
<1> QED BY <1>1 DEF Oldest

LEMMA OldestOfSigned ==
  ASSUME NEW names, NEW sigs, Signed(names, DOMAIN sigs \ {Bare}, sigs),
         NEW k \in Named(names), k \in FileSigs(sigs, k)
  PROVE  OldestGood(sigs)
<1> DEFINE with == DOMAIN sigs \ {Bare}
<1>1. /\ with \subseteq Keys /\ names[1] \in Keys
      /\ \A j \in with : j = names[1] \/ j = names[1] - 1
  BY NamedShape DEF Signed
<1>2. k \in with /\ sigs[k] = k
  BY FoundIsGood
<1>3. CASE \A j \in with : k <= j
  BY <1>1, <1>2, <1>3, OldestIs DEF OldestGood
<1>4. CASE \E j \in with : ~(k <= j)
  <2>1. PICK j \in with : ~(k <= j)
    BY <1>4
  <2>2. j = names[1] - 1 /\ j # names[1] /\ \A i \in with : j <= i
    BY <1>1, <1>2, <2>1 DEF Keys
  <2>3. sigs[j] = j
    BY <2>2 DEF Signed
  <2> QED BY <1>1, <2>2, <2>3, OldestIs DEF OldestGood
<1> QED BY <1>3, <1>4

LEMMA BlobsInit == Init => BlobsFit
<1> SUFFICES ASSUME Init PROVE BlobsFit
  OBVIOUS
<1>1. 1 \in Keys /\ 1 # Bare /\ 1 <= 1
  BY SigningAssumption DEF Keys, Bare
<1>2. DOMAIN FirstSigs = {1, Bare} /\ FirstSigs[1] = 1
  BY DEF FirstSigs
<1>3. DOMAIN FirstSigs \ {Bare} = {1}
  BY <1>1, <1>2
<1>4. OldestGood(FirstSigs)
  BY <1>1, <1>2, <1>3, OldestIs DEF OldestGood
<1>5. PICK published \in SUBSET Digests :
        ghcr = [d \in published |-> FirstSigs] /\ latest = published /\ site.blobs = ghcr
  BY DEF Init
<1>6. GhcrFits /\ SiteBlobsFit
  BY <1>4, <1>5 DEF GhcrFits, SiteBlobsFit
<1>7. RunTarsFit
  BY DEF Init, RunTarsFit
<1> QED BY <1>6, <1>7 DEF BlobsFit

LEMMA StartBlobs ==
  ASSUME IInv, BlobsFit, NEW built \in SUBSET Digests, Start(built)
  PROVE  RunTarsFit'
<1> DEFINE T == SignFile(conf.names, conf.tars, secret)
<1>1. /\ ghcr' = ghcr
      /\ run' = [step |-> "signed", names |-> conf.names, with |-> conf.index, pubs |-> pubs,
                 sigs |-> SignFile(conf.names, conf.index, secret),
                 tars |-> T, built |-> built, listed |-> latest \union built]
  BY DEF Start
<1>2. ASSUME built # {}
      PROVE  Signed(conf.names, conf.tars, T) /\ DOMAIN T \ {Bare} = conf.tars
  <2>1. conf.tars \subseteq Named(conf.names)
    BY <1>2 DEF Start, CanSign
  <2>2. Signed(conf.names, conf.tars, T)
    BY <2>1, SignFits
  <2>3. conf.tars \subseteq Keys
    BY <2>1, <2>2, NamedShape DEF Signed
  <2>4. Bare \notin conf.tars
    BY <2>3 DEF Keys, Bare
  <2> HIDE DEF T
  <2> QED BY <2>2, <2>4 DEF Signed
<1> HIDE DEF T
<1>3. /\ run'.names = conf.names /\ run'.tars = T /\ run'.built = built
      /\ run'.listed = latest \union built /\ run'.step = "signed" /\ IsRun(run')
  BY <1>1 DEF IsRun
<1>4. run'.listed \subseteq DOMAIN ghcr' \union run'.built
  BY <1>1, <1>3 DEF BlobsFit, GhcrFits
<1>5. run'.built # {} => Signed(run'.names, RunTars(run'), run'.tars)
  BY <1>2, <1>3 DEF RunTars
<1> QED BY <1>3, <1>4, <1>5 DEF RunTarsFit, IsRun, Signed, Shaped, Named, RunTars

LEMMA VerifyDistBlobs ==
  ASSUME BlobsFit, VerifyDist
  PROVE  RunTarsFit'
<1>1. /\ run # NoRun /\ ghcr' = ghcr /\ run' = [run EXCEPT !.step = "verified"]
      /\ run.built # {} => VerifyAny(Order(run.pubs, run.names), run.tars)
      /\ IsRun(run)
  BY DEF VerifyDist, BlobsFit, RunTarsFit
<1>2. /\ run'.names = run.names /\ run'.tars = run.tars /\ run'.built = run.built
      /\ run'.listed = run.listed /\ IsRun(run')
  BY <1>1 DEF IsRun
<1>3. ASSUME run.built # {} PROVE OldestGood(run.tars)
  <2>1. Signed(run.names, RunTars(run), run.tars)
    BY <1>1, <1>3 DEF BlobsFit, RunTarsFit
  <2>2. run.names # <<>>
    BY <2>1, NamedShape DEF Signed
  <2>3. PICK k \in Named(run.names) : k \in FileSigs(run.tars, k)
    BY <1>1, <1>3, <2>2 DEF VerifyAny, Order
  <2> QED BY <2>1, <2>3, OldestOfSigned DEF RunTars
<1> QED
  BY <1>1, <1>2, <1>3
     DEF BlobsFit, RunTarsFit, IsRun, Signed, Shaped, Named, RunTars, OldestGood

\* What is pushed, over an existing tag or not, is the run's own.
LEMMA PushBlobBlobs ==
  ASSUME BlobsFit, NEW d \in Digests, PushBlob(d)
  PROVE  GhcrFits' /\ RunTarsFit'
<1>1. /\ run # NoRun /\ run' = run /\ latest' = latest
      /\ run.step = "verified" /\ d \in run.built
      /\ ghcr' = [e \in DOMAIN ghcr \union {d} |-> IF e = d THEN run.tars ELSE ghcr[e]]
  BY DEF PushBlob
<1>2. OldestGood(run.tars)
  BY <1>1 DEF BlobsFit, RunTarsFit
<1>3. DOMAIN ghcr \subseteq DOMAIN ghcr' /\ \A e \in DOMAIN ghcr' : OldestGood(ghcr'[e])
  BY <1>1, <1>2 DEF BlobsFit, GhcrFits
<1>4. GhcrFits'
  BY <1>1, <1>3 DEF BlobsFit, GhcrFits, OldestGood
<1>5. RunTarsFit'
  BY <1>1, <1>3 DEF BlobsFit, RunTarsFit, IsRun, Signed, Shaped, Named, RunTars, OldestGood
<1> QED BY <1>4, <1>5

\* What is deployed is the run's own or carried over from GHCR.
LEMMA DeployBlobs ==
  ASSUME BlobsFit, Deploy
  PROVE  SiteBlobsFit'
<1>1. run # NoRun /\ run.step = "pushed" /\ site'.blobs = Assembled(run)
  BY DEF Deploy
<1>2. ASSUME NEW d \in DOMAIN Assembled(run) PROVE OldestGood(Assembled(run)[d])
  <2>1. d \in run.listed /\ Assembled(run)[d] = IF d \in run.built THEN run.tars ELSE ghcr[d]
    BY DEF Assembled
  <2>2. CASE d \in run.built
    BY <1>1, <2>1, <2>2 DEF BlobsFit, RunTarsFit
  <2>3. CASE d \notin run.built
    <3>1. d \in DOMAIN ghcr
      BY <1>1, <2>1, <2>3 DEF BlobsFit, RunTarsFit
    <3> QED BY <2>1, <2>3, <3>1 DEF BlobsFit, GhcrFits
  <2> QED BY <2>2, <2>3
<1> QED BY <1>1, <1>2 DEF SiteBlobsFit, OldestGood

LEMMA BlobsNext ==
  ASSUME IInv, BlobsFit, [Next]_vars
  PROVE  BlobsFit'
<1>1. ASSUME ghcr' = ghcr, latest' \subseteq DOMAIN ghcr PROVE GhcrFits'
  BY <1>1 DEF BlobsFit, GhcrFits, OldestGood
<1>2. ASSUME site' = site PROVE SiteBlobsFit'
  BY <1>2 DEF BlobsFit, SiteBlobsFit, OldestGood
<1>3. ASSUME ghcr' = ghcr, run' = run \/ run' = NoRun PROVE RunTarsFit'
  BY <1>3 DEF BlobsFit, RunTarsFit, IsRun, Signed, Shaped, Named, RunTars, OldestGood
<1>4. latest \subseteq DOMAIN ghcr
  BY DEF BlobsFit, GhcrFits
<1>5. ASSUME NEW built \in SUBSET Digests, Start(built) PROVE BlobsFit'
  <2>1. ghcr' = ghcr /\ latest' = latest /\ site' = site
    BY <1>5 DEF Start
  <2> QED BY <1>1, <1>2, <1>4, <1>5, <2>1, StartBlobs DEF BlobsFit
<1>6. CASE VerifyDist
  <2>1. ghcr' = ghcr /\ latest' = latest /\ site' = site
    BY <1>6 DEF VerifyDist
  <2> QED BY <1>1, <1>2, <1>4, <1>6, <2>1, VerifyDistBlobs DEF BlobsFit
<1>7. ASSUME NEW d \in Digests, PushBlob(d) PROVE BlobsFit'
  <2>1. site' = site
    BY <1>7 DEF PushBlob
  <2> QED BY <1>2, <1>7, <2>1, PushBlobBlobs DEF BlobsFit
<1>8. CASE PushIndex
  <2>1. /\ run # NoRun /\ ghcr' = ghcr /\ site' = site
        /\ run.step = "verified" /\ run' = [run EXCEPT !.step = "pushed"]
        /\ run.built \subseteq DOMAIN ghcr /\ latest' = run.listed
        /\ IsRun(run)
    BY <1>8 DEF PushIndex, BlobsFit, RunTarsFit
  <2>2. latest' \subseteq DOMAIN ghcr
    BY <2>1 DEF BlobsFit, RunTarsFit
  <2>3. /\ run'.names = run.names /\ run'.tars = run.tars /\ run'.built = run.built
        /\ run'.listed = run.listed /\ IsRun(run')
    BY <2>1 DEF IsRun
  <2>4. RunTarsFit'
    BY <2>1, <2>3
       DEF BlobsFit, RunTarsFit, IsRun, Signed, Shaped, Named, RunTars, OldestGood
  <2> QED BY <1>1, <1>2, <2>1, <2>2, <2>4 DEF BlobsFit
<1>9. CASE Deploy
  <2>1. ghcr' = ghcr /\ latest' = latest /\ run' = NoRun
    BY <1>9 DEF Deploy
  <2> QED BY <1>1, <1>3, <1>4, <1>9, <2>1, DeployBlobs DEF BlobsFit
<1>10. CASE RunFails \/ UNCHANGED library
  <2>1. ghcr' = ghcr /\ latest' = latest /\ site' = site /\ (run' = run \/ run' = NoRun)
    BY <1>10 DEF RunFails, library
  <2> QED BY <1>1, <1>2, <1>3, <1>4, <2>1 DEF BlobsFit
<1> QED
  BY <1>5, <1>6, <1>7, <1>8, <1>9, <1>10
     DEF Next, vars, library, AddKey, CorrectSecret, ReleaseBoth, OpenOverlap, CloseOverlap,
         ReleaseNew, Upgrade

\* A gateway verifies each blob of the site whose oldest signing key it holds
\* and the index names, those carried over from before an overlap and those
\* pushed over among them (VerifyAny and FileSigs; assemble-site.sh).
THEOREM BlobsAlwaysVerify == Spec => []BlobsVerify
<1>1. BlobsFit => BlobsVerify
  <2> SUFFICES ASSUME BlobsFit, NEW g \in Gateways, NEW d \in DOMAIN site.blobs,
                      NEW k, k = Oldest(site.blobs[d]),
                      k \in held[g], k \in Named(site.names)
               PROVE  VerifyAny(Order(held[g], site.names), site.blobs[d])
    BY DEF BlobsVerify
  <2>1. k \in DOMAIN site.blobs[d] /\ site.blobs[d][k] = k
    BY DEF BlobsFit, SiteBlobsFit, OldestGood
  <2>2. k \in FileSigs(site.blobs[d], k) /\ k \in Order(held[g], site.names)
    BY <2>1 DEF FileSigs, Order
  <2> QED BY <2>2 DEF VerifyAny
<1> QED BY <1>1, BlobsInit, BlobsNext, InitFits, StepFits, PTL DEF Spec
=============================================================================
