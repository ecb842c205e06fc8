------------------------------ MODULE Licence ------------------------------
(***************************************************************************)
(* How an SPDX expression is classified (internal/audit/license.go).  An   *)
(* expression is the sequence of its tokens.  Permits and Refuses are the  *)
(* ids that classifyLicenseID puts into those classes by its table and its *)
(* prefixes.                                                               *)
(***************************************************************************)
EXTENDS Integers, Sequences

CONSTANTS Permits, Refuses
ASSUME LicenceAssumption == Permits \intersect Refuses = {}

classifyLicenseID(id) ==
  IF id \in Refuses THEN "refuses" ELSE IF id \in Permits THEN "permits" ELSE "review"

licenseRank(class) == IF class = "permits" THEN 0 ELSE IF class = "refuses" THEN 2 ELSE 1

Best(a, b) == IF licenseRank(b) < licenseRank(a) THEN b ELSE a
Worst(a, b) == IF licenseRank(b) > licenseRank(a) THEN b ELSE a

EndOfTokens == ""
NotAnId == {EndOfTokens, "OR", "AND", "WITH", ")"}

\* A parse that returned an error.
Malformed == [class |-> "", pos |-> 0]

Rules == {"or", "and", "term"}

\* What a chain is made of, what stands between, and what it makes of two.
Operand(rule) == IF rule = "or" THEN "and" ELSE "term"
Op(rule) == IF rule = "or" THEN "OR" ELSE "AND"
Pick(rule, a, b) == IF rule = "or" THEN Best(a, b) ELSE Worst(a, b)

peek(tokens, p) == IF p > Len(tokens) THEN EndOfTokens ELSE tokens[p]

\* parseTerm behind a "(".
Group(tokens, inner) ==
  IF inner = Malformed \/ peek(tokens, inner.pos) # ")" THEN Malformed
  ELSE [inner EXCEPT !.pos = @ + 1]

\* parseTerm at an id.
Id(tokens, p) ==
  LET read(q) == [class |-> classifyLicenseID(peek(tokens, p)), pos |-> q]
  IN  IF peek(tokens, p) \in NotAnId THEN Malformed
      ELSE IF peek(tokens, p + 1) # "WITH" THEN read(p + 1)
      ELSE IF peek(tokens, p + 2) \in NotAnId THEN Malformed ELSE read(p + 3)

\* parseOr's and parseAnd's loops are the recursion on the rest of the
\* chain: the best (the worst) of a chain does not depend on how it is
\* grouped.
Chain(tokens, rule, first, rest) ==
  IF first = Malformed \/ peek(tokens, first.pos) # Op(rule) THEN first
  ELSE IF rest = Malformed THEN Malformed
  ELSE [rest EXCEPT !.class = Pick(rule, first.class, rest.class)]

Read(tokens, parse, rule, p) ==
  IF rule # "term" THEN
    LET first == parse[<<Operand(rule), p>>]
    IN  Chain(tokens, rule, first, parse[<<rule, first.pos + 1>>])
  ELSE IF peek(tokens, p) = "(" THEN Group(tokens, parse[<<"or", p + 1>>]) ELSE Id(tokens, p)

\* The recursive descent: the class of what rule reads from token p on, and
\* the position behind it.
Descend(tokens) ==
  LET parse[x \in Rules \X (1 .. Len(tokens) + 1)] == Read(tokens, parse, x[1], x[2])
  IN  parse

\* Mutant of ClassifyLicense: what follows the expression is ignored.
ClassifyPrefix(tokens) ==
  LET read == Descend(tokens)[<<"or", 1>>] IN IF read = Malformed THEN "review" ELSE read.class

ClassifyLicense(tokens) ==
  LET read == Descend(tokens)[<<"or", 1>>]
  IN  IF read = Malformed \/ read.pos # Len(tokens) + 1 THEN "review" ELSE read.class

(***************************************************************************)
(* The reference: the classes the grammar of license.go:83-85 gives to     *)
(* tokens i to j.  Under OR the redistributor chooses the term, under AND   *)
(* all terms bind.                                                         *)
(***************************************************************************)
Either(a, b) ==
  IF "permits" \in {a, b} THEN "permits" ELSE IF "review" \in {a, b} THEN "review" ELSE "refuses"
Both(a, b) ==
  IF "refuses" \in {a, b} THEN "refuses" ELSE IF "review" \in {a, b} THEN "review" ELSE "permits"

Meaning(rule, a, b) == IF rule = "or" THEN Either(a, b) ELSE Both(a, b)

\* orExpr is an andExpr, or an orExpr, an OR and an andExpr; andExpr likewise.
Derive(tokens, classes, rule, i, j) ==
  LET IdAt(k) == tokens[k] \notin NotAnId \union {"("}
  IN  IF rule # "term" THEN
        classes[<<Operand(rule), i, j>>]
        \union UNION {{Meaning(rule, a, b) : a \in classes[<<rule, i, k - 1>>],
                                             b \in classes[<<Operand(rule), k + 1, j>>]} :
                        k \in {m \in i + 1 .. j - 1 : tokens[m] = Op(rule)}}
      ELSE IF i + 2 <= j /\ tokens[i] = "(" /\ tokens[j] = ")" THEN classes[<<"or", i + 1, j - 1>>]
      ELSE IF i <= j /\ IdAt(i) /\ (i = j \/ (j = i + 2 /\ tokens[i + 1] = "WITH" /\ IdAt(j)))
             THEN {classifyLicenseID(tokens[i])} ELSE {}

Derivations(tokens) ==
  LET classes[x \in Rules \X (1 .. Len(tokens) + 1) \X (0 .. Len(tokens))] ==
        Derive(tokens, classes, x[1], x[2], x[3])
  IN  classes

Derivable(tokens) == Derivations(tokens)[<<"or", 1, Len(tokens)>>]
=============================================================================
