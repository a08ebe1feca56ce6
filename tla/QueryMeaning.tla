---------------------------- MODULE QueryMeaning ----------------------------
(***************************************************************************)
(* What a filter means, apart from how it is optimized and evaluated: its   *)
(* type, whether it holds of a record, and which filters are left out of    *)
(* the language.  As in QueryRecords, what walks a tree is given the walk.  *)
(***************************************************************************)
EXTENDS QueryAst, QueryFields

\* A text that is no field is looked for in all texts of a record.
IsText(n) == n.op = "string" \/ (n.op = "ident" /\ n.s \notin DOMAIN Accessors)

\* The type of a filter: that of a getter, or none.
KindOf(n, Kind(_)) ==
  CASE n.op = "ident" -> IF IsText(n) THEN "StringGetter" ELSE Accessors[n.s]
    [] n.op = "string" -> "StringGetter"
    [] n.op = "number" -> "NumberGetter"
    [] n.op = "duration" -> "none"
    [] n.op = "not" -> IF Kind(n.l) = "BooleanGetter" THEN "BooleanGetter" ELSE "none"
    [] n.op \in {"and", "or"} ->
         IF Kind(n.l) = "BooleanGetter" /\ Kind(n.r) = "BooleanGetter"
           THEN "BooleanGetter" ELSE "none"
    [] OTHER ->
         IF /\ Kind(n.l) = Kind(n.r)
            /\ \/ Kind(n.l) = "StringGetter"
               \/ Kind(n.l) = "NumberGetter" /\ n.op # "contains"
           THEN "BooleanGetter" ELSE "none"

\* The value of a leaf.
value(n, r) ==
  CASE n.op = "ident" -> IF IsText(n) THEN n.s ELSE r[n.s]
    [] n.op = "string" -> n.s
    [] n.op = "number" -> n.n

\* Whether a filter of truth values holds of a record.
HoldsOf(n, r, Kind(_), Holds(_)) ==
  CASE n.op = "ident" -> r[n.s]
    [] n.op = "not" -> ~Holds(n.l)
    [] n.op = "and" -> Holds(n.l) /\ Holds(n.r)
    [] n.op = "or" -> Holds(n.l) \/ Holds(n.r)
    [] n.op = "equals" -> value(n.l, r) = value(n.r, r)
    [] n.op = "contains" -> <<ToLower[value(n.r, r)], ToLower[value(n.l, r)]>> \in Within
    [] n.op \in {"less", "greater"} ->
         LET a == value(IF n.op = "less" THEN n.l ELSE n.r, r)
             b == value(IF n.op = "less" THEN n.r ELSE n.l, r)
         IN  IF Kind(n.l) = "NumberGetter" THEN a < b ELSE Rank[a] < Rank[b]

\* AND and OR take no AND and no OR as an operand, and neither does NOT.
NestedIn(n, Nested(_)) ==
  CASE n.op \in Binaries ->
         \/ n.op \in {"and", "or"} /\ {n.l.op, n.r.op} \cap {"and", "or"} # {}
         \/ Nested(n.l) \/ Nested(n.r)
    [] n.op = "not" -> n.l.op \in {"and", "or"} \/ Nested(n.l)
    [] OTHER -> FALSE
=============================================================================
