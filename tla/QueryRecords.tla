---------------------------- MODULE QueryRecords ----------------------------
(***************************************************************************)
(* ql/eval, what is done with one record or two: the filter is typed        *)
(* against the fields of the dataset and evaluated on a record, and two     *)
(* records are compared.  What walks a tree is given the walk itself as an  *)
(* operator, and does one node.                                             *)
(***************************************************************************)
EXTENDS QueryAst, QueryFields

Getter(f) == [op |-> Accessors[f], s |-> f]
Invalid == [op |-> "invalid"]
Panic == [op |-> "panic"]

AsString == [equals |-> "EqualString", less |-> "LessThanString",
             greater |-> "GreaterThanString"]
AsNumber == [equals |-> "EqualNumber", less |-> "LessThanNumber",
             greater |-> "GreaterThanNumber"]

Typed == {AsString[c] : c \in Comparisons} \cup {AsNumber[c] : c \in Comparisons}

IsString(n) == n.op \in {"StringGetter", "string"}
IsNumber(n) == n.op \in {"NumberGetter", "number"}

\* A junction is not among them.
IsBoolean(n) ==
  n.op \in {"invalid", "BooleanGetter", "bool", "contains", "not"} \cup Typed \cup Comparisons

\* Mutant of typed: what is compared is not looked at.
typedUnchecked(n) == [n EXCEPT !.op = AsNumber[@]]

\* The comparison that suits its operands.
typed(n) ==
  CASE IsString(n.l) /\ IsString(n.r) -> [n EXCEPT !.op = AsString[@]]
    [] IsNumber(n.l) /\ IsNumber(n.r) -> [n EXCEPT !.op = AsNumber[@]]
    [] OTHER -> Invalid

\* The callback of Dataset.Transform.
optimize(n) ==
  CASE n.op \in {"and", "or"} ->
         IF IsBoolean(n.l) /\ IsBoolean(n.r) THEN n ELSE Invalid
    [] n.op = "not" -> IF IsBoolean(n.l) THEN n ELSE Invalid
    [] n.op \in Comparisons -> typed(n)
    [] n.op = "contains" -> IF IsString(n.l) /\ IsString(n.r) THEN n ELSE Invalid
    [] n.op = "ident" -> IF n.s \in DOMAIN Accessors THEN Getter(n.s) ELSE String(n.s)
    [] OTHER -> n

\* Node.Transform with that callback, which a node's parent applies to it once
\* more.
Transformed(n, transform(_)) ==
  LET again(child) == optimize(transform(child))
  IN  CASE n.op \in Binaries -> optimize([n EXCEPT !.l = again(@), !.r = again(@)])
        [] n.op = "not" -> optimize([n EXCEPT !.l = again(@)])
        [] OTHER -> optimize(n)

\* Dataset.IsFailure at a node.
Failing(n, IsFailure(_)) ==
  CASE n.op = "invalid" -> TRUE
    [] n.op \in Binaries \cup Typed -> IsFailure(n.l) \/ IsFailure(n.r)
    [] n.op = "not" -> IsFailure(n.l)
    [] OTHER -> FALSE
----------------------------------------------------------------------------
\* The type assertions of Filter.
assert(op, n, value) == IF n.l.op = op /\ n.r.op = op THEN Bool(value) ELSE Panic

contains(l, r) == <<ToLower[r], ToLower[l]>> \in Within

\* The callback of Filter on a record.
compute(n, record) ==
  CASE n.op \in {"bool", "string", "number", "invalid"} -> n
    [] n.op = "StringGetter" -> String(record[n.s])
    [] n.op = "NumberGetter" -> Number(record[n.s])
    [] n.op = "BooleanGetter" -> Bool(record[n.s])
    [] n.op = "contains" -> assert("string", n, contains(n.l.s, n.r.s))
    [] n.op = "EqualString" -> assert("string", n, n.l.s = n.r.s)
    [] n.op = "LessThanString" -> assert("string", n, Rank[n.l.s] < Rank[n.r.s])
    [] n.op = "GreaterThanString" -> assert("string", n, Rank[n.l.s] > Rank[n.r.s])
    [] n.op = "EqualNumber" -> assert("number", n, n.l.n = n.r.n)
    [] n.op = "LessThanNumber" -> assert("number", n, n.l.n < n.r.n)
    [] n.op = "GreaterThanNumber" -> assert("number", n, n.l.n > n.r.n)
    [] n.op = "not" -> IF n.l.op = "bool" THEN Bool(~n.l.b) ELSE Panic
    [] n.op = "and" -> assert("bool", n, n.l.b /\ n.r.b)
    [] n.op = "or" -> assert("bool", n, n.l.b \/ n.r.b)
    [] n.op \in {"nil", "panic"} -> Panic
    [] OTHER -> Bool(FALSE)

\* Node.Transform with that callback.
Evaluated(n, record, evaluate(_)) ==
  LET again(child) == compute(evaluate(child), record)
  IN  CASE n.op \in Binaries \cup Typed ->
             compute([n EXCEPT !.l = again(@), !.r = again(@)], record)
        [] n.op = "not" -> compute([n EXCEPT !.l = again(@)], record)
        [] OTHER -> compute(n, record)
----------------------------------------------------------------------------
\* The generated comparators of a field.  Those of a bool are no orders.
less(f, left, right) ==
  CASE Accessors[f] = "NumberGetter" -> left[f] < right[f]
    [] Accessors[f] = "StringGetter" -> Rank[left[f]] < Rank[right[f]]
    [] Accessors[f] = "BooleanGetter" -> left[f] = right[f]

greater(f, left, right) ==
  IF Accessors[f] = "BooleanGetter" THEN left[f] # right[f] ELSE less(f, right, left)

Comparator(by, left, right) ==
  IF by.asc THEN less(by.field, left, right) ELSE greater(by.field, left, right)

\* Sorters.Sort: left comes before right.  The comparators are asked in turn,
\* until one of them tells the records apart.
Sort(sort, left, right) ==
  \E i \in DOMAIN sort :
    /\ Comparator(sort[i], left, right)
    /\ \A j \in 1..(i - 1) : ~Comparator(sort[j], right, left)
=============================================================================
