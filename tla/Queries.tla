------------------------------ MODULE Queries ------------------------------
(***************************************************************************)
(* The query language on bounded inputs: an input is one query or one       *)
(* dataset, and the properties compare what the program makes of it with a  *)
(* reference definition.                                                    *)
(***************************************************************************)
EXTENDS Algorithms, QueryEval, QueryMeaning, Datasets

\* Texts: Lower is what ToLower does to them, Rank their order in Go.
Text == <<"", "BY", "DE", "by", "de", "de-at", "http", "http://1", "https", "https://2",
          "n/a", "socks5", "socks5://3", "w">>

TextRank == [t \in Range(Text) |-> CHOOSE i \in DOMAIN Text : Text[i] = t]
Lower == [t \in Range(Text) |-> CASE t = "DE" -> "de" [] t = "BY" -> "by" [] OTHER -> t]
Parts ==
  {<<t, t>> : t \in Range(Text)} \cup {<<"", t>> : t \in Range(Text)}
    \cup {<<"de", "de-at">>, <<"http", "https">>, <<"http", "http://1">>,
          <<"http", "https://2">>, <<"https", "https://2">>, <<"socks5", "socks5://3">>}
Scheme == [t \in Range(Text) |-> CASE t = "https://2" -> "https"
                                   [] t = "socks5://3" -> "socks5" [] OTHER -> "http"]
Words == [t \in {"BY", "DE", "by", "de", "http", "https", "socks5", "w"} |->
            IF t = "socks5" THEN <<Word("socks"), Digits(5)>> ELSE <<Word(t)>>]

PoolAccessors == ApiEntryDataset.Accessors
PoolSorters == ApiEntryDataset.Sorters
PoolSort == ApiEntryDataset.DefaultSort
PoolStrings == ApiEntryDataset.StringFacets
PoolNumbers == ApiEntryDataset.NumberFacets

\* Entries of the pool; the fields that no query here tells apart are fixed.
entry(proxy, country, ok, offered, seen) ==
  [Proxy |-> proxy, Country |-> country, Provider |-> "w", Ok |-> ok,
   Offered |-> offered, LastSeen |-> seen, FirstSeen |-> 0, Speed |-> 0, Succeed |-> 0]

Entries ==
  <<entry("http://1", "de", TRUE, 1, 0), entry("https://2", "DE", FALSE, 2, 1),
    entry("https://2", "de-at", TRUE, 1, 1), entry("http://1", "", FALSE, 0, 1)>>
----------------------------------------------------------------------------
\* The filters: every operator over every pair of leaves, and the operators
\* over some of the results.
Leaves ==
  {Ident("Offered"), Ident("Country"), Ident("Ok"), Ident("w"), Number(1),
   String("DE"), Duration}

Small == Leaves \cup {Node(op, l, r) : op \in Binaries, l \in Leaves, r \in Leaves}

Branches ==
  {Ident("Ok"), Number(1), Node("equals", Ident("Country"), Ident("de")),
   Node("greater", Ident("Offered"), Number(1)), Not(Ident("Ok")),
   Node("and", Ident("Ok"), Ident("Ok")), Node("or", Ident("Ok"), Ident("Ok")),
   Node("contains", Ident("Country"), Ident("Offered"))}

Filters ==
  Small \cup {Not(n) : n \in Small}
    \cup {Node(op, l, r) : op \in Binaries, l \in Branches, r \in Branches}

Sorts ==
  {<<>>, <<OrderBy("Offered", TRUE)>>, <<OrderBy("Proxy", FALSE), OrderBy("Offered", TRUE)>>,
   <<OrderBy("Offered", FALSE), OrderBy("Country", TRUE), OrderBy("Proxy", TRUE)>>,
   <<OrderBy("Nothing", TRUE)>>}

Plans ==
  {Plan(f, <<>>, 0) : f \in Filters}
    \cup {Plan(f, s, n) : f \in {Ident("http"), Not(Ident("Ok"))}, s \in Sorts, n \in {0, 1, 3}}

\* NOT over and over, up to what the stack of the parser holds.
Nots ==
  LET nots[n \in Nat] == IF n = 0 THEN Ident("Ok") ELSE Not(nots[n - 1])
  IN  {Plan(nots[n], <<>>, 0) : n \in 0..(yyInitialStackSize - 2)}

\* Two proxies, twice each, and numbers in two ranges.
Offers ==
  {[proxy |-> <<"http://1", "http://1", "https://2", "https://2">>, n |-> <<0, 0, 1, 2>>],
   [proxy |-> <<"http://1", "socks5://3", "socks5://3", "http://1">>, n |-> <<1, 2, 3, 9>>]}

Countries ==
  {[i \in 1..4 |-> entry(o.proxy[i], c[i], TRUE, o.n[i], 0)] :
     c \in [1..4 -> {"", "BY", "de", "de-at"}], o \in Offers}

QueryInputs ==
  {[of |-> "query", plan |-> p] : p \in Plans \cup Nots}
    \cup {[of |-> "cards", records |-> r] : r \in Countries}
----------------------------------------------------------------------------
\* How a query is written: parentheses only where the precedence of parser.y
\* asks for them (OR, AND, NOT, then < > ~, then = and !=; to the left).
prec(n) ==
  CASE n.op = "or" -> 1 [] n.op = "and" -> 2 [] n.op = "not" -> 3
    [] n.op \in {"less", "greater", "contains"} -> 4 [] n.op = "equals" -> 5
    [] OTHER -> 6

Signature ==
  "or" :> Word("OR") @@ "and" :> Word("AND") @@ "less" :> Sign("<") @@
  "greater" :> Sign(">") @@ "contains" :> Sign("~") @@ "equals" :> Sign(":")

RECURSIVE print(_)
print(n) ==
  LET at(m, level) ==
        IF prec(m) >= level THEN print(m) ELSE <<Sign("(")>> \o print(m) \o <<Sign(")")>>
  IN  CASE n.op \in Binaries -> at(n.l, prec(n)) \o <<Signature[n.op]>> \o at(n.r, prec(n) + 1)
        [] n.op = "not" -> <<Word("NOT")>> \o at(n.l, 3)
        [] n.op = "ident" -> <<Word(n.s)>>
        [] n.op = "string" -> <<Quoted(n.s)>>
        [] n.op = "number" -> <<Digits(n.n)>>
        [] n.op = "duration" -> <<Digits(5), Word("w")>>

printSort(sort) ==
  LET by(i) == <<IF i = 1 THEN Word("BY") ELSE Sign(","), Word(sort[i].field),
                 Word(IF sort[i].asc THEN "ASC" ELSE "DESC")>>
  IN  IF sort = <<>> THEN <<>> ELSE <<Word("ORDER")>> \o FlattenSeq([i \in DOMAIN sort |-> by(i)])

printPlan(p) ==
  print(p.filter) \o printSort(p.sort)
    \o IF p.limit = 0 THEN <<>> ELSE <<Word("LIMIT"), Digits(p.limit)>>

\* The parser that goyacc generated builds the tree that the grammar and the
\* precedences of parser.y give to a text, for every text whose nesting fits
\* its stack.
ParsesPrinted ==
  input.of = "query" => Parse(printPlan(input.plan)) = [err |-> FALSE, query |-> input.plan]
----------------------------------------------------------------------------
\* The meaning of a filter (QueryMeaning).
RECURSIVE Kind(_)
Kind(n) == KindOf(n, Kind)

RECURSIVE Holds(_, _)
Holds(n, r) == HoldsOf(n, r, Kind, LAMBDA m : Holds(m, r))

RECURSIVE Nested(_)
Nested(n) == NestedIn(n, Nested)

Matches(n, r) ==
  IF IsText(n)
    THEN \E f \in StringFields : <<ToLower[n.s], ToLower[r[f]]>> \in Within
    ELSE n # Duration /\ Holds(n, r)

Answered(n) == IsText(n) \/ n = Duration \/ (Kind(n) = "BooleanGetter" /\ ~Nested(n))

\* r comes before s in this order, or is listed before it.
Before(sort, i, j) ==
  LET key(f, r) == IF f \in StringFields THEN TextRank[r[f]] ELSE r[f]
      first == {k \in DOMAIN sort :
                  key(sort[k].field, Entries[i]) # key(sort[k].field, Entries[j])}
      k == Min(first)
  IN  IF first = {} THEN i < j
      ELSE (key(sort[k].field, Entries[i]) < key(sort[k].field, Entries[j])) <=> sort[k].asc

\* A query is answered with the records that its filter holds of, in the order
\* it asks for, ties as they are listed, and cut at its limit; and it is
\* answered whenever it is well typed, unless junctions are nested in it.  Any
\* other query is refused with an error: no filter that the optimizer lets
\* through panics on a record, and one whose value is no truth value (a number)
\* is an "unknown return" (execute.go:77).
QueryAnswers ==
  input.of = "query" =>
    LET plan == input.plan
        res  == Query(printPlan(plan), Entries)
        sort == IF plan.sort = <<>> THEN PoolSort ELSE plan.sort
        want == SetToSortSeq({i \in DOMAIN Entries : Matches(plan.filter, Entries[i])},
                             LAMBDA i, j : Before(sort, i, j))
        n    == IF plan.limit \in 1..Len(want) THEN plan.limit ELSE Len(want)
    IN  IF Answered(plan.filter) /\ \A i \in DOMAIN sort : sort[i].field \in PoolSorters
          THEN /\ res.err = "none" /\ res.total = Len(want)
               /\ res.records = [i \in 1..n |-> Entries[want[i]]]
          ELSE res.err \in {"invalid", "unknown return", "no field"}
----------------------------------------------------------------------------
\* What the lexer reads as the text that was meant: a quoted text, or a single
\* identifier that is no keyword.
Readable(name) ==
  name \in DOMAIN Scan =>
    Len(Scan[name]) = 1 /\ Match(Head(Scan[name]), Signs[":"]) = IDENT

\* The query of a card leads back to the records that the card counts: to
\* exactly those for a text that is compared, to no fewer for one that is
\* searched for, and to no more for a range of numbers (its ends are left out,
\* facets.go:176).  The card of the empty text leads nowhere, and nothing is
\* said of a text that facets.go:212 leaves unquoted and the lexer takes for
\* something else: the cards of "socks5" (api.go:22) and of the country "BY"
\* (lexer.go:54) lead to a syntax error.
CardsDrillDown ==
  input.of = "cards" =>
    \A facet \in Query(<<>>, input.records).facets : \A card \in facet[2] :
      LET res == Query(card.Filter, input.records)
      IN  facet[1] \in PoolNumbers \/ Readable(card.Name) =>
            /\ res.err = "none"
            /\ CASE facet[1] \in PoolNumbers -> res.total <= card.Value
                 [] PoolStrings[facet[1]] -> res.total >= card.Value
                 [] OTHER -> card.Name = NotAvailable \/ res.total = card.Value
=============================================================================
