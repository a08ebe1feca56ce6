----------------------------- MODULE QueryEval -----------------------------
(***************************************************************************)
(* ql/eval: a query over a dataset.  The filter is typed against the fields *)
(* of the dataset, evaluated on every record, and what it selects is sorted *)
(* and cut.                                                                 *)
(***************************************************************************)
EXTENDS QueryFacets, QueryRecords

CONSTANT DefaultSort \* what a query without ORDER BY is sorted by

RECURSIVE transform(_)
transform(n) == Transformed(n, transform)

\* A filter that is just a text is looked for in every text of the record.
MatchAll(text) ==
  FoldLeft(LAMBDA or, f :
             LET cond == Node("contains", Getter(f), text)
             IN  CASE or.l = Nil -> [or EXCEPT !.l = cond]
                   [] or.r = Nil -> [or EXCEPT !.r = cond]
                   [] OTHER -> Node("or", cond, or),
           Node("or", Nil, Nil), SetToSeq(StringFields))

\* Dataset.Transform of the query with this filter.
Transform(filter) ==
  LET f == optimize(transform(filter))
  IN  IF f.op = "string" THEN MatchAll(f) ELSE f

RECURSIVE IsFailure(_)
IsFailure(n) == Failing(n, IsFailure)

RECURSIVE evaluate(_, _)
evaluate(n, record) == Evaluated(n, record, LAMBDA child : evaluate(child, record))

\* The value of the filter, to be a bool ("unknown return", execute.go:77).
Filter(record, filter) == compute(evaluate(filter, record), record)
----------------------------------------------------------------------------
\* slices.SortStableFunc: it is an insertion sort up to 20 records.
RECURSIVE insert(_, _, _)
insert(sort, sorted, x) ==
  IF sorted = <<>> \/ ~Sort(sort, x, Last(sorted)) THEN Append(sorted, x)
  ELSE Append(insert(sort, Front(sorted), x), Last(sorted))

SortStableFunc(sort, records) ==
  FoldLeft(LAMBDA sorted, x : insert(sort, sorted, x), <<>>, records)

limited(limit, len) ==
  LET n == IF limit = 0 THEN 20 ELSE limit
  IN  IF n >= len THEN len ELSE n

Failed(why) == [err |-> why]

\* Dataset.Query after the text is parsed.
Run(plan, source) ==
  LET optimized == Transform(plan.filter)
      values == [i \in DOMAIN source |-> Filter(source[i], optimized)]
      sort   == IF plan.sort = <<>> THEN DefaultSort ELSE plan.sort
      picked == SelectSeq([i \in DOMAIN source |-> <<values[i], source[i]>>],
                          LAMBDA x : x[1].b)
      result == SortStableFunc(sort, [i \in DOMAIN picked |-> picked[i][2]])
      limit  == limited(plan.limit, Len(result))
  IN  IF plan.filter = Nil THEN Failed("panic")
      ELSE IF IsFailure(optimized) THEN Failed("invalid")
      ELSE IF Panic \in Range(values) THEN Failed("panic")
      ELSE IF \E v \in Range(values) : v.op # "bool" THEN Failed("unknown return")
      ELSE IF \E i \in DOMAIN sort : sort[i].field \notin Sorters THEN Failed("no field")
      ELSE [err |-> "none", total |-> Len(result),
            records |-> SubSeq(result, 1, limit), facets |-> Facets(result, limit)]

\* Dataset.Query.
Query(words, source) ==
  LET plan == Parse(words)
  IN  IF plan.err THEN Failed("syntax") ELSE Run(plan.query, source)
=============================================================================
