---------------------------- MODULE QueryFacets ----------------------------
(***************************************************************************)
(* ql/eval/facets.go: the summaries that are shown beside the records a     *)
(* query found.  A card has a count and the text of a query that leads to   *)
(* the records it counts.  The names of number cards are formatting and are *)
(* left out, and with them the order of cards of equal count.               *)
(***************************************************************************)
EXTENDS QueryParser, QueryFields, Ranges

CONSTANTS
  StringFacets, \* field -> its cards search with ~ instead of :
  NumberFacets, \* the fields with numeric ranges
  Part,         \* text -> what a facet that searches with ~ shows of it
  Scan          \* text of letters, digits and _ -> its words when it is not quoted

NotAvailable == "n/a"

Card(name, value, filter) == [Name |-> name, Value |-> value, Filter |-> filter]

count(data, S) == Cardinality({i \in DOMAIN data : data[i] \in S})

\* numberRanges.Facet.
numberCards(field, data, topN) ==
  LET n    == Min({topN, MaxRanges})
      bins == Bins(data, n)
      in(i) == {v \in Range(data) : v \in bins[i]}
      filter(i) == <<Word(field), Sign(">"), Digits(Min(in(i))), Word("AND"),
                     Word(field), Sign("<"), Digits(Max(in(i)))>>
  IN  {Card(i, count(data, bins[i]), filter(i)) :
         i \in {j \in 1..n : count(data, bins[j]) > 1}}

\* Mutant of literal: no name is quoted, and the scanner makes of some no word.
literalBare(name) == IF name \in DOMAIN Scan THEN Scan[name] ELSE <<Sign(name)>>

\* A name that isAlpha matches is not quoted, whatever the scanner, to which
\* an identifier is a run of letters, will make of it.
literal(name) == IF name \in DOMAIN Scan THEN Scan[name] ELSE <<Quoted(name)>>

\* stringSummary.Facet: the most frequent texts.
stringCards(field, data, topN) ==
  LET shown(text) == IF text = "" THEN NotAvailable ELSE text
      sign  == Sign(IF StringFacets[field] THEN "~" ELSE ":")
      cards == {Card(shown(text), count(data, {text}),
                     <<Word(field), sign>> \o literal(shown(text))) :
                  text \in {t \in Range(data) : count(data, {t}) >= 2}}
      sorted == SetToSortSeq(cards, LAMBDA a, b :
                  \/ a.Value > b.Value
                  \/ a.Value = b.Value /\ Rank[a.Name] > Rank[b.Name])
  IN  SubSeq(sorted, 1, Min({topN, Len(sorted)}))

\* FacetRetrievers.Facets: the facets that have cards.
Facets(records, topN) ==
  LET texts(f) == [i \in DOMAIN records |->
                     IF StringFacets[f] THEN Part[records[i][f]] ELSE records[i][f]]
      numbers(f) == [i \in DOMAIN records |-> records[i][f]]
      found == {<<f, Range(stringCards(f, texts(f), topN))>> : f \in DOMAIN StringFacets}
                 \cup {<<f, IF records = <<>> THEN {} ELSE numberCards(f, numbers(f), topN)>> :
                         f \in NumberFacets}
  IN  {facet \in found : facet[2] # {}}
=============================================================================
