------------------------------ MODULE Datasets ------------------------------
(***************************************************************************)
(* The datasets that can be queried: the proxies of the pool, the requests  *)
(* of the history, and the backlog and the blacklist of the probe.  A       *)
(* schema names the getters of a dataset, the fields it can be sorted by,   *)
(* its default order and its facets.                                        *)
(***************************************************************************)
EXTENDS QueryAst, FiniteSets

getters(strings, numbers, bools) ==
  [f \in strings \cup numbers \cup bools |->
     IF f \in strings THEN "StringGetter"
     ELSE IF f \in numbers THEN "NumberGetter" ELSE "BooleanGetter"]

\* StringFacets says which of them search for a part of the field.
schema(accessors, unsorted, sort, strings, numbers) ==
  [Accessors |-> accessors, Sorters |-> DOMAIN accessors \ unsorted,
   DefaultSort |-> sort, StringFacets |-> strings, NumberFacets |-> numbers]

ApiEntryDataset ==
  schema(getters({"Proxy", "Country", "Provider"},
                 {"FirstSeen", "LastSeen", "ReanimateAfter", "Speed", "Timeouts",
                  "Offered", "Reanimated", "Succeed", "ASN"},
                 {"Ok"}),
         {}, <<OrderBy("LastSeen", FALSE)>>,
         [Proxy |-> TRUE, Country |-> FALSE],
         {"FirstSeen", "LastSeen", "Speed", "Succeed", "Offered"})

RequestDataset ==
  schema(getters({"Method", "URL", "Status", "Proxy"},
                 {"ID", "Serial", "Attempt", "Ts", "StatusCode", "Appeared", "Took", "Size"},
                 {}),
         {"Size"}, <<OrderBy("Ts", FALSE)>>,
         [Method |-> FALSE, URL |-> TRUE, Status |-> TRUE, Proxy |-> FALSE],
         {"Took", "Size"})

inReverifyDataset ==
  schema(getters({"Proxy", "Country", "Provider", "Failure"}, {"Attempt", "After", "ASN"}, {}),
         {}, <<OrderBy("Attempt", TRUE)>>,
         [Country |-> FALSE, Provider |-> FALSE, Failure |-> FALSE], {})

blacklistedDataset ==
  schema(getters({"Proxy", "Country", "Provider", "Failure"}, {"ASN"}, {}),
         {}, <<>>,
         [Country |-> FALSE, Provider |-> FALSE, Failure |-> TRUE], {})

\* What the query engine relies on: two texts to search in, facets that show
\* fields of their kind, and a default order that does not depend on the order
\* in which Go walks the map of the sorters.
ASSUME DatasetsAssumption ==
  \A d \in {ApiEntryDataset, RequestDataset, inReverifyDataset, blacklistedDataset} :
    /\ Cardinality({f \in DOMAIN d.Accessors : d.Accessors[f] = "StringGetter"}) >= 2
    /\ \A f \in DOMAIN d.StringFacets : d.Accessors[f] = "StringGetter"
    /\ \A f \in d.NumberFacets : d.Accessors[f] = "NumberGetter"
    /\ Len(d.DefaultSort) <= 1
    /\ \A i \in DOMAIN d.DefaultSort : d.DefaultSort[i].field \in d.Sorters
=============================================================================
