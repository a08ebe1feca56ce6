---------------------------- MODULE QueryFields ----------------------------
(***************************************************************************)
(* The fields of the records of a dataset.  What the package strings and    *)
(* the operator < of Go do with texts is given by the constants ToLower,    *)
(* Within and Rank.                                                         *)
(***************************************************************************)
EXTENDS Integers, FiniteSets

CONSTANTS
  Accessors, \* field -> the kind of its getter
  Sorters,   \* the fields that can be sorted by
  ToLower,   \* text -> text
  Within,    \* pairs of texts: the first is part of the second
  Rank       \* text -> its place in the order of texts

StringFields == {f \in DOMAIN Accessors : Accessors[f] = "StringGetter"}

\* The search in all texts needs two of them (optimize.go:104).
ASSUME QueryAssumption ==
  /\ \A f \in DOMAIN Accessors :
       Accessors[f] \in {"StringGetter", "NumberGetter", "BooleanGetter"}
  /\ Sorters \subseteq DOMAIN Accessors
  /\ Cardinality(StringFields) >= 2
=============================================================================
