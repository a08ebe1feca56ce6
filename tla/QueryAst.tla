------------------------------ MODULE QueryAst ------------------------------
(***************************************************************************)
(* ql/ast: the nodes of a query.  A node is a record: its operator, and its *)
(* operands l and r or its literal.  A number is a field n, a text a field  *)
(* s and a truth value a field b, so that nodes can always be compared.     *)
(***************************************************************************)
EXTENDS Integers, Sequences

Ident(s) == [op |-> "ident", s |-> s]
String(s) == [op |-> "string", s |-> s]
Number(n) == [op |-> "number", n |-> n]
Bool(b) == [op |-> "bool", b |-> b]
Duration == [op |-> "duration"]
Nil == [op |-> "nil"]

Not(n) == [op |-> "not", l |-> n]
Node(op, l, r) == [op |-> op, l |-> l, r |-> r]

Comparisons == {"equals", "less", "greater"}
Binaries == Comparisons \cup {"and", "or", "contains"}

\* ast.Query; a sort is a sequence of ast.OrderBy, and nil the empty one.
OrderBy(f, asc) == [field |-> f, asc |-> asc]
Plan(filter, sort, limit) == [filter |-> filter, sort |-> sort, limit |-> limit]
=============================================================================
