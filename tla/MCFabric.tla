------------------------------ MODULE MCFabric ------------------------------
(***************************************************************************)
(* An instance of Fabric for TLC: a part of the factories of main.go, and   *)
(* some wirings of the same names that are not right.                       *)
(***************************************************************************)
EXTENDS Fabric

MainWiring ==
  [dialer |-> <<>>, stats |-> <<>>, checker |-> <<{"dialer"}>>, pool |-> <<{"dialer"}>>,
   probe |-> <<{"stats"}, {"pool"}, {"checker"}>>]

SomeWirings ==
  {MainWiring,
   \* A product that is taken twice, and one that is handed on.
   [MainWiring EXCEPT !.pool = <<{"dialer"}, {"dialer"}, {"checker"}>>],
   \* Two products match; none does; a cycle.
   [MainWiring EXCEPT !.checker = <<{"dialer", "stats"}>>],
   [MainWiring EXCEPT !.checker = <<{}>>],
   [MainWiring EXCEPT !.checker = <<{"probe"}>>]}
=============================================================================
