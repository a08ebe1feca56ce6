------------------------------- MODULE MCPool -------------------------------
(* Instances of Pool for TLC. *)
EXTENDS Pool

OneBucket == [p \in Proxies |-> 0]
=============================================================================
