------------------------------ MODULE MCProbe ------------------------------
(* Instances of Probe for TLC. *)
EXTENDS Probe, TLC

Socks == {[addr |-> a, proto |-> "SOCKS5"] : a \in Address}
Http == {[addr |-> a, proto |-> "HTTP"] : a \in Address}
Symmetry == Permutations(Workers) \cup Permutations(Reverifiers)

\* What follows an overlap of batches and what follows a removal are explored
\* apart; and the former up to the time-out of an HTTPS proxy, which the next batch
\* would swap like the HTTP proxy it was.
OverlapOrRemovals ==
  inputs.early > 0 =>
    /\ inputs.deletes = 0 /\ inputs.evictions = 0
    /\ \A p \in Proxies : p.proto = "HTTPS" => LastReverified[p] = 0
=============================================================================
