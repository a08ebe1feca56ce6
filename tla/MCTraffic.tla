----------------------------- MODULE MCTraffic -----------------------------
(* An instance of Traffic for TLC. *)
EXTENDS Traffic

CONSTANTS c1, c2, p1, p2

\* Two connections, one of them a tunnel, each with a proxy of its own: that of
\* the first redirects, also when it may do so no more, and that of the other
\* answers.
EachOffer == (c1 :> {<<p1, "moved">>}) @@ (c2 :> {<<p2, "ok">>})
=============================================================================
