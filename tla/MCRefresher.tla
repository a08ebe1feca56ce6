---------------------------- MODULE MCRefresher ----------------------------
(* Instances of Refresher for TLC. *)
EXTENDS Refresher

CONSTANTS s1, s2

OneSource == <<s1>>
TwoSources == <<s1, s2>>
=============================================================================
