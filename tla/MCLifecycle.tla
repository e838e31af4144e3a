---------------------------- MODULE MCLifecycle ----------------------------
(* Two requests in flight over one competition of each format. *)
EXTENDS Lifecycle, TLC

CONSTANTS a, b

MCRequests == {a, b}
MCSymmetry == Permutations(MCRequests)
MCFormats == {"mixed", "league", "swiss", "knockout"}
=============================================================================
