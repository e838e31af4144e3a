----------------------------- MODULE MCLineups -----------------------------
(* Small instances of Lineups: positions are interchangeable. *)
EXTENDS Lineups, TLC

PosSymmetry == Permutations(Pos)
=============================================================================
