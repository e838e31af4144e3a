-------------------------- MODULE MCRestoreJournal --------------------------
(***************************************************************************)
(* RestoreJournal for TLC: two competitions, and the kinds of request.     *)
(***************************************************************************)
EXTENDS RestoreJournal, TLC

CONSTANTS a, b

\* One competition; a whole tournament that leaves one out, asked with and
\* without leave to replace a running match; the Undo of a restore that
\* replaced one competition and created the other; everything.
MCRequests ==
    { [puts |-> {a}, removes |-> {}, allow |-> TRUE],
      [puts |-> {a, Settings}, removes |-> {b}, allow |-> TRUE],
      [puts |-> {a, Settings}, removes |-> {b}, allow |-> FALSE],
      [puts |-> {b}, removes |-> {a}, allow |-> TRUE],
      [puts |-> {a, b, Settings}, removes |-> {}, allow |-> FALSE] }

Symmetry == Permutations(Tokens) \cup Permutations(Passwords)
=============================================================================
