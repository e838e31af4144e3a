---------------------------- MODULE MCKachinuki ----------------------------
(* The encounter of two teams of two or three, on two tablets. *)
EXTENDS Kachinuki

SavesAB == [a |-> <<<<"a1", "a2">>, <<"a3", "a2">>>>, b |-> <<<<"b1", "b2">>>>]

FightersAB == {"a1", "a2", "a3", "b1", "b2"}

PicksAB == {<<"a2", "b1">>}

B(t, r, o) == [taps |-> t, records |-> r, others |-> o]

\* Three taps with one Record bout, or with two and one other event; two of
\* each; one tap and two Record bouts beside three other events.
MCBudgets == {B(3, 1, 2), B(3, 2, 1), B(2, 2, 2), B(1, 2, 3)}
=============================================================================
