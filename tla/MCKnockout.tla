----------------------------- MODULE MCKnockout -----------------------------
(* What is drawn for the runs of Knockout. *)
EXTENDS Knockout

TwoCourts == [id \in {PoolMatch("A"), KO(0, 0), KO(1, 0)} |-> 1]
             @@ [id \in {PoolMatch("B"), PoolMatch("C"), KO(0, 1), Bronze} |-> 2]

\* Two pools, both competitors of each qualify.
TwoPools == [leaves |-> <<Place("A", 1), Place("B", 2), Place("B", 1), Place("A", 2)>>,
             bronze |-> FALSE,
             pools |-> [A |-> <<"p", "q">>, B |-> <<"r", "s">>],
             court |-> TwoCourts,
             kinds |-> {}, writes |-> 4, reopens |-> 1]

\* Three pools, the first of each qualifies and one has a bye.
ThreePools == [leaves |-> <<Place("A", 1), Nobody, Place("B", 1), Place("C", 1)>>,
               bronze |-> FALSE,
               pools |-> [A |-> <<"p", "q">>, B |-> <<"r", "s">>, C |-> <<"t", "u">>],
               court |-> TwoCourts,
               kinds |-> {}, writes |-> 4, reopens |-> 1]

\* A draw of four, with a 3rd-place match.
FourDrawn == [leaves |-> <<Player("p"), Player("q"), Player("r"), Player("s")>>,
              bronze |-> TRUE,
              pools |-> <<>>,
              court |-> TwoCourts,
              kinds |-> {"injury", "fusenpai"}, writes |-> 4, reopens |-> 1]

\* A draw of five: one pair of the first round waits behind a dead pair.
FiveDrawn == [leaves |-> <<Player("p"), Player("q"), Nobody, Nobody,
                           Player("r"), Nobody, Player("s"), Player("t")>>,
              bronze |-> FALSE,
              pools |-> <<>>,
              court |-> [id \in {KO(r, i) : r \in 0..2, i \in 0..3} |-> 1],
              kinds |-> {}, writes |-> 4, reopens |-> 0]

Drawn == {TwoPools, ThreePools, FourDrawn,
          [TwoPools EXCEPT !.kinds = {"kiken"}, !.writes = 3]}
WithBronze == {[TwoPools EXCEPT !.bronze = TRUE, !.writes = 6]}
PlainPools == {[TwoPools EXCEPT !.reopens = 0]}
FiveEntrants == {FiveDrawn}
=============================================================================
