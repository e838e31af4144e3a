------------------------------ MODULE MCOutbox ------------------------------
(***************************************************************************)
(* The cases the outbox is checked on: which pages write what to which     *)
(* matches, and how often each fault happens.                              *)
(***************************************************************************)
EXTENDS Outbox, TLC

CONSTANTS t1, t2, m1, m2, m3

Calm == [tabs |-> {t1}, bases |-> {m1, m2}, drop |-> 0, err |-> 0, no |-> 0,
         close |-> 0, reset |-> 0, logout |-> 0, refuse |-> 0]

One(kinds, writes) ==
    [kinds |-> [t \in Tabs |-> IF t = t1 THEN kinds ELSE {}], writes |-> writes] @@ Calm

Two(kinds1, kinds2, writes) ==
    [kinds |-> [t \in Tabs |-> IF t = t1 THEN kinds1 ELSE kinds2], writes |-> writes,
     tabs |-> {t1, t2}, bases |-> {m1}] @@ Calm

\* One page: sends back of one another's matches, starts that follow them, a
\* result; a request lost.
Matches == One({"run", "fin", "back"}, 4)
Losses == [One({"run", "back"}, 4) EXCEPT !.drop = 1]
Chain == [One({"back", "fin"}, 4) EXCEPT !.bases = {m1, m2, m3}]
\* One match: taps in batches, refused or failing and given up by the operator,
\* and a lineup saved again while its save is out.
Taps == [One({"tap", "lineup"}, 4) EXCEPT !.bases = {m1}, !.err = 1, !.no = 1]
\* The password reset with requests out, one of which fails; a sign-out too.
Passwords == [One({"run", "back"}, 3) EXCEPT !.reset = 1, !.err = 1]
SignOuts == [One({"run", "back"}, 3) EXCEPT !.reset = 1, !.logout = 1]
\* Storage that refuses writes, and a page that goes away.
FullStorage == [One({"run", "fin"}, 3) EXCEPT !.bases = {m1}, !.refuse = 1, !.close = 1, !.drop = 1]
Refusing == [FullStorage EXCEPT !.close = 0]
\* Two pages of one device on one match: one scores it, one saves its lineup.
TwoPages == Two({"run"}, {"lineup"}, 3)
Leaving == [Two({"run", "fin"}, {"lineup"}, 2) EXCEPT !.close = 1]
Lost == [Two({"fin"}, {"lineup"}, 2) EXCEPT !.drop = 1, !.close = 1]
SignedOut == [Two({"run"}, {"run"}, 2) EXCEPT !.logout = 1]
\* Two pages that both score one match, offline at once.
TwoScorers == [Two({"run", "fin"}, {"run"}, 3) EXCEPT !.drop = 2]

Cases ==
    {Matches, Losses, Chain, Taps, Passwords, SignOuts, FullStorage, Refusing,
     TwoPages, Leaving, Lost, SignedOut}
Scorers == {TwoScorers}
SignIns == {Passwords}
=============================================================================
