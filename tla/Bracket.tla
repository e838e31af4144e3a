------------------------------ MODULE Bracket ------------------------------
(****************************************************************************)
(* The elimination bracket of a competition and what one result does to it  *)
(* (internal/engine: bracket.go, scoring.go, kachinuki.go, knockout.go).    *)
(*                                                                          *)
(* A bracket is a function from match ids to rows.  The id of a round match *)
(* is <<"ko", round, index>>, rounds counted from the first, and the        *)
(* 3rd-place match is <<"bronze">>.  A side of a row holds a competitor, a  *)
(* pool place, the winner of an earlier match, or nobody.                   *)
(****************************************************************************)
EXTENDS Integers, SequencesExt

Nobody == <<>>
Player(x) == <<"player", x>>
Place(pool, rank) == <<"place", pool, rank>>
WinnerOf(id) == <<"winner", id[2], id[3]>>
KO(r, i) == <<"ko", r, i>>
Bronze == <<"bronze">>

IsPlayer(who) == who # Nobody /\ who[1] = "player"
AwaitsWinner(who) == who # Nobody /\ who[1] = "winner"

Sides == {"a", "b"}
OtherSide(f) == IF f = "a" THEN "b" ELSE "a"

None == "none"                       \* no decision recorded
DefaultWins == {"kiken", "injury", "fusenpai", "fusensho"}
Withdrawals == {"kiken", "injury", "fusenpai"}

\* "draw" is what each side and the winner held when the draw was made.
Row(a, b) == [a |-> a, b |-> b, winner |-> Nobody, status |-> "scheduled",
              dec |-> None, draw |-> [a |-> a, b |-> b, winner |-> Nobody]]

Playable(m) == IsPlayer(m.a) /\ IsPlayer(m.b)
OwnResult(m) == m.status = "completed" /\ m.dec # None
Underway(m) == m.status \in {"running", "completed"} \/ m.winner # Nobody
Loser(m) == IF m.winner = m.a THEN m.b ELSE m.a

-----------------------------------------------------------------------------
(* Where a winner goes.                                                     *)

Next(id) == KO(id[2] + 1, id[3] \div 2)
Fed(id) == IF id[3] % 2 = 0 THEN "a" ELSE "b"
HasNext(b, id) == id # Bronze /\ Next(id) \in DOMAIN b
FeedsBronze(b, id) ==
    Bronze \in DOMAIN b /\ HasNext(b, id) /\ ~ HasNext(b, Next(id))
Seat(b, id, side, who) == [b EXCEPT ![id][side] = who]

\* A "Winner of" side is filled from its source once that is completed.
SeatFinished(b, id, side) ==
    LET who == b[id][side] IN
    IF AwaitsWinner(who) /\ b[KO(who[2], who[3])].status = "completed"
    THEN Seat(b, id, side, b[KO(who[2], who[3])].winner)
    ELSE b

\* The winner of id, a completed match, takes its seat in the next one and a
\* semifinal's loser takes theirs in the 3rd-place match.
Advanced(b, id) ==
    LET m == b[id]
        seated == Seat(b, Next(id), Fed(id), m.winner)
        placed == IF FeedsBronze(b, id) /\ IsPlayer(Loser(m))
                  THEN Seat(seated, Bronze, Fed(id), Loser(m)) ELSE seated
    IN  SeatFinished(SeatFinished(placed, Next(id), "a"), Next(id), "b")

\* The sides with which a match is over without being fought: somebody faces
\* nobody, or nobody faces nobody.
Walkover(m) ==
    \/ m.a = Nobody /\ m.b = Nobody
    \/ \E f \in Sides : m[f] # Nobody /\ ~ AwaitsWinner(m[f]) /\ m[OtherSide(f)] = Nobody

WalkedOver(m) ==
    [m EXCEPT !.status = "completed",
              !.winner = IF m.a # Nobody THEN m.a ELSE IF m.b # Nobody THEN m.b ELSE @]

\* propagateBracketWinner: a walkover passes the winner on to the round after.
Propagate(b, id) ==
    LET Hop(acc, r) ==
            IF ~ acc.go \/ ~ HasNext(acc.b, acc.at) THEN acc
            ELSE LET on == Advanced(acc.b, acc.at)
                     nx == Next(acc.at)
                 IN IF Walkover(on[nx])
                    THEN [b |-> [on EXCEPT ![nx] = WalkedOver(@)], at |-> nx, go |-> TRUE]
                    ELSE [b |-> on, at |-> nx, go |-> FALSE]
        rounds == {x[2] : x \in DOMAIN b \ {Bronze}}
    IN FoldLeft(Hop, [b |-> b, at |-> id, go |-> TRUE], SetToSeq(rounds)).b

-----------------------------------------------------------------------------
(* The draw.                                                                *)

\* The round matches, first round first, each round top to bottom.
InOrder(ids) ==
    SetToSortSeq(ids, LAMBDA x, y : x[2] < y[2] \/ (x[2] = y[2] /\ x[3] < y[3]))

\* buildBracketFromDraw over a power of two of leaves, Nobody at a bye: byes
\* are completed and passed on, and a match whose one feeder is a dead pair
\* is completed too, with no winner yet.
DrawBracket(leaves, bronze) ==
    LET size(r) == Len(leaves) \div (2 ^ (r + 1))
        ids == UNION {{KO(r, i) : i \in 0..(size(r) - 1)} :
                       r \in {q \in 0..Len(leaves) : size(q) >= 1}}
        blank == [id \in ids |->
                    IF id[2] = 0 THEN Row(leaves[2 * id[3] + 1], leaves[2 * id[3] + 2])
                    ELSE Row(WinnerOf(KO(id[2] - 1, 2 * id[3])),
                             WinnerOf(KO(id[2] - 1, 2 * id[3] + 1)))]
        byes == [id \in ids |-> IF Walkover(blank[id]) THEN WalkedOver(blank[id]) ELSE blank[id]]
        passed == FoldLeft(LAMBDA b, id : IF b[id].status = "completed" THEN Propagate(b, id) ELSE b,
                           byes, InOrder(ids))
        latent(m) == m.status = "scheduled"
                       /\ \E f \in Sides : m[f] = Nobody /\ AwaitsWinner(m[OtherSide(f)])
        settled == [id \in ids |-> IF latent(passed[id]) THEN [passed[id] EXCEPT !.status = "completed"]
                                                        ELSE passed[id]]
        drawn == [id \in ids |-> [settled[id] EXCEPT !.draw =
                     [a |-> settled[id].a, b |-> settled[id].b, winner |-> settled[id].winner]]]
    IN  IF bronze THEN drawn @@ (Bronze :> Row(Nobody, Nobody)) ELSE drawn

-----------------------------------------------------------------------------
(* What a result reached: the 3rd-place match it fed, the byes its winner   *)
(* was passed through, and the first match past them.                       *)

ByeFrom(b, id) ==
    LET m == b[Next(id)] IN
    /\ m.status = "completed" /\ m.winner # Nobody /\ ~ OwnResult(m)
    /\ m[OtherSide(Fed(id))] = Nobody /\ IsPlayer(m[Fed(id)])

\* The chain from id through the byes: id itself, then each bye.
Chain(b, id) ==
    LET Hop(acc, r) == IF HasNext(b, Last(acc)) /\ ByeFrom(b, Last(acc))
                       THEN Append(acc, Next(Last(acc))) ELSE acc
    IN FoldLeft(Hop, <<id>>, SetToSeq({x[2] : x \in DOMAIN b \ {Bronze}}))

Feed(b, id) == Last(Chain(b, id))

\* The 3rd-place match first: it is the one a dialog names first.
Reached(b, id) ==
    (IF FeedsBronze(b, id) THEN <<Bronze>> ELSE <<>>)
      \o (IF HasNext(b, Feed(b, id)) THEN <<Next(Feed(b, id))>> ELSE <<>>)

Played(b, id) == SelectSeq(Reached(b, id), LAMBDA x : OwnResult(b[x]))
RunningUnasked(b, id) == {}

Running(b, id) == {x \in ToSet(Reached(b, id)) : b[x].status = "running"}

\* The winner a correction is compared with: the match's own, or for one that
\* was reopened the competitor its last result left in the next match.
PropagatedWinner(b, id) ==
    IF b[id].winner # Nobody \/ ~ HasNext(b, id) THEN b[id].winner
    ELSE LET slot == b[Next(id)][Fed(id)] IN IF IsPlayer(slot) THEN slot ELSE Nobody

-----------------------------------------------------------------------------
(* Taking a result back.                                                    *)

\* The fight is kept: only the verdict goes.
Reopened(m, status) == [m EXCEPT !.status = status, !.winner = Nobody, !.dec = None]

UnwindChainSideA(b, id) ==
    IF HasNext(b, id) THEN Seat(b, Next(id), "a", WinnerOf(id)) ELSE b

\* Each bye is unresolved and every fed side names its feeder again.
UnwindChain(b, id) ==
    LET chain == Chain(b, id)
        Undo(acc, at) ==
            IF ~ HasNext(acc, at) THEN acc
            ELSE LET back == Seat(acc, Next(at), Fed(at), WinnerOf(at))
                 IN IF at = Last(chain) THEN back
                    ELSE [back EXCEPT ![Next(at)].winner = Nobody]
    IN FoldLeft(Undo, b, chain)

ClearBronze(b, id) ==
    IF FeedsBronze(b, id) THEN Seat(b, Bronze, Fed(id), Nobody) ELSE b

\* retractPropagatedWinner, once nothing it reached has started.
Retract(b, id) == UnwindChain(ClearBronze(b, id), id)

\* retractIntoUntouched: the same for a match a correction elsewhere reopened,
\* each target on its own, one that has started keeping its competitor.
RetractIntoUntouched(b, id) ==
    LET bronzeKept == FeedsBronze(b, id) /\ Underway(b[Bronze])
        past == Feed(b, id)
        nextKept == HasNext(b, past) /\ Underway(b[Next(past)])
        cleared == IF bronzeKept THEN b ELSE ClearBronze(b, id)
    IN IF nextKept THEN cleared ELSE UnwindChain(cleared, id)

\* forceReopenDownstreamChain: one hop, past byes.
ForceReopen(b, id) ==
    LET next == Next(Feed(b, id))
        Step(acc, x) ==
            LET open == [acc EXCEPT ![x] = Reopened(@, "scheduled")]
            IN IF x = next THEN RetractIntoUntouched(open, x) ELSE open
    IN FoldLeft(Step, b, Played(b, id))
=============================================================================
