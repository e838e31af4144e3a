----------------------------- MODULE Knockout -----------------------------
(****************************************************************************)
(* Match day of one competition: its pools, the knockout they feed, the     *)
(* doors that start, finish, correct, decide, requeue and reopen a match    *)
(* (internal/engine scoring_tx.go, scoring.go, kachinuki.go), the planner   *)
(* that answers a pool correction (pool_requalify.go), the resolver that    *)
(* seats finished pools after the write (knockout.go), and who is barred    *)
(* (eligibility.go).                                                        *)
(*                                                                          *)
(* Each door is one transaction of the competition.  A request that may     *)
(* move a pool's places goes on to seat them after its transaction: it      *)
(* reads the pools, then applies what it read in a transaction of its own.  *)
(* Pools have two competitors and one match.                                *)
(****************************************************************************)
EXTENDS Bracket, FiniteSets, TLC

\* A shape is what was drawn, [leaves, bronze, pools, court], with the bounds
\* of its exploration: kinds, the default wins recorded; writes, how many
\* results and decisions; reopens, how many reopens, forced saves, hand-set
\* orders and reinstatements.
CONSTANTS Shapes,
          Requests      \* the requests that may be in flight at once

ASSUME KnockoutAssumption ==
    \A s \in Shapes : s.kinds \subseteq DefaultWins /\ s.writes \in Nat /\ s.reopens \in Nat

VARIABLES comp,     \* the competition: its shape, which never changes
          match,    \* every match of the competition, by id
          bar,      \* the ruling each competitor is barred by
          rank,     \* the competitor an organiser ranked first, by pool
          seat,     \* what each request in flight is to seat
          writes, reopens

vars == <<comp, match, bar, rank, seat, writes, reopens>>

PoolMatch(p) == <<"pool", p>>
InPool(id) == id[1] = "pool"
IsRound(id) == id[1] = "ko"
Pools(m) == {id[2] : id \in {x \in DOMAIN m : InPool(x)}}
BracketIds(m) == {id \in DOMAIN m : ~ InPool(id)}
BracketOf(m) == [id \in BracketIds(m) |-> m[id]]
\* The rows of b in place of those m has.
With(m, b) == b @@ m

\* Those a status may name, and no status or an eligible one (BarredSides
\* treats them alike).
Competitors == DOMAIN bar
NoBar == [by |-> Nobody, kind |-> None]
Idle == [step |-> "idle"]
Owed == [step |-> "owed"]

Field == {"a", "b", "winner"}

Init ==
    \E s \in Shapes :
       LET rows == [id \in {PoolMatch(p) : p \in DOMAIN s.pools} |->
                      Row(Player(s.pools[id[2]][1]), Player(s.pools[id[2]][2]))]
                   @@ DrawBracket(s.leaves, s.bronze)
       IN /\ comp = s
          /\ match = rows
          /\ bar = [c \in {x \in UNION {{rows[id].a, rows[id].b} : id \in DOMAIN rows} :
                             IsPlayer(x)} |-> NoBar]
          /\ rank = [p \in DOMAIN s.pools |-> Nobody]
          /\ seat = [q \in Requests |-> Idle]
          /\ writes = 0 /\ reopens = 0

-----------------------------------------------------------------------------
(* Who is barred.                                                           *)

\* A ruling that still stands against c on a match other than id.
Standing(m, c, id) ==
    LET ids == {x \in DOMAIN m \ {id} : /\ m[x].status = "completed"
                                        /\ m[x].dec = "fusenpai" /\ Loser(m[x]) = c}
    IN IF ids = {} THEN NoBar ELSE [by |-> CHOOSE x \in ids : TRUE, kind |-> "fusenpai"]

RestoredOutright(m, bars, id, keep) ==
    LET freed == {c \in DOMAIN bars \ {keep} : bars[c].by = id /\ bars[c].kind # "reinstated"}
    IN [c \in freed |-> NoBar] @@ bars

\* Everyone barred by id but keep is restored, or barred by what still stands.
Restored(m, bars, id, keep) ==
    LET freed == {c \in DOMAIN bars \ {keep} : bars[c].by = id /\ bars[c].kind # "reinstated"}
    IN [c \in freed |-> Standing(m, c, id)] @@ bars

\* restoreIfWithdrawalRemoved, over the matches a reopen displaced: was holds
\* the decision each of ids had.
RestoredAll(m, bars, ids, was) ==
    LET Restore(acc, x) ==
            IF was[x].dec \in Withdrawals THEN Restored(m, acc, x, Nobody) ELSE acc
    IN FoldLeft(Restore, bars, ids)

\* Barred by a ruling of another match.
BarredIn(bars, id, c) == bars[c].kind \in Withdrawals /\ bars[c].by # id

\* The ruling's loser is barred, unless a match before this one barred them
\* already; then the one this match had barred before is restored.
RuledOn(m, bars, id, wasDec) ==
    LET row == m[id]
        loser == Loser(row)
        barred == IF row.dec \in Withdrawals /\ ~ BarredIn(bars, id, loser)
                  THEN [bars EXCEPT ![loser] = [by |-> id, kind |-> row.dec]] ELSE bars
    IN IF wasDec \in Withdrawals
       THEN Restored(m, barred, id, IF row.dec \in Withdrawals THEN loser ELSE Nobody)
       ELSE barred

\* Neither side is fighting elsewhere or barred by another match.
SidesFree(m, id) ==
    \A f \in Sides :
       /\ ~ BarredIn(bar, id, m[id][f])
       /\ \A x \in DOMAIN m \ {id} :
             m[x].status = "running" => m[id][f] \notin {m[x].a, m[x].b}

CourtFree(m, id) ==
    \A x \in DOMAIN m \ {id} : m[x].status = "running" => comp.court[x] # comp.court[id]

-----------------------------------------------------------------------------
(* Seating the pools.                                                       *)

\* The competitor in each place of each finished pool of ps.
Finishers(m, ranks, ps) ==
    LET done == {p \in ps : m[PoolMatch(p)].status = "completed"}
        first(p) == IF ranks[p] # Nobody THEN ranks[p] ELSE m[PoolMatch(p)].winner
        other(p) == CHOOSE c \in {m[PoolMatch(p)].a, m[PoolMatch(p)].b} : c # first(p)
    IN [l \in {Place(p, k) : p \in done, k \in {1, 2}} |->
          IF l[3] = 1 THEN first(l[2]) ELSE other(l[2])]

\* The slots of row whose competitor the places would replace.
Moved(row, places) ==
    {f \in Field : row.draw[f] \in DOMAIN places /\ row[f] # places[row.draw[f]]}

LockedWhileRunning(row) == row.status = "running"

Locked(row) == row.status = "running" \/ OwnResult(row)

ResolveSlotsOneByOne(b, places) ==
    [id \in DOMAIN b |->
       IF Locked(b[id]) THEN b[id]
       ELSE [f \in Moved(b[id], places) |-> places[b[id].draw[f]]] @@ b[id]]

\* resolveSlots: a pool is painted whole or not at all.
ResolveSlots(b, places) ==
    LET frozen == UNION {{b[id].draw[f][2] : f \in Moved(b[id], places)} :
                           id \in {x \in DOMAIN b : Locked(b[x])}}
        painted(row) == {f \in Moved(row, places) : row.draw[f][2] \notin frozen}
    IN [id \in DOMAIN b |->
          IF Locked(b[id]) THEN b[id]
          ELSE [f \in painted(b[id]) |-> places[b[id].draw[f]]] @@ b[id]]

\* The matches a change of the places takes a seated competitor out of.
Displaced(b, places) ==
    {id \in DOMAIN b : \E f \in Moved(b[id], places) : IsPlayer(b[id][f])}

\* applyRequalification: the played ones are queued again, each taking back the
\* winner it passed on as far as nobody has touched it.
ReopenedFor(b, played) ==
    LET Open(acc, id) ==
            LET open == [acc EXCEPT ![id] = Reopened(@, "scheduled")]
            IN IF id = Bronze THEN open ELSE RetractIntoUntouched(open, id)
    IN FoldLeft(Open, b, played)

\* answerRequalification after a write to pool p that left m and ranks: what
\* the knockout is refused for, and what it becomes.
Requalified(m, ranks, p, force) ==
    LET b == BracketOf(m)
        places == Finishers(m, ranks, {p})
        hit == Displaced(b, places)
        played == {id \in hit : OwnResult(b[id])}
        order == InOrder(played \ {Bronze}) \o (IF Bronze \in played THEN <<Bronze>> ELSE <<>>)
    IN [refused |-> \/ \E id \in hit : b[id].status = "running"
                    \/ played # {} /\ ~ force,
        match |-> IF hit = {} THEN m
                  ELSE With(m, ResolveSlots(ReopenedFor(b, order), places)),
        reopened |-> order]

-----------------------------------------------------------------------------
(* The doors.                                                               *)

\* A request that may have moved a pool's places seats them next.
Follow(q, owes) == seat' = [seat EXCEPT ![q] = IF owes THEN Owed ELSE Idle]

Spend(forced) == /\ writes < comp.writes /\ writes' = writes + 1
                 /\ forced => reopens < comp.reopens
                 /\ reopens' = reopens + (IF forced THEN 1 ELSE 0)

\* The score sheet's start: court, sides, and both sides known.
Start(id) ==
    /\ match[id].status = "scheduled"
    /\ Playable(match[id])
    /\ CourtFree(match, id)
    /\ SidesFree(match, id)
    /\ match' = [match EXCEPT ![id].status = "running"]
    /\ UNCHANGED <<comp, bar, rank, seat, writes, reopens>>

\* A result recorded on id: f won, by dec.  A round match passes its winner
\* on, and is refused when another winner of it is fighting or, unless
\* forced, has fought; a pool match answers for the places it moves.
Recorded(m, ranks, id, f, dec, force) ==
    LET row == [m[id] EXCEPT !.status = "completed", !.dec = dec, !.winner = m[id][f]]
        after == [m EXCEPT ![id] = row]
        b == BracketOf(after)
        changed == row.winner # PropagatedWinner(BracketOf(m), id)
        pushed == IF HasNext(b, id) THEN Propagate(b, id) ELSE b
        forced == force /\ changed
    IN  IF InPool(id) THEN Requalified(after, ranks, id[2], force)
        ELSE IF id = Bronze \/ ~ HasNext(b, id)
        THEN [refused |-> FALSE, match |-> after, reopened |-> <<>>]
        ELSE [refused |-> /\ changed
                          /\ \/ Running(b, id) # {}
                             \/ Played(b, id) # <<>> /\ ~ force,
              match |-> With(after, IF forced THEN ForceReopen(pushed, id) ELSE pushed),
              reopened |-> IF forced THEN Played(pushed, id) ELSE <<>>]

Record(q, id, f, dec, force) ==
    /\ Spend(force)
    /\ \E r \in {Recorded(match, rank, id, f, dec, force)} :
          /\ ~ r.refused
          /\ force => r.reopened # <<>>        \* "Proceed anyway" answers a refusal
          /\ match' = r.match
          /\ bar' = RuledOn(r.match, RestoredAll(r.match, bar, r.reopened, match), id, match[id].dec)
    /\ Follow(q, InPool(id))
    /\ UNCHANGED <<comp, rank>>

\* A finish, from the queue or from the court.
Finish(q, id, f, force) ==
    /\ match[id].status \in {"scheduled", "running"}
    /\ Playable(match[id])
    /\ SidesFree(match, id)
    /\ Record(q, id, f, "fought", force)

\* A correction of a completed match; over a default win it is the one that
\* says to remove it.
Correct(q, id, f, force) ==
    /\ match[id].status = "completed" /\ Playable(match[id])
    /\ match[id].dec # "fought" \/ match[id].winner # match[id][f]
    /\ Record(q, id, f, "fought", force)

\* A competitor another match barred is not withdrawn again, except by the
\* no-show the bar makes of their matches.
AlreadyBarred(id, dec, c) == dec \in {"kiken", "injury"} /\ BarredIn(bar, id, c)

\* A default win, whatever the match's status.
Decide(q, id, f, dec, force) ==
    /\ Playable(match[id])
    /\ match[id].dec # dec \/ match[id].winner # match[id][f]
    /\ ~ AlreadyBarred(id, dec, match[id][OtherSide(f)])
    /\ dec = "fusensho" /\ match[id].status # "completed" => SidesFree(match, id)
    /\ Record(q, id, f, dec, force)

\* RevertMatchToQueue: the score is kept, nothing is taken back.
Requeue(id) ==
    /\ match[id].status = "running"
    /\ match' = [match EXCEPT ![id].status = "scheduled"]
    /\ UNCHANGED <<comp, bar, rank, seat, writes, reopens>>

\* A match whose loser stays barred by another goes back to the queue.
ReopenStatus(m, id) ==
    IF BarredIn(Restored(m, bar, id, Nobody), id, Loser(m[id])) THEN "scheduled" ELSE "running"

\* ReopenMatch, for a default win: the result is taken back from where it
\* went and the match is on again, on its court when that is free.
Reopen(id, force) ==
    LET b == BracketOf(match)
        status == ReopenStatus(match, id)
        displaced == IF force THEN Played(b, id) ELSE <<>>
        back == IF IsRound(id) /\ HasNext(b, id)
                THEN Retract(IF force THEN ForceReopen(b, id) ELSE b, id) ELSE b
        open == [(IF InPool(id) THEN match ELSE With(match, back)) EXCEPT
                   ![id] = Reopened(@, status)]
    IN
    /\ match[id].status = "completed" /\ match[id].dec \in DefaultWins
    /\ reopens < comp.reopens /\ reopens' = reopens + 1
    /\ IsRound(id) /\ HasNext(b, id) => Running(b, id) = {} /\ (Played(b, id) # <<>> => force)
    /\ force => IsRound(id) /\ displaced # <<>>
    /\ status = "running" => CourtFree(match, id)
    /\ match' = open
    /\ bar' = RestoredAll(open, RestoredAll(open, bar, displaced, match), <<id>>, match)
    /\ UNCHANGED <<comp, rank, seat, writes>>

\* OverridePoolRanks: the organiser ranks c first in its pool.
SetRank(q, p, c, force) ==
    /\ c \in {match[PoolMatch(p)].a, match[PoolMatch(p)].b} /\ c # rank[p]
    /\ reopens < comp.reopens /\ reopens' = reopens + 1
    /\ rank' = [rank EXCEPT ![p] = c]
    /\ \E r \in {Requalified(match, rank', p, force)} :
          /\ ~ r.refused
          /\ force => r.reopened # <<>>
          /\ match' = r.match
          /\ bar' = RestoredAll(r.match, bar, r.reopened, match)
    /\ Follow(q, TRUE)
    /\ UNCHANGED <<comp, writes>>

\* An injured competitor the doctor cleared.
Reinstate(c) ==
    /\ bar[c].kind = "injury"
    /\ reopens < comp.reopens /\ reopens' = reopens + 1
    /\ bar' = [bar EXCEPT ![c].kind = "reinstated"]
    /\ UNCHANGED <<comp, match, rank, seat, writes>>

-----------------------------------------------------------------------------
(* ResolveQualifiedPools, after the write and outside its transaction.      *)

ReadPools(q) ==
    /\ seat[q] = Owed
    /\ seat' = [seat EXCEPT ![q] =
                  [step |-> "read", places |-> Finishers(match, rank, Pools(match))]]
    /\ UNCHANGED <<comp, match, bar, rank, writes, reopens>>

SeatPools(q) ==
    /\ seat[q].step = "read"
    /\ match' = With(match, ResolveSlots(BracketOf(match), seat[q].places))
    /\ seat' = [seat EXCEPT ![q] = Idle]
    /\ UNCHANGED <<comp, bar, rank, writes, reopens>>

KNext ==
    \/ \E id \in DOMAIN match : Start(id) \/ Requeue(id)
    \/ \E q \in Requests : seat[q] = Idle /\
          \/ \E id \in DOMAIN match, f \in Sides, force \in BOOLEAN :
                \/ Finish(q, id, f, force)
                \/ Correct(q, id, f, force)
                \/ \E dec \in comp.kinds : Decide(q, id, f, dec, force)
          \/ \E p \in Pools(match), c \in Competitors, force \in BOOLEAN : SetRank(q, p, c, force)
    \/ \E id \in DOMAIN match, force \in BOOLEAN : Reopen(id, force)
    \/ \E c \in Competitors : Reinstate(c)
    \/ \E q \in Requests : ReadPools(q) \/ SeatPools(q)
Spec == Init /\ [][KNext]_vars

-----------------------------------------------------------------------------
Rounds == {id \in DOMAIN match : IsRound(id)}

Fighting(id) == match[id].status = "running"

\* The winner of every completed match is seated in the match it feeds, after
\* any run of corrections, forced corrections and reopens of the matches around
\* it (propagateBracketWinner, retractPropagatedWinner, retractIntoUntouched).
WinnerSeated ==
    \A id \in Rounds :
       HasNext(match, id) /\ match[id].status = "completed" /\ match[id].winner # Nobody
         => match[Next(id)][Fed(id)] = match[id].winner

\* A result of its own always names one of the two competitors the match now
\* shows: nothing repaints a match that was fought (resolveSlots,
\* guardDownstreamKnockoutCorrection).
WinnerIsASide ==
    \A id \in DOMAIN match \ {Bronze} :
       OwnResult(match[id]) =>
          Playable(match[id]) /\ match[id].winner \in {match[id].a, match[id].b}

\* No competitor stands in two matches of one round, whichever places of a
\* re-scored pool could be repainted (resolveSlots: a pool is painted whole or
\* not at all).
NobodyTwice ==
    \A x, y \in Rounds : x[2] = y[2] /\ x # y =>
       \A f, g \in Sides : IsPlayer(match[x][f]) => match[x][f] # match[y][g]

\* A competitor is barred by a ruling exactly as long as one stands: a barred
\* one has a completed withdrawal against them on record, by that very match,
\* and nobody with one on record is free, but for an injury the doctor may
\* have cleared (recordIneligibilityFromDecision, restoreIfWithdrawalRemoved).
BarsFollowRulings ==
    \A c \in Competitors :
       LET rulings == {id \in DOMAIN match : /\ match[id].status = "completed"
                                             /\ match[id].dec \in Withdrawals
                                             /\ Loser(match[id]) = c}
       IN /\ bar[c].kind \in Withdrawals => bar[c].by \in rulings
          /\ bar[c].kind = None => \A id \in rulings : match[id].dec = "injury"

\* Once no request is left to seat a pool, every slot of a finished pool that
\* is neither being fought nor fought shows the pool's present finisher
\* (ResolveQualifiedPools after each write of a pool).
QuietSeated ==
    (\A q \in Requests : seat[q] = Idle) =>
       LET places == Finishers(match, rank, Pools(match)) IN
       \A id \in BracketIds(match) : ~ Locked(match[id]) => Moved(match[id], places) = {}

\* A match won without a fight was won against a bye of the draw, never against
\* a side somebody is still to win (buildBracketFromDraw's dead pairs).
WonByFighting ==
    \A id \in Rounds :
       match[id].status = "completed" /\ ~ OwnResult(match[id]) /\ match[id].winner # Nobody =>
         \A f \in Sides : match[id][f] = match[id].winner =>
            match[id].draw[OtherSide(f)] = Nobody

\* No match being fought is given another competitor
\* (guardDownstreamKnockoutCorrection, planRequalification).
FightKeepsItsSides ==
    [][\A id \in DOMAIN match :
         Fighting(id) /\ match'[id].status = "running" =>
            match'[id].a = match[id].a /\ match'[id].b = match[id].b]_vars

\* The same of the round matches, the 3rd-place match left aside.
RoundsKeepTheirSides ==
    [][\A id \in Rounds :
         Fighting(id) /\ match'[id].status = "running" =>
            match'[id].a = match[id].a /\ match'[id].b = match[id].b]_vars

\* The bracket is sound after any run of results, corrections and reopens: each
\* winner sits where it advances to, each result names a side of its match, and
\* nobody stands twice in a round (propagateBracketWinner, resolveSlots).
SeatsAreSound == WinnerSeated /\ WinnerIsASide /\ NobodyTwice

=============================================================================
