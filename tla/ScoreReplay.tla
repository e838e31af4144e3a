---------------------------- MODULE ScoreReplay ----------------------------
(***************************************************************************)
(* The replay of one match's score event log                               *)
(* (internal/engine/score_replay.go).  A log holds taps and baselines: a   *)
(* baseline is what a whole write (a finish, a correction, a decision, a   *)
(* reopen) set, group by group.  The match is what its log folds to in     *)
(* STAMP order, whatever order the lines arrived in.                       *)
(*                                                                         *)
(* A match is [team, rows, result, stamp, modified, version, seqs, away].  *)
(* rows maps each scoring group ("points" of an individual match, or the   *)
(* numbered bouts of a fixed-order team match) to <<>> (no row) or <<bout>>*)
(* and result holds the status, the winner and the side that withdrew.     *)
(* Match-level overtime, flags, representative bouts, kachinuki and the    *)
(* drift and repair lines are left out.                                    *)
(***************************************************************************)
EXTENDS BoutScore, TLC

Result == "result"
Scheduled == "scheduled"
Running == "running"
Completed == "completed"

Verdict(status, winner, withdrew) ==
  [status |-> status, winner |-> winner, withdrew |-> withdrew]

\* A default win closes the match with no bout fought for it.
DefaultWin(v) == v.withdrew # None

BlankMatch(team, groups) ==
  [team |-> team,
   rows |-> [g \in groups |-> IF team THEN <<>> ELSE <<EmptyBout>>],
   result |-> Verdict(Running, None, None),
   stamp |-> [g \in groups \cup {Result} |-> 0],
   modified |-> 0, version |-> 0, seqs |-> <<>>, away |-> <<>>]

---------------------------------------------------------------------------
(* Values: what a group is compared and set by.                            *)

\* A bout's row as it is stored: the undo of a fusensho is not kept, and a
\* fought bout nobody leads reads as a Tie.
StoredBout(team, b) ==
  [b EXCEPT !.pre = <<>>,
            !.draw = team /\ b.fusensho = None /\ Played(b) /\ BoutWinnerSide(b) = None]

Unnamed(b) ==
  [b EXCEPT !.ip = [s \in Side |-> [i \in DOMAIN b.ip[s] |-> Mark(b.ip[s][i].letter, NoId)]]]

GroupValue(m, g) ==
  IF g = Result THEN m.result
  ELSE [i \in DOMAIN m.rows[g] |-> Unnamed(StoredBout(m.team, m.rows[g][i]))]

GroupsOf(m) == DOMAIN m.rows \cup {Result}

\* assignMarks: the marks a baseline keeps keep their ids (a longest common
\* subsequence with what the group held, walked from the left); a new mark is
\* named by what it is, never by the write that brought it.
AssignMarks(prev, next, g, s) ==
  LET p == Len(prev)
      n == Len(next)
      same(i, j) == prev[i].letter = next[j].letter
      lcs[i \in 1 .. p + 1, j \in 1 .. n + 1] ==
        IF i > p \/ j > n THEN 0
        ELSE IF same(i, j) THEN lcs[i + 1, j + 1] + 1
        ELSE IF lcs[i + 1, j] >= lcs[i, j + 1] THEN lcs[i + 1, j] ELSE lcs[i, j + 1]
      kept[i \in 1 .. p + 1, j \in 1 .. n + 1] ==
        IF j > n THEN <<>>
        ELSE IF i <= p /\ same(i, j) THEN <<prev[i].id>> \o kept[i + 1, j + 1]
        ELSE IF i <= p /\ lcs[i + 1, j] >= lcs[i, j + 1] THEN kept[i + 1, j]
        ELSE <<NoId>> \o kept[i, j + 1]
      ids == kept[1, 1]
      minted(k, letter) == <<"b", g, s, letter, k>>
      ordinal(j) == Cardinality({i \in 1 .. j - 1 : next[i].letter = next[j].letter})
      named[j \in 0 .. n] ==
        IF j = 0 THEN <<>>
        ELSE LET taken == Range(ids) \cup Range(named[j - 1])
                 free == {k \in ordinal(j) .. ordinal(j) + n : minted(k, next[j].letter) \notin taken}
             IN Append(named[j - 1], IF ids[j] # NoId THEN ids[j]
                                     ELSE minted(Min(free), next[j].letter))
  IN [j \in 1 .. n |-> Mark(next[j].letter, named[n][j])]

---------------------------------------------------------------------------
(* The order of the replay.                                                *)

BaselineStamp(b, g) == b.stamps[g]

FinishesFought(b) ==
  /\ Result \in DOMAIN b.values
  /\ b.values[Result].status = Completed /\ ~DefaultWin(b.values[Result])

\* Each group of a baseline is placed at its own stamp, but a fought finish
\* brings its scoring up to its result: the verdict stands on that scoreline.
BaselineItems(b, i) ==
  LET lift == IF FinishesFought(b) THEN BaselineStamp(b, Result) ELSE 0
      at == [g \in DOMAIN b.values |->
               IF BaselineStamp(b, g) < lift THEN lift ELSE BaselineStamp(b, g)]
  IN SetToSeq({[line |-> i, base |-> TRUE, stamp |-> t,
                groups |-> {g \in DOMAIN at : at[g] = t}] : t \in Range(at)})

LineItems(l, i) ==
  IF l.base THEN BaselineItems(l, i)
  ELSE <<[line |-> i, base |-> FALSE, stamp |-> l.stamp, groups |-> {}]>>

\* Event ids are compared as written: the device, then its count.
IdBefore(a, b) == a[1] < b[1] \/ (a[1] = b[1] /\ a[2] < b[2])

BeforeByArrival(log, x, y) == x.line < y.line                      \* mutant

\* Stamp, then taps before baselines, then the id (a baseline's is its line).
Before(log, x, y) ==
  \/ x.stamp < y.stamp
  \/ /\ x.stamp = y.stamp
     /\ \/ ~x.base /\ y.base
        \/ x.base /\ y.base /\ x.line < y.line
        \/ ~x.base /\ ~y.base /\ IdBefore(log[x.line].id, log[y.line].id)

InOrder(log) ==
  LET items == FlattenSeq([i \in DOMAIN log |-> LineItems(log[i], i)])
  IN SortSeq(items, LAMBDA x, y : Before(log, x, y))

Finishes(log, it) ==
  it.base /\ Result \in it.groups /\ log[it.line].values[Result].status = Completed

\* closingResults: for a tap, the first line after it that finishes the match.
ClosingResults(log, items) ==
  [i \in DOMAIN log |->
     LET at == {k \in DOMAIN items : items[k].line = i}
         after == {k \in DOMAIN items : Finishes(log, items[k]) /\ \E j \in at : j < k}
     IN IF log[i].base \/ after = {} THEN 0 ELSE items[Min(after)].line]

---------------------------------------------------------------------------
(* What a writer had in view.                                              *)

\* One containment rule: the lines it had been shown, the taps it queued ahead
\* of the write, and its own session's taps up to the one it counted.
BasisContains(b, i, e) ==
  \/ i <= b.seen
  \/ e.id \in b.own
  \/ b.dev = e.dev /\ b.seq > 0 /\ e.seq <= b.seq

\* A baseline never holds a tap stamped after it.
InView(log, k, i) ==
  /\ log[i].stamp <= BaselineStamp(log[k], log[i].group)
  /\ BasisContains(log[k], i, log[i])

InForce(st) == st.govern[Result] # 0 /\ st.result.status = Completed

\* The bouts of a team match a withdrawal closed stay open for their scores.
BoutsStayOpen(st, g) ==
  g # Result /\ st.team /\ st.result.status = Completed /\ DefaultWin(st.result)

RivalDoors == {"score", "decision"}

RivalNever(st, log, i) == FALSE                                    \* mutant

\* The first recorded result stands: a finish or a decision from a device that
\* did not see the one in force, and says something else, is a rival.
RivalResult(st, log, i) ==
  LET b == log[i]
  IN /\ b.door \in RivalDoors /\ st.govern[Result] # i
     /\ ~b.informed /\ b.values[Result].status = Completed
     /\ ~(b.basisSent /\ st.govern[Result] <= b.seen)
     /\ \E g \in DOMAIN b.values : GroupValue(st, g) # b.values[g]

\* judgeOverFinished: what a baseline loses on a match already closed.
HeldOver(st, log, it) ==
  IF ~InForce(st) \/ (Result \in it.groups /\ ~RivalResult(st, log, it.line)) THEN {}
  ELSE {g \in it.groups : ~BoutsStayOpen(st, g)}

---------------------------------------------------------------------------
(* One baseline.                                                           *)

\* A decision's circles go to the side that stays; the side that withdrew
\* keeps what it struck before the decision's stamp.
KeepLoserPoints(st, b) ==
  LET lost == b.values[Result].withdrew
  IN [b.values["points"] EXCEPT ![1].ip[lost] = StruckIppons(st.rows["points"][1].ip[lost])]

ValueSet(st, b, g) ==
  IF g = "points" /\ st.govern[g] # 0 /\ b.door = "decision"
  THEN LET v == KeepLoserPoints(st, b) IN [i \in DOMAIN v |-> Unnamed(v[i])]
  ELSE b.values[g]

RowFrom(st, g, value) ==
  LET prev(s) == IF st.govern[g] = 0 \/ st.rows[g] = <<>> THEN <<>> ELSE st.rows[g][1].ip[s]
  IN [i \in DOMAIN value |->
        [value[i] EXCEPT !.ip = [s \in Side |-> AssignMarks(prev(s), value[i].ip[s], g, s)]]]

AbsorbedApplied(log, k, i) == "applied"                            \* mutant

\* absorb: what becomes of a tap a baseline's value now holds or replaces.
Absorbed(log, k, i) ==
  LET b == log[k]
      e == log[i]
      lost == IF b.door = "decision" /\ e.group = "points" THEN b.values[Result].withdrew ELSE None
      held == ~b.basisSent \/ InView(log, k, i)
  IN IF lost # None /\ e.side # None
     THEN IF held THEN "recorded" ELSE IF e.side = lost THEN "applied" ELSE "beforeBaseline"
     ELSE IF InView(log, k, i) THEN "recorded" ELSE "beforeBaseline"

\* applyBaselineGroups: the groups take the line's values and stamps; an echo
\* of what the match already holds leaves the taps it did not see applied.
ApplyGroups(st, log, k, groups) ==
  LET b == log[k]
      value == [g \in groups |-> ValueSet(st, b, g)]
      echo(g) == st.govern[g] # 0 /\ GroupValue(st, g) = value[g]
      kept == [g \in groups |-> {i \in st.applied[g] : echo(g) /\ ~InView(log, k, i)}]
      taken == UNION {(st.applied[g] \ kept[g]) \cup st.early[g] : g \in groups}
  IN [st EXCEPT
        !.rows = [g \in DOMAIN @ |-> IF g \in groups THEN RowFrom(st, g, value[g]) ELSE @[g]],
        !.result = IF Result \in groups THEN value[Result] ELSE @,
        !.stamp = [g \in DOMAIN @ |-> IF g \in groups THEN BaselineStamp(b, g) ELSE @[g]],
        !.govern = [g \in DOMAIN @ |-> IF g \in groups THEN k ELSE @[g]],
        !.applied = [g \in DOMAIN @ |-> IF g \in groups THEN kept[g] ELSE @[g]],
        !.early = [g \in DOMAIN @ |-> IF g \in groups THEN {} ELSE @[g]],
        !.outcome = [i \in DOMAIN @ |-> IF i \in taken THEN Absorbed(log, k, i) ELSE @[i]]]

\* A bout row only a held line brought is not in the match at this point.
ApplyBaseline(st, log, it) ==
  LET held == HeldOver(st, log, it)
      gone == {g \in held \cap DOMAIN st.rows : st.team /\ st.govern[g] = 0}
      st1 == [st EXCEPT !.rows = [g \in DOMAIN @ |-> IF g \in gone THEN <<>> ELSE @[g]],
                        !.stamp = [g \in DOMAIN @ |-> IF g \in gone THEN 0 ELSE @[g]],
                        !.held = @ \cup ({it.line} \X held)]
  IN ApplyGroups(st1, log, it.line, it.groups \ held)

---------------------------------------------------------------------------
(* One tap.                                                                *)

ClosedBeforeNever(st, log, closer, i) == FALSE                     \* mutant

\* A finish governs the groups it does not name too: a tap stamped before it
\* that its sent basis never held is turned away, whichever arrives first.
ClosedBefore(st, log, closer, i) ==
  LET b == log[closer[i]]
  IN /\ closer[i] # 0
     /\ log[i].group \notin DOMAIN b.values
     /\ ~(st.team /\ DefaultWin(b.values[Result]))
     /\ b.basisSent /\ ~BasisContains(b, i, log[i])

\* foldEvent: a bout nobody has a row for gets an empty one, kept only when
\* the tap applies; a decision of a bout has no place on an individual match.
FoldTap(st, e) ==
  LET row == IF st.rows[e.group] = <<>> THEN EmptyBout ELSE st.rows[e.group][1]
      noRow == st.rows[e.group] = <<>> /\ st.stamp[e.group] >= e.stamp
  IN IF noRow THEN Outcome(row, "noTarget")
     ELSE IF st.team THEN FoldBoutTap(row, e) ELSE FoldScoring(row, e)

Told(st, i, word) == [st EXCEPT !.outcome[i] = word]

WaitsNever(st, covered, g) == FALSE                                \* mutant

\* The replay starts from the stored match, which is AFTER every line: a tap
\* older than every baseline of its group waits for the first one.
Waits(st, covered, g) == st.govern[g] = 0 /\ g \in covered

\* applyEvent, in the order of its tests.
ApplyEvent(st, log, covered, closer, i) ==
  LET e == log[i]
      g == e.group
  IN IF InForce(st) /\ ~BoutsStayOpen(st, g) THEN Told(st, i, "matchClosed")
     ELSE IF ClosedBefore(st, log, closer, i) THEN Told(st, i, "beforeBaseline")
     ELSE IF Waits(st, covered, g) THEN [st EXCEPT !.early[g] = @ \cup {i}]
     ELSE IF st.govern[g] # 0 /\ InView(log, st.govern[g], i) THEN Told(st, i, "recorded")
     ELSE LET out == FoldTap(st, e)
          IN IF out.outcome # "applied" THEN Told(st, i, out.outcome)
             ELSE [Told(st, i, "applied") EXCEPT
                     !.rows[g] = <<out.bout>>,
                     !.stamp[g] = IF @ < e.stamp THEN e.stamp ELSE @,
                     !.applied[g] = @ \cup {i}]

---------------------------------------------------------------------------
(* The whole replay.                                                       *)

\* padDefaultWin: a withdrawal gives every unfought bout of the team match a
\* row, dated by the result.
PadDefaultWin(st) ==
  IF ~(st.team /\ st.result.status = Completed /\ DefaultWin(st.result)) THEN st
  ELSE LET bare == {g \in DOMAIN st.rows : st.rows[g] = <<>>}
       IN [st EXCEPT !.rows = [g \in DOMAIN @ |-> IF g \in bare THEN <<EmptyBout>> ELSE @[g]],
                     !.stamp = [g \in DOMAIN @ |-> IF g \in bare /\ @[Result] > 0
                                                   THEN @[Result] ELSE @[g]]]

EventSeqsApplied(log) == <<>>                                      \* mutant

\* ScoreLogEventSeqs: every logged tap counts, applied or not.
EventSeqs(log) ==
  LET of(d) == {log[i].seq : i \in {j \in DOMAIN log : ~log[j].base /\ log[j].dev = d}}
  IN [d \in {log[i].dev : i \in {j \in DOMAIN log : ~log[j].base}} |-> Max(of(d))]

\* turnedAwayOf, below its bounds: every tap the replay does not count.
TurnedAway(log, outcome) ==
  LET away == {i \in DOMAIN log : ~log[i].base /\ outcome[i] \notin {"applied", "recorded", "duplicate"}}
  IN [id \in {log[i].id : i \in away} |-> outcome[CHOOSE i \in away : log[i].id = id]]

Step(st, log, covered, closer, it) ==
  IF it.base THEN ApplyBaseline(st, log, it)
  ELSE IF \E j \in 1 .. it.line - 1 : ~log[j].base /\ log[j].id = log[it.line].id
       THEN Told(st, it.line, "duplicate")
  ELSE ApplyEvent(st, log, covered, closer, it.line)

\* A tap still waiting for a baseline at the end is older than it.
SettleEarly(st) ==
  LET left == UNION Range(st.early)
  IN [st EXCEPT !.outcome = [i \in DOMAIN @ |-> IF i \in left THEN "beforeBaseline" ELSE @[i]]]

\* ReplayScoring: the log folded onto m, which supplies what no line sets.
Fold(m, log) ==
  LET items == InOrder(log)
      closer == ClosingResults(log, items)
      covered == UNION {DOMAIN log[i].values : i \in {j \in DOMAIN log : log[j].base}}
      none == [g \in GroupsOf(m) |-> {}]
      start == [team |-> m.team, rows |-> m.rows, result |-> m.result, stamp |-> m.stamp,
                govern |-> [g \in GroupsOf(m) |-> 0], applied |-> none, early |-> none,
                outcome |-> [i \in DOMAIN log |-> "none"], held |-> {}]
  IN PadDefaultWin(SettleEarly(FoldLeft(
       LAMBDA st, it : Step(st, log, covered, closer, it), start, items)))

MatchOf(m, log, st) ==
  [m EXCEPT !.rows = [g \in DOMAIN @ |-> [i \in DOMAIN st.rows[g] |->
                                            StoredBout(m.team, st.rows[g][i])]],
            !.result = st.result, !.stamp = st.stamp,
            !.modified = Max(Range(st.stamp)),
            !.version = Len(log), !.seqs = EventSeqs(log), !.away = TurnedAway(log, st.outcome)]

Replay(m, log) == IF log = <<>> THEN m ELSE MatchOf(m, log, Fold(m, log))

\* MigrationBaseline: the stored match as the first line of its log, every
\* group at its own stamp, made with nothing in view.
MigrationLine(m) ==
  [base |-> TRUE, door |-> "migration", id |-> NoId, stamp |-> m.modified,
   values |-> [g \in GroupsOf(m) |-> GroupValue(m, g)], stamps |-> m.stamp,
   seen |-> 0, own |-> {}, dev |-> 0, seq |-> 0, informed |-> FALSE, basisSent |-> FALSE]
=============================================================================
