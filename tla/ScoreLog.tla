------------------------------ MODULE ScoreLog ------------------------------
(***************************************************************************)
(* One match scored from several devices.  Every tap and every whole write *)
(* goes into the device's outbox with the device's own stamp, reaches the  *)
(* server when the network lets it, in any order between devices and more  *)
(* than once when an answer is lost, and is logged there.  The stored match*)
(* is what ScoreReplay folds the log to (engine/score_log_write.go,        *)
(* match_merge.go's mergeByReplay, result_lock.go; the client half is      *)
(* web-mobile/js/api_client.jsx, score_events.jsx and match_groups.jsx).   *)
(*                                                                         *)
(* Left out: a match sent back to the queue, revisions of older builds'    *)
(* running saves, unstamped writes, and refusals of other rules.           *)
(***************************************************************************)
EXTENDS ScoreReplay

CONSTANTS
  Devices,      \* 1 .. n: an event id is compared by device first
  Shapes,       \* the matches a run may start from
  LetterOf,     \* the letter each device strikes: whose mark is whose
  TapKinds,     \* the kinds of tap a run makes
  MaxStamp,     \* bound: the clocks run from 1 to this
  MaxTaps, MaxWrites,  \* bounds: taps and whole writes made in all
  MaxLost,      \* bound: answers lost
  MaxReopens,   \* bound: reopens
  MaxActs       \* bound: all of these together

ASSUME ScoreLogAssumption ==
  /\ IsFiniteSet(Devices) /\ Devices = 1 .. Cardinality(Devices)
  /\ {MaxStamp, MaxTaps, MaxWrites, MaxLost, MaxReopens, MaxActs} \subseteq Nat

VARIABLES
  stored,   \* the match on the server's disk
  log,      \* its score event log
  nextFought, \* whether the knockout match it feeds was played or started
  view,     \* the server copy each device shows
  outbox,   \* what each device still has to send, oldest first
  made,     \* the taps each device's session has made of this match
  own,      \* the newest stamp each device used on this match
  taps, writes, lost, reopens   \* what has happened, for the bounds

vars == <<stored, log, nextFought, view, outbox, made, own, taps, writes, lost, reopens>>
counts == <<taps, writes, lost, reopens>>
May(n, bound) == n < bound /\ taps + writes + lost + reopens < MaxActs

\* The match as it stands, its log still empty; a device may show it as it began.
Init ==
  /\ stored \in Shapes /\ log = <<>> /\ nextFought = FALSE
  /\ view \in [Devices -> {stored, BlankMatch(stored.team, DOMAIN stored.rows)}]
  /\ outbox = [d \in Devices |-> <<>>]
  /\ made = [d \in Devices |-> 0] /\ own = [d \in Devices |-> 0]
  /\ taps = 0 /\ writes = 0 /\ lost = 0 /\ reopens = 0

---------------------------------------------------------------------------
(* The device.                                                             *)

QueuedTaps(d) == SelectSeq(outbox[d], LAMBDA e : ~e.base)
HoldsWrite(d) == \E i \in DOMAIN outbox[d] : outbox[d][i].base

\* applyPending: the server copy with the device's unsent taps folded on; a
\* tap the copy's log already counts is not folded again.
PendingFold(m, e) ==
  IF m.result.status = Completed /\ ~(m.team /\ DefaultWin(m.result)) THEN m
  ELSE IF e.dev \in DOMAIN m.seqs /\ e.seq <= m.seqs[e.dev] THEN m
  ELSE LET out == FoldTap(m, e)
       IN IF out.outcome = "applied" THEN [m EXCEPT !.rows[e.group] = <<out.bout>>] ELSE m

\* A mark the copy does not name is named as the server's first line will.
Named(m) ==
  [m EXCEPT !.rows = [g \in DOMAIN @ |-> [i \in DOMAIN @[g] |->
     IF m.version > 0 THEN @[g][i]
     ELSE [@[g][i] EXCEPT !.ip = [s \in Side |-> AssignMarks(<<>>, @[s], g, s)]]]]]

Board(d) == FoldLeft(PendingFold, Named(view[d]), QueuedTaps(d))

\* _stampAfterSeen, _afterOwnStamp: any time of the clock, but after what the
\* device used before and after what it was shown.
Floor(d) == Max({own[d] + 1, view[d].modified + 1})
Stamps(d) == Floor(d) .. MaxStamp

NewTap(d, t, kind, g, s, target) ==
  [base |-> FALSE, id |-> <<d, made[d] + 1>>, dev |-> d, seq |-> made[d] + 1, stamp |-> t,
   group |-> g, kind |-> kind, side |-> s,
   letter |-> IF kind = "ippon.add" THEN LetterOf[d] ELSE None, target |-> target]

MarksOf(b) == UNION {{b.ip[s][i].id : i \in DOMAIN b.ip[s]} : s \in Side}

\* The taps a board offers: a control that would change nothing is not shown.
TapsOf(d, board, t) ==
  {e \in UNION {
     IF k = "ippon.remove"
     THEN {NewTap(d, t, k, g, None, x) : x \in UNION {MarksOf(b) : b \in Range(board.rows[g])}}
     ELSE {NewTap(d, t, k, g, s, NoId) : s \in Side} :
       k \in TapKinds, g \in DOMAIN board.rows} :
     FoldTap(board, e).outcome = "applied"}

\* recordTap: the tap is in the outbox, and on the board, when it returns.
Tap(d) ==
  /\ May(taps, MaxTaps) /\ ~HoldsWrite(d) /\ view[d].result.status = Running
  /\ LET board == Board(d) IN \E t \in Stamps(d) : \E e \in TapsOf(d, board, t) :
       /\ outbox' = [outbox EXCEPT ![d] = Append(@, e)]
       /\ own' = [own EXCEPT ![d] = t]
  /\ made' = [made EXCEPT ![d] = @ + 1]
  /\ taps' = taps + 1
  /\ UNCHANGED <<stored, log, nextFought, view, writes, lost, reopens>>

\* _basisFor, _tagWrite: what the writer was shown, and its own unsent taps.
NewWrite(d, t, door, values, informed) ==
  [base |-> TRUE, door |-> door, id |-> <<d, "w", writes + 1>>, stamp |-> t,
   values |-> values, stamps |-> [g \in DOMAIN values |-> t],
   seen |-> view[d].version, own |-> {e.id : e \in Range(QueuedTaps(d))},
   dev |-> d, seq |-> made[d], informed |-> informed, basisSent |-> TRUE]

Put(d, w) ==
  /\ outbox' = [outbox EXCEPT ![d] = Append(@, w)]
  /\ own' = [own EXCEPT ![d] = w.stamp]
  /\ writes' = writes + 1
  /\ UNCHANGED <<stored, log, nextFought, view, made, taps, lost, reopens>>

\* The side ahead: on points, or on bouts won and then points, or none.
Leader(m) ==
  LET won(s) == Cardinality({g \in DOMAIN m.rows : m.rows[g] # <<>> /\ BoutWinnerSide(m.rows[g][1]) = s})
      points(s) == MapThenSumSet(LAMBDA g : IF m.rows[g] = <<>> THEN 0 ELSE Points(m.rows[g][1], s),
                                 DOMAIN m.rows)
      ahead(s) == won(s) > won(Other(s)) \/ (won(s) = won(Other(s)) /\ points(s) > points(Other(s)))
  IN IF ahead("a") THEN "a" ELSE IF ahead("b") THEN "b" ELSE None

\* changedGroups: what the editor's board differs from the server copy it shows.
ChangedValues(d, m) ==
  [g \in {h \in DOMAIN m.rows : GroupValue(m, h) # GroupValue(view[d], h)} |-> GroupValue(m, g)]

\* Finish: the board's verdict with every group it changes.
Finish(d) ==
  /\ May(writes, MaxWrites) /\ ~HoldsWrite(d) /\ view[d].result.status = Running
  /\ LET board == Board(d)
         values == ChangedValues(d, board) @@ (Result :> Verdict(Completed, Leader(board), None))
     IN \E t \in Stamps(d) : Put(d, NewWrite(d, t, "score", values, FALSE))

\* Correct: the organiser strikes or takes back a mark of a finished match and
\* says why; the verdict is worked out again.
Correct(d) ==
  /\ May(writes, MaxWrites) /\ ~HoldsWrite(d)
  /\ view[d].result.status = Completed /\ ~DefaultWin(view[d].result)
  /\ \E t \in Stamps(d), s \in Side : \E g \in DOMAIN view[d].rows :
       LET e == NewTap(d, t, "ippon.add", g, s, NoId)
           open == [view[d] EXCEPT !.result.status = Running]
           fixed == PendingFold(open, e)
       IN /\ fixed.rows # open.rows
          /\ Put(d, NewWrite(d, t, "score",
                ChangedValues(d, fixed) @@ (Result :> Verdict(Completed, Leader(fixed), None)), TRUE))

\* A withdrawal; the server builds its scoreline on arrival (BuildDecision).
Decide(d) ==
  /\ May(writes, MaxWrites) /\ ~HoldsWrite(d) /\ view[d].result.status = Running
  /\ \E t \in Stamps(d), s \in Side :
       Put(d, NewWrite(d, t, "decision", (Result :> Verdict(Completed, Other(s), s)), FALSE))

---------------------------------------------------------------------------
(* The server.                                                             *)

BegunBare(m, l) == l                                               \* mutant

\* The log a write is replayed on: an empty one begins with the stored match.
Begun(m, l) == IF l = <<>> THEN <<MigrationLine(m)>> ELSE l

\* buildDecisionResult: circles for the side that stays, what it had struck
\* for the side that withdrew; the bouts of a team match are left alone.
BuildDecision(m, w) ==
  IF w.door # "decision" \/ m.team THEN w
  ELSE LET loser == w.values[Result].withdrew
           bout == [m.rows["points"][1] EXCEPT
                      !.fouls = [s \in Side |-> 0],
                      !.ip = [s \in Side |-> IF s = loser THEN StruckIppons(@[s])
                                             ELSE <<Mark(Maru, NoId), Mark(Maru, NoId)>>]]
           values == ("points" :> <<Unnamed(bout)>>) @@ w.values
       IN [w EXCEPT !.values = values, !.stamps = [g \in DOMAIN values |-> w.stamp]]

\* RecordScoreEventsTx: an id the log holds is answered duplicate; the rest is
\* logged, after the migration line, and the stored match is the replay's.
RecordTap(m, l, e) ==
  IF \E i \in DOMAIN l : l[i].id = e.id THEN [stored |-> m, log |-> l]
  ELSE LET all == Append(Begun(m, l), e) IN [stored |-> Replay(m, all), log |-> all]

LockNever(m, lines, w, st) == FALSE                                \* mutant

\* rivalDisplacesResult: the write moved a stored result out that its writer
\* had not seen.
Displaces(m, lines, w, st) ==
  LET before == Fold(m, lines)
      all == Append(lines, w)
      final == MatchOf(m, all, st)
  IN /\ ~w.informed
     /\ InForce(before) /\ ~(w.basisSent /\ before.govern[Result] <= w.seen)
     /\ \E h \in st.held :
          /\ h[1] # Len(all) /\ BaselineStamp(all[h[1]], h[2]) = m.stamp[h[2]]
          /\ GroupValue(final, h[2]) # GroupValue(m, h[2])

\* The write changed something, or said what the match holds.
Landed(m, all, st) ==
  LET n == Len(all)
      final == MatchOf(m, all, st)
  IN \E g \in DOMAIN all[n].values :
       /\ <<n, g>> \notin st.held
       /\ \/ GroupValue(final, g) = all[n].values[g]
          \/ GroupValue(final, g) # GroupValue(m, g)

\* mergeByReplay and what it logs.  The result lock holds a rival that would
\* displace a result the next round already stands on; a write the replay
\* turned away whole is still a line of a log that has begun.
RecordWrite(m, l, w0) ==
  LET lines == Begun(m, l)
      w == [BuildDecision(m, w0) EXCEPT !.seen = Min({@, Len(l)})]
      all == Append(lines, w)
      st == Fold(m, all)
  IN IF \E i \in DOMAIN l : l[i].id = w.id THEN [stored |-> m, log |-> l]
     ELSE IF nextFought /\ Displaces(m, lines, w, st) THEN [stored |-> m, log |-> l]
     ELSE IF ~Landed(m, all, st) /\ l = <<>> THEN [stored |-> m, log |-> l]
     ELSE [stored |-> MatchOf(m, all, st), log |-> all]

Record(m, l, e) == IF e.base THEN RecordWrite(m, l, e) ELSE RecordTap(m, l, e)

\* The oldest entry reaches the server and its answer comes back.
Send(d) ==
  /\ outbox[d] # <<>>
  /\ LET r == Record(stored, log, Head(outbox[d]))
     IN /\ stored' = r.stored /\ log' = r.log
        /\ view' = [view EXCEPT ![d] = r.stored]
  /\ outbox' = [outbox EXCEPT ![d] = Tail(@)]
  /\ UNCHANGED <<nextFought, made, own, counts>>

\* The answer is lost: the entry stays and is sent again.
SendLost(d) ==
  /\ outbox[d] # <<>> /\ May(lost, MaxLost)
  /\ LET r == Record(stored, log, Head(outbox[d]))
     IN /\ stored' = r.stored /\ log' = r.log
  /\ lost' = lost + 1
  /\ UNCHANGED <<nextFought, view, outbox, made, own, taps, writes, reopens>>

\* The device hears of the match (a push, or a refetch).
Refresh(d) ==
  /\ view[d] # stored
  /\ view' = [view EXCEPT ![d] = stored]
  /\ UNCHANGED <<stored, log, nextFought, outbox, made, own, counts>>

\* ReopenMatch on the match's own log: the verdict goes, the fight stays, at
\* the server's time (no older than each group's own stamp), never bent later.
ReopenLine(m, l, now) ==
  LET groups == {Result} \cup (IF m.team THEN {} ELSE {"points"})
      at == [g \in groups |-> Max({now, m.stamp[g]})]
      fight == [g \in groups \ {Result} |->
                  <<Unnamed([m.rows[g][1] EXCEPT !.ip = [s \in Side |-> StruckIppons(@[s])]])>>]
  IN [base |-> TRUE, door |-> "reopen", id |-> NoId, stamp |-> at[Result],
      values |-> fight @@ (Result :> Verdict(Running, None, None)), stamps |-> at,
      seen |-> Len(l), own |-> {}, dev |-> 0, seq |-> 0, informed |-> FALSE, basisSent |-> FALSE]

Reopen ==
  /\ May(reopens, MaxReopens) /\ stored.result.status = Completed /\ ~nextFought /\ log # <<>>
  /\ \E now \in 1 .. MaxStamp :
       LET all == Append(log, ReopenLine(stored, log, now))
       IN /\ log' = all /\ stored' = Replay(stored, all)
  /\ reopens' = reopens + 1
  /\ UNCHANGED <<nextFought, view, outbox, made, own, taps, writes, lost>>

\* The next knockout match is started on the stored result.
StartNext ==
  /\ ~nextFought /\ stored.result.status = Completed /\ stored.result.winner # None
  /\ nextFought' = TRUE
  /\ UNCHANGED <<stored, log, view, outbox, made, own, counts>>

Next ==
  \/ \E d \in Devices :
       Tap(d) \/ Finish(d) \/ Correct(d) \/ Decide(d) \/ Send(d) \/ SendLost(d) \/ Refresh(d)
  \/ Reopen
  \/ StartNext

Fairness == \A d \in Devices : WF_vars(Send(d)) /\ WF_vars(Refresh(d))

Spec == Init /\ [][Next]_vars /\ Fairness

---------------------------------------------------------------------------
(* Properties.                                                             *)

ReplaysTo(l, m) ==
  LET again == Replay(BlankMatch(m.team, DOMAIN m.rows), l)
  IN /\ \A g \in GroupsOf(m) : GroupValue(again, g) = GroupValue(m, g)
     /\ again.stamp = m.stamp /\ again.rows = m.rows

\* The stored match is what its log says: whenever a line is logged, the log
\* replayed from a match that never saw a line gives the same marks, verdict
\* and stamps as the replay over the match the server had stored.
ReplayIsTheMatch == [][log' # log => ReplaysTo(log', stored')]_vars

\* A match fought to its end shows the winner its own scoreline gives, in
\* whatever order the taps and finishes of the devices arrived; unless the
\* verdict came from a device that had not heard of a reopen, or the match says
\* that a tap was turned away because the bout was full.
VerdictMatchesScoreline ==
  LET says == {i \in DOMAIN log : log[i].base /\ Result \in DOMAIN log[i].values
                                   /\ log[i].values[Result] = stored.result}
      missed == \E j \in DOMAIN log : /\ log[j].base /\ log[j].door = "reopen"
                                      /\ \A i \in says : log[i].seen < j
  IN stored.result.status = Completed /\ ~DefaultWin(stored.result) /\ ~missed
     /\ "capped" \notin Range(stored.away)
       => stored.result.winner = Leader(stored)

\* A board shows no tap twice, nor two marks a removal could not tell apart.
MarksOnce(rows) ==
  \A g \in DOMAIN rows : \A b \in Range(rows[g]) :
    Cardinality(MarksOf(b)) = Points(b, "a") + Points(b, "b")

CountsItsMarks(l, m) ==
  LET out == Fold(m, l).outcome
      adds == {i \in DOMAIN l : ~l[i].base /\ l[i].kind = "ippon.add"}
      shown(i) == \E b \in Range(m.rows[l[i].group]) : l[i].id \in MarksOf(b)
      removed(i) == \E j \in DOMAIN l : ~l[j].base /\ l[j].target = l[i].id
      reopenedDecision(i) ==
        /\ \E j \in DOMAIN l : l[j].base /\ l[j].door = "reopen"
        /\ \E k \in DOMAIN l : /\ l[k].base /\ l[k].door = "decision" /\ l[i].stamp <= l[k].stamp
                                /\ l[i].side = l[k].values[Result].withdrew
  IN \A i \in adds :
       /\ shown(i) => out[i] \in {"applied", "recorded"}
       /\ out[i] = "applied" => shown(i) \/ removed(i) \/ reopenedDecision(i)

\* Nothing a tablet shows counts a tap twice; a mark on the scoreline is a tap
\* the match counts, and a tap the match counts as applied is on the scoreline
\* or was taken off by another.  The one exception the code has: a mark of a side
\* a decision withdrew, older than the decision, once the match was reopened; it
\* keeps the word the decision gave it.
TapsCountOnce ==
  [][/\ \A d \in Devices : view'[d] # view[d] \/ outbox'[d] # outbox[d]
                            => \A rows \in {Board(d).rows}' : MarksOnce(rows)
     /\ log' # log => CountsItsMarks(log', stored')]_vars

\* A finished result moves only by a reopen, by a writer that saw it or says
\* why, or, until the next match stands on it, by a finish stamped before it
\* that arrived late.
FirstResultStands ==
  [][stored.result.status = Completed /\ stored'.result # stored.result =>
       LET w == Last(log')
           says == {i \in DOMAIN log : log[i].base /\ Result \in DOMAIN log[i].values
                                       /\ log[i].values[Result] = stored.result}
       IN /\ w.base
          /\ \/ w.informed \/ w.seen >= Max(says)
             \/ ~nextFought /\ (w.door = "reopen" \/ w.stamp < stored.stamp[Result])]_vars
=============================================================================
