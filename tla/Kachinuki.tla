------------------------------ MODULE Kachinuki ------------------------------
(***************************************************************************)
(* One kachinuki encounter ("the winner stays on") on the server: the bout *)
(* log, the score taps that fill it, Record bout (which closes the last    *)
(* bout and appends the next pairing), the removal of a pairing, the end,  *)
(* reopen and requeue of the match, and the lineup edits that rename the   *)
(* opener.                                                                 *)
(*                                                                         *)
(* Record bout is a running write followed, in the same request but       *)
(* outside its transaction, by the advance: an unlocked read that decides  *)
(* the pairing and a locked write that re-checks what was read.  The       *)
(* device keeps the request until it is answered, so a lost answer or a    *)
(* process that dies in between has it delivered again.                    *)
(*                                                                         *)
(* Names are unique here and every side has a lineup of its own; a bout's  *)
(* position is its place in the log; a one-point lead is already a winner  *)
(* in the stored row, as the running autosave writes it.                   *)
(***************************************************************************)
EXTENDS Integers, Sequences, FiniteSets

CONSTANTS Devices,          \* the tablets at the court
          Fighters,         \* everybody a lineup or a pairing names
          Saves,            \* side -> the lineups it saves, its first in front
          Picks,            \* the pairings an operator may add by hand
          MaxBouts,         \* the longest log the budgets allow
          Budgets           \* mixes of so many taps, Record bouts and other events

ASSUME BudgetAssumption ==
  /\ Budgets \subseteq [{"taps", "records", "others"} -> Nat]
  /\ MaxBouts \in Nat \ {0} /\ \A b \in Budgets : b["taps"] < MaxBouts

VARIABLES
  match,      \* the stored match: status, verdict, rows, ver (its stamp)
  lineup,     \* side -> the lineup in force at the match
  creator,    \* position -> who put the row there, folded from the history
  req,        \* device -> its Record bout, in the outbox or being handled
  left,       \* what is left of the budget
  stoodDown   \* the numbers of changed reads after which an advance gave up

vars == <<match, lineup, creator, req, left, stoodDown>>

Sides == {"a", "b"}
Other(s) == IF s = "a" THEN "b" ELSE "a"
Outcomes == Sides \cup {"draw"}

ASSUME LineupsAssumption ==
  /\ Saves \in [Sides -> Seq(Seq(Fighters) \ {<<>>}) \ {<<>>}]
  /\ Picks \subseteq Fighters \X Fighters

Positions == 1..MaxBouts

NoReq == [phase |-> "idle", pos |-> 0, logged |-> FALSE, tries |-> 0,
          snap |-> <<>>, pick |-> <<>>]

Rows == match.rows
LastBout == Len(Rows)

-----------------------------------------------------------------------------
\* The pairing the advance works out of a log and the lineups.

\* The fighters of side s a log has retired: beaten, or drawn out.
Retired(rows, s) ==
  {rows[k][s] : k \in {i \in DOMAIN rows : rows[i].out \in {"draw", Other(s)}}}

\* What is left of side s's lineup: the places of fighters not retired.
Remaining(rows, s) == {i \in DOMAIN lineup[s] : lineup[s][i] \notin Retired(rows, s)}
Foremost(places) == CHOOSE i \in places : \A j \in places : i <= j

\* The fighter side s fields next: after a win the winner stays on, and after
\* a draw a fighter without a replacement does.  Empty: nobody is left.
Fields(rows, s) ==
  LET last == rows[Len(rows)]
      next == Remaining(rows, s)
  IN  IF last.out = s THEN <<last[s]>>
      ELSE IF next # {} THEN <<lineup[s][Foremost(next)]>>
      ELSE IF last.out = "draw" /\ Remaining(rows, Other(s)) # {} THEN <<last[s]>>
      ELSE <<>>

\* The next pairing, or nothing when a side (after a draw, both) is exhausted.
AdvanceKachinuki(rows) ==
  LET a == Fields(rows, "a")
      b == Fields(rows, "b")
  IN  IF a = <<>> \/ b = <<>> THEN <<>> ELSE <<a[1], b[1]>>

-----------------------------------------------------------------------------
\* The stored match and its writes.

\* The part of the log the store holds, without what the model remembers of it.
Log(rows) ==
  [k \in DOMAIN rows |->
     [a |-> rows[k].a, b |-> rows[k].b, out |-> rows[k].out, rec |-> rows[k].rec]]

\* A row as it is put in the log.  asked, on and owns are the model's memory:
\* whether Record bout was tapped on the row ("now": on the result it holds,
\* with no finish, pairing by hand or removal since),
\* whether an advance put it after the row before it and that one's result
\* stands, and whether the advance that put it also set that one's mark.
NewRow(p, on, owns) ==
  [a |-> p[1], b |-> p[2], out |-> "none", rec |-> FALSE,
   asked |-> "no", on |-> on, owns |-> owns]

\* What the operator asked of a row no longer stands as it was asked.
Overtaken(row) == [row EXCEPT !.asked = IF @ = "now" THEN "before" ELSE @]

\* The form a faulty rename would take: bout 1 alone.
RenameBoutOne(rows, s, lu) ==
  [k \in DOMAIN rows |-> IF k = 1 THEN [rows[k] EXCEPT ![s] = Head(lu[s])]
                                  ELSE rows[k]]

\* Bout 1 takes the first fighter of each side's lineup, and so does every
\* later bout along that side's winning streak from it.
StreakOf(rows, s) ==
  {k \in DOMAIN rows : \A i \in 1..k : /\ rows[i][s] = rows[1][s]
                                       /\ i < k => rows[i].out = s}
RenameStreak(rows, s, lu) ==
  [k \in DOMAIN rows |->
     IF k \in StreakOf(rows, s) THEN [rows[k] EXCEPT ![s] = Head(lu[s])]
                                ELSE rows[k]]
SeatOpener(rows, lu) == RenameStreak(RenameStreak(rows, "a", lu), "b", lu)

\* A write leaves the match with a newer stamp; each row it changes or adds
\* that no line of its current life explains is the write's own.
Stored(m) == match' = [m EXCEPT !.ver = match.ver + 1]
Applied(rows, door) ==
  creator' = [k \in Positions |->
    IF /\ creator[k] = "none"
       /\ k \in DOMAIN rows
       /\ k \notin DOMAIN Rows \/ Log(rows)[k] # Log(Rows)[k]
    THEN door ELSE creator[k]]

Spend(what) == left[what] > 0 /\ left' = [left EXCEPT ![what] = @ - 1]

-----------------------------------------------------------------------------
Init ==
  /\ match = [status |-> "running", verdict |-> "none", rows |-> <<>>, ver |-> 0]
  /\ lineup = [s \in Sides |-> Saves[s][1]]
  /\ creator = [k \in Positions |-> "none"]
  /\ req = [d \in Devices |-> NoReq]
  /\ left \in Budgets
  /\ stoodDown = {}

\* A tap on bout 1 of an empty log, which makes the row, or on one of the last
\* two bouts.  A result that changes takes the bout's recorded mark off.
SetResult(rows, k, o) ==
  [i \in DOMAIN rows |->
     CASE i = k     -> [Overtaken(rows[i]) EXCEPT !.out = o, !.rec = FALSE]
       [] i = k + 1 -> [rows[i] EXCEPT !.on = FALSE]
       [] OTHER     -> rows[i]]

Tap(k, o) ==
  /\ match.status = "running"
  /\ \E d \in Devices : req[d].phase = "idle"
  /\ IF Rows = <<>> THEN k = 1 /\ o # "none"
                    ELSE k \in {LastBout, LastBout - 1} \cap Positions
  /\ Rows # <<>> => Rows[k].out # o
  /\ k < LastBout => o # "none"
  /\ Spend("taps")
  /\ LET held == IF Rows = <<>> THEN <<NewRow(<<Head(lineup["a"]), Head(lineup["b"])>>, FALSE, FALSE)>>
                                ELSE Rows
         rows == SeatOpener(SetResult(held, k, o), lineup)
     IN  Stored([match EXCEPT !.rows = rows]) /\ Applied(rows, "other")
  /\ UNCHANGED <<lineup, req, stoodDown>>

\* "Add next bout manually": the operator names the pairing.
HandPick(p) ==
  /\ match.status = "running"
  /\ \E d \in Devices : req[d].phase = "idle"
  /\ Rows # <<>> /\ Rows[LastBout].out # "none"
  /\ Spend("others")
  /\ LET held == [Rows EXCEPT ![LastBout] = Overtaken(@)]
         rows == SeatOpener(Append(held, NewRow(p, FALSE, FALSE)), lineup)
     IN  Stored([match EXCEPT !.rows = rows]) /\ Applied(rows, "other")
  /\ UNCHANGED <<lineup, req, stoodDown>>

-----------------------------------------------------------------------------
\* Record bout.

\* The operator taps Record bout on a scored last bout that is not closed
\* already (or is, with a pairing to follow now): the write goes to the outbox.
RecordBout(d) ==
  /\ match.status \in {"running", "scheduled"}
  /\ req[d].phase = "idle"
  /\ Rows # <<>> /\ Rows[LastBout].out # "none"
  /\ Rows[LastBout].rec => AdvanceKachinuki(Rows) # <<>>
  /\ Spend("records")
  /\ req' = [req EXCEPT ![d] = [NoReq EXCEPT !.phase = "out", !.pos = LastBout]]
  /\ match' = [match EXCEPT !.rows[LastBout].asked = "now"]
  /\ UNCHANGED <<lineup, creator, stoodDown>>

\* The running write reaches the server.  Its first arrival is logged, and
\* starts a match sent back to the queue; a resend is answered as recorded and
\* changes nothing.  Turned away by a finished match, it is answered there;
\* otherwise the advance runs, for a resend too.
ScoreWriteLands(d) ==
  /\ req[d].phase = "out"
  /\ req' = [req EXCEPT ![d].logged = TRUE,
                        ![d].phase = IF match.status = "completed" THEN "done" ELSE "read"]
  /\ IF match.status = "scheduled" /\ ~req[d].logged
     THEN Stored([match EXCEPT !.status = "running"])
     ELSE UNCHANGED match
  /\ UNCHANGED <<lineup, creator, left, stoodDown>>

\* The advance reads the match without the lock and works the pairing out.
\* Nothing to advance off, or nothing to write: it is done.
AdvanceRead(d) ==
  /\ req[d].phase = "read"
  /\ LET decided == /\ match.status # "completed"
                    /\ Rows # <<>> /\ Rows[LastBout].out # "none"
         pick == IF decided THEN AdvanceKachinuki(Rows) ELSE <<>>
     IN  req' = [req EXCEPT ![d] =
           IF decided /\ (pick # <<>> \/ ~Rows[LastBout].rec)
           THEN [@ EXCEPT !.phase = "write", !.pick = pick,
                   !.snap = [status |-> match.status, ver |-> match.ver, log |-> Log(Rows)]]
           ELSE [@ EXCEPT !.phase = "done"]]
  /\ UNCHANGED <<match, lineup, creator, left, stoodDown>>

\* Faulty re-checks: of the log alone, of the finish alone.
SameLogHolds(snap) == Log(Rows) = snap.log
NotFinishedHolds(snap) == match.status # "completed"

\* Under the lock: the stored match is still the one the advance read.
KachinukiAdvanceStillHolds(snap) ==
  /\ match.status # "completed"
  /\ match.status = snap.status
  /\ match.ver = snap.ver
  /\ Log(Rows) = snap.log

\* How often an advance reads the match (one attempt would be a fault).
OneAttempt == 1
KachinukiAdvanceAttempts == 3

\* The locked write marks the last bout recorded and appends the pairing, which
\* leaves the match running without a verdict; or, the match having changed,
\* the advance reads again, at most KachinukiAdvanceAttempts times in all.
AdvanceWrite(d) ==
  /\ req[d].phase = "write"
  /\ LET snap == req[d].snap
         pick == req[d].pick
         marks == ~Rows[LastBout].rec
         marked == [Rows EXCEPT ![LastBout].rec = TRUE]
         rows == IF pick = <<>> THEN marked ELSE Append(marked, NewRow(pick, TRUE, marks))
     IN  IF KachinukiAdvanceStillHolds(snap)
         THEN /\ Stored(IF pick = <<>> THEN [match EXCEPT !.rows = rows]
                        ELSE [match EXCEPT !.rows = rows, !.status = "running",
                                           !.verdict = "none"])
              /\ creator' = IF pick = <<>> \/ creator[LastBout + 1] # "none" THEN creator
                            ELSE [creator EXCEPT ![LastBout + 1] =
                                    IF marks THEN "advance" ELSE "advanceWithoutMark"]
              /\ req' = [req EXCEPT ![d].phase = "done", ![d].snap = <<>>, ![d].pick = <<>>]
              /\ UNCHANGED stoodDown
         ELSE /\ LET again == req[d].tries + 1 < KachinukiAdvanceAttempts
                 IN  /\ req' = [req EXCEPT ![d].tries = @ + 1,
                                            ![d].phase = IF again THEN "read" ELSE "done",
                                            ![d].snap = <<>>, ![d].pick = <<>>]
                     /\ stoodDown' = IF again THEN stoodDown
                                     ELSE stoodDown \cup {req[d].tries + 1}
              /\ UNCHANGED <<match, creator>>
  /\ UNCHANGED <<lineup, left>>

\* The answer reaches the device, which drops the write.
Answer(d) ==
  /\ req[d].phase = "done"
  /\ req' = [req EXCEPT ![d] = NoReq]
  /\ UNCHANGED <<match, lineup, creator, left, stoodDown>>

\* The answer is lost, or the server dies anywhere after the score write was
\* committed: the write is still in the outbox.
Lose(d) ==
  /\ req[d].phase \in {"read", "write", "done"}
  /\ Spend("others")
  /\ req' = [req EXCEPT ![d] = [NoReq EXCEPT !.phase = "out", !.pos = req[d].pos,
                                             !.logged = TRUE]]
  /\ UNCHANGED <<match, lineup, creator, stoodDown>>

-----------------------------------------------------------------------------
\* The operator's other doors.

\* A faulty reading: any advance counts, also one that set no mark.
BoutAppendedByAdvance(k) == creator[k] \in {"advance", "advanceWithoutMark"}

\* Whether removing row k undoes the Record bout that put it there.
BoutAppendedByRecordBout(k) == creator[k] = "advance"

\* Remove the last bout: unscored, of a running match, and never the only one.
\* The bout before it is the live one again when the removal undoes its Record.
RemoveBout ==
  /\ match.status = "running"
  /\ LastBout > 1 /\ Rows[LastBout].out = "none"
  /\ Spend("others")
  /\ LET k == LastBout - 1
         undone == Rows[k].rec /\ BoutAppendedByRecordBout(LastBout)
         rest == SubSeq(Rows, 1, k)
     IN  Stored([match EXCEPT !.rows =
           IF undone THEN [rest EXCEPT ![k] = [Overtaken(@) EXCEPT !.rec = FALSE]]
                     ELSE rest])
  /\ creator' = [creator EXCEPT ![LastBout] = "none"]
  /\ UNCHANGED <<lineup, req, stoodDown>>

\* The log without its trailing unscored bouts.
StripTrailing(rows) ==
  LET scored == {k \in DOMAIN rows : rows[k].out # "none"}
  IN  SubSeq(rows, 1, CHOOSE k \in scored : \A i \in scored : i <= k)

\* End match: the verdict is the last scored bout's, a draw included (a pool).
EndMatch ==
  /\ match.status = "running"
  /\ \E k \in DOMAIN Rows : Rows[k].out # "none"
  /\ Spend("others")
  /\ LET rows == StripTrailing(Rows)
         ended == [k \in DOMAIN rows |-> Overtaken(rows[k])]
     IN  Stored([match EXCEPT !.status = "completed", !.rows = ended,
                              !.verdict = rows[Len(rows)].out])
  /\ UNCHANGED <<lineup, creator, req, stoodDown>>

\* Reopen keeps the bouts and their marks.  It ends every row's life in the
\* history: what a removal undoes is decided from here on.
ReopenMatch ==
  /\ match.status = "completed"
  /\ Spend("others")
  /\ Stored([match EXCEPT !.status = "running", !.verdict = "none",
                          !.rows = [k \in DOMAIN Rows |-> [Rows[k] EXCEPT !.owns = FALSE]]])
  /\ creator' = [k \in Positions |-> "none"]
  /\ UNCHANGED <<lineup, req, stoodDown>>

\* Send back to the queue, with the bouts; Start takes it out again.
RevertMatchToQueue ==
  /\ match.status = "running"
  /\ Spend("others")
  /\ Stored([match EXCEPT !.status = "scheduled", !.verdict = "none"])
  /\ UNCHANGED <<lineup, creator, req, stoodDown>>

StartMatch ==
  /\ match.status = "scheduled"
  /\ Stored([match EXCEPT !.status = "running"])
  /\ UNCHANGED <<lineup, creator, req, left, stoodDown>>

\* A lineup saved for the match, in any status: bout 1 and the winning streak
\* from it take the new first fighter.
SaveLineup(s, l) ==
  /\ lineup[s] # l
  /\ Spend("others")
  /\ lineup' = [lineup EXCEPT ![s] = l]
  /\ LET rows == IF Rows = <<>> THEN Rows ELSE SeatOpener(Rows, lineup')
     IN  IF rows = Rows THEN UNCHANGED <<match, creator>>
         ELSE Stored([match EXCEPT !.rows = rows]) /\ Applied(rows, "other")
  /\ UNCHANGED <<req, stoodDown>>

-----------------------------------------------------------------------------
Next ==
  \/ \E k \in Positions, o \in Outcomes \cup {"none"} : Tap(k, o)
  \/ \E p \in Picks : HandPick(p)
  \/ \E d \in Devices :
       \/ RecordBout(d)
       \/ ScoreWriteLands(d)
       \/ AdvanceRead(d)
       \/ AdvanceWrite(d)
       \/ Answer(d)
       \/ Lose(d)
  \/ RemoveBout
  \/ EndMatch
  \/ ReopenMatch
  \/ RevertMatchToQueue
  \/ StartMatch
  \/ \E s \in Sides : \E i \in DOMAIN Saves[s] : SaveLineup(s, Saves[s][i])

\* The outbox sends what it holds and the server finishes what it handles.
Spec ==
  /\ Init /\ [][Next]_vars
  /\ \A d \in Devices :
       WF_vars(ScoreWriteLands(d) \/ AdvanceRead(d) \/ AdvanceWrite(d) \/ Answer(d))

-----------------------------------------------------------------------------
Room == {"none", "other", "advance", "advanceWithoutMark"}
Row == [a : Fighters, b : Fighters, out : Outcomes \cup {"none"}, rec : BOOLEAN,
        asked : {"no", "now", "before"}, on : BOOLEAN, owns : BOOLEAN]
LogRow == [a : Fighters, b : Fighters, out : Outcomes \cup {"none"}, rec : BOOLEAN]
Snapshot == [status : {"running", "scheduled"}, ver : Nat, log : Seq(LogRow)]

TypeOK ==
  /\ match \in [status : {"running", "scheduled", "completed"},
                verdict : Outcomes \cup {"none"}, rows : Seq(Row), ver : Nat]
  /\ match.status = "completed" <=> match.verdict # "none"
  /\ LastBout <= MaxBouts
  /\ lineup \in [Sides -> Seq(Fighters) \ {<<>>}]
  /\ creator \in [Positions -> Room]
  /\ req \in [Devices -> [phase : {"idle", "out", "read", "write", "done"},
                          pos : Nat, logged : BOOLEAN, tries : 0..KachinukiAdvanceAttempts,
                          snap : {<<>>} \cup Snapshot, pick : {<<>>} \cup Fighters \X Fighters]]
  /\ left \in [{"taps", "records", "others"} -> Nat]
  /\ stoodDown \subseteq 1..KachinukiAdvanceAttempts

\* A pairing the advance appends fits the log it lands on, whatever was tapped,
\* removed or finished between its unlocked read and its write: after a win the
\* winner stays on and the other side fields a fighter the log has not retired;
\* after a draw no side fields a retired fighter, save the one who drew last
\* and has no replacement.
PairingFitsTheLog ==
  [][\A d \in Devices :
       AdvanceWrite(d) /\ LastBout' = LastBout + 1 =>
         LET last == Rows[LastBout]
             next == Rows'[LastBout + 1]
         IN  /\ last.out # "none"
             /\ \A s \in Sides :
                  \/ last.out = s /\ next[s] = last[s]
                  \/ last.out # s /\ next[s] \notin Retired(Rows, s)
                  \/ last.out = "draw" /\ next[s] = last[s]
                     /\ next[Other(s)] \notin Retired(Rows, Other(s))]_vars

\* A finished encounter stays as it was finished, verdict and bouts' results,
\* until it is reopened: no Record bout in flight, first sent or re-delivered,
\* sets it running again or adds to it.
FinishedStaysFinished ==
  [][match.status = "completed" =>
       \/ ReopenMatch
       \/ /\ match'.status = "completed" /\ match'.verdict = match.verdict
          /\ LastBout' = LastBout
          /\ \A k \in DOMAIN Rows : Rows'[k].out = Rows[k].out
                                   /\ Rows'[k].rec = Rows[k].rec]_vars

\* What an advance worked out without the lock never lands where it no longer
\* belongs, on a changed log or on a finished match.
AdvanceFits == PairingFitsTheLog /\ FinishedStaysFinished

\* Removing a pairing undoes the Record bout that appended it and no other:
\* the bout before loses its recorded mark exactly when the advance that
\* appended the removed row, in its present life, had set that mark.
RemoveUndoesItsRecord ==
  [][RemoveBout =>
       LET k == LastBout - 1
       IN  Rows'[k].rec = (Rows[k].rec /\ ~Rows[LastBout].owns)]_vars

\* The winner stays on: while the result an advance went by stands, the pairing
\* it appended has that bout's winner, whatever lineups have renamed since.
WinnerStaysOn ==
  \A k \in 1..LastBout - 1 :
    Rows[k + 1].on => \A s \in Sides : Rows[k].out = s => Rows[k + 1][s] = Rows[k][s]

\* A bout Record bout was tapped on is closed in the end, answers lost and the
\* server killed on the way included: it is recorded, unless its result changed
\* since, another bout was put after it, the match was finished since, or the match
\* changed during each of the three reads the advance is allowed.
EveryRecordCloses ==
  \A k \in Positions :
    (k \in DOMAIN Rows /\ Rows[k].asked = "now") ~>
      \/ k # LastBout
      \/ Rows[k].asked # "now" \/ Rows[k].rec
      \/ 3 \in stoodDown

\* What the outbox says of a Record bout's re-delivery: it is safe, so a bout is
\* recorded only when Record bout was tapped on it.
OnlyTappedIsRecorded ==
  \A k \in DOMAIN Rows : Rows[k].rec => Rows[k].asked # "no"

\* A match sent back to the queue is set running by a start of it alone.
QueuedStaysQueued ==
  [][match.status = "scheduled" /\ match'.status = "running" =>
       StartMatch \/ \E d \in Devices : ScoreWriteLands(d)]_vars

=============================================================================
