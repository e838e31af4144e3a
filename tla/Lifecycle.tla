----------------------------- MODULE Lifecycle -----------------------------
(***************************************************************************)
(* The life of one competition: its draw, start, Swiss rounds, completion, *)
(* and the roster and settings it is drawn from                            *)
(* (internal/engine/competition.go, swiss.go, replace_participant.go, the  *)
(* competition, participant and Swiss handlers).                           *)
(*                                                                         *)
(* A request holds the competition's lock for one store call at a time, so *)
(* what it read earlier may be old when it writes. One action is one store *)
(* call, or the calls of one transaction. req[r] is the request in slot r: *)
(* what it is, the call it makes next, and what it read.                   *)
(*                                                                         *)
(* A file is modelled by what it was generated from: the settings, the     *)
(* entries and the spelling of the names (tag). pool-matches.csv is a      *)
(* sequence of rows, one for the pool phase and one for each Swiss round.  *)
(***************************************************************************)
EXTENDS Naturals, FiniteSets, SequencesExt

CONSTANTS
    Requests,       \* slots for the requests in flight
    Formats,        \* the formats a competition is created with
    DrawsAtOnce,    \* environment: draws in flight at once (1 is one desk)
    MaxSaves,       \* bound: saves of settings, roster, seeds, names, and results taken back
    MaxRounds       \* the largest number of Swiss rounds configured

ASSUME DrawsAssumption == DrawsAtOnce \in Nat \ {0} /\ MaxRounds \in Nat \ {0}
ASSUME CompetitionAssumption ==
    IsFiniteSet(Requests) /\ Formats \subseteq {"mixed", "league", "swiss", "knockout"}

VARIABLES
    comp,       \* config.md: status, format, settings, Swiss rounds wanted and drawn
    roster,     \* participants.csv and seeds.csv: entries and names, as versions
    pools,      \* pools.csv: what it was generated from
    matches,    \* pool-matches.csv: its rows, none without the file
    drawn,      \* what the rows of its draw were generated from
    bracket,    \* bracket.json: what it was generated from, filled in, fought
    req,        \* the request in each slot
    saves,      \* settings, roster and name saves, and saves, so far
    late,       \* history: the writes that landed on a draw they were not checked against
    crossed     \* history: requests a discard overlapped

vars == <<comp, roster, pools, matches, drawn, bracket, req, saves, late, crossed>>
rows == <<matches, drawn>>
files == <<pools, matches, drawn, bracket>>

----------------------------------------------------------------------------
Running == {"pools", "knockout"}
Final == {"completed", "invalid"}

NoFile == [gone |-> TRUE]
Idle == [op |-> "none", at |-> "idle"]
Tag(rules, read) == [rules |-> rules, entries |-> read.entries, names |-> read.names]

HasPools == comp.format \in {"mixed", "league"}
HasBracket == comp.format \in {"mixed", "knockout"}
HasMatches == comp.format # "knockout"

RunningStatus(format) == IF format = "knockout" THEN "knockout" ELSE "pools"

AllDone(list) == \A i \in DOMAIN list : list[i].done
OfRound(n) == {i \in DOMAIN matches : matches[i].round = n}
Row(n) == [round |-> n, done |-> FALSE, pending |-> FALSE]

PoolResultRecorded == \E i \in DOMAIN matches : matches[i].done

HasRecordedResult ==
    (\E i \in DOMAIN matches : matches[i].done) \/ (bracket # NoFile /\ bracket.done)

SwissRoundsToDraw ==
    IF comp.format # "swiss" \/ comp.round >= comp.rounds THEN 0 ELSE comp.rounds - comp.round

\* The competition's own matches are over: its bracket when it has one,
\* else every match and every configured Swiss round.
Settled ==
    IF bracket # NoFile THEN bracket.done ELSE AllDone(matches) /\ SwissRoundsToDraw = 0

InFlight == {r \in Requests : req[r] # Idle}
Discarding == {r \in Requests : req[r].op = "discard"}
Renaming == {r \in Requests : req[r].op = "rename"}
\* A draw, a start that draws, and a first Swiss round drawn from setup.
Drawing == {r \in Requests : req[r].op \in {"draw", "oneClick"} \/ (req[r].op = "advance" /\ req[r].next = 1)}

At(r, at) == req[r].at = at
On(r, at) == At(r, at) /\ comp.status # "gone"
Go(r, at) == req' = [req EXCEPT ![r].at = at] /\ UNCHANGED crossed
GoWith(r, record) == req' = [req EXCEPT ![r] = record] /\ UNCHANGED crossed
End(r) == req' = [req EXCEPT ![r] = Idle] /\ crossed' = crossed \ {r}
Free(r) == At(r, "idle") /\ comp.status # "gone"
Save == saves < MaxSaves /\ saves' = saves + 1
\* A discard was in flight with r: what r read may be of a draw now gone.
Crossed(r) == r \in crossed \/ Discarding # {}

Init ==
    /\ \E f \in Formats, n \in 1 .. MaxRounds :
          comp = [status |-> "setup", format |-> f, rules |-> 0, round |-> 0,
                  rounds |-> IF f = "swiss" THEN n ELSE 1]
    /\ roster = [entries |-> 0, names |-> 0]
    /\ pools = NoFile /\ matches = <<>> /\ drawn = NoFile /\ bracket = NoFile
    /\ req = [r \in Requests |-> Idle]
    /\ saves = 0 /\ late = {} /\ crossed = {}

----------------------------------------------------------------------------
\* The draw (GenerateDraw, and StartCompetition from setup).

GenerateDraw(r) ==
    /\ Free(r) /\ Cardinality(Drawing) < DrawsAtOnce
    /\ comp.status = "setup"
    /\ \E op \in {"draw", "oneClick"} : GoWith(r, [op |-> op, at |-> "snapshot"])
    /\ UNCHANGED <<comp, roster, files, saves, late>>

\* The settings and the files' timestamps are read before the roster itself,
\* so that a save in between shows at the commit.
DrawSnapshot(r) ==
    /\ On(r, "snapshot")
    /\ GoWith(r, [op |-> req[r].op, at |-> "roster", rules |-> comp.rules,
                  stamp |-> roster, round |-> comp.round])
    /\ UNCHANGED <<comp, roster, files, saves, late>>

RosterBeforeStamp(r) ==
    /\ On(r, "roster")
    /\ GoWith(r, [op |-> req[r].op, at |-> "generate", rules |-> req[r].rules,
                  stamp |-> roster, round |-> req[r].round, read |-> req[r].stamp])
    /\ UNCHANGED <<comp, roster, files, saves, late>>

DrawRoster(r) ==
    /\ On(r, "roster")
    /\ GoWith(r, [op |-> req[r].op, at |-> "generate", rules |-> req[r].rules,
                  stamp |-> req[r].stamp, round |-> req[r].round, read |-> roster])
    /\ UNCHANGED <<comp, roster, files, saves, late>>

\* A Swiss draw is refused when a round was drawn or scored already.
DrawMayWrite(r) ==
    comp.format = "swiss" => req[r].round = 0 /\ ~ \E i \in DOMAIN matches : matches[i].done

DrawRefused(r) ==
    /\ On(r, "generate") /\ ~DrawMayWrite(r)
    /\ End(r)
    /\ UNCHANGED <<comp, roster, files, saves, late>>

DrawPools(r) ==
    /\ On(r, "generate") /\ DrawMayWrite(r)
    /\ pools' = IF HasPools THEN Tag(req[r].rules, req[r].read) ELSE pools
    /\ Go(r, IF HasMatches THEN "rows" ELSE "tree")
    /\ UNCHANGED <<comp, roster, rows, bracket, saves, late>>

DrawMatches(r) ==
    /\ On(r, "rows")
    /\ matches' = <<Row(IF comp.format = "swiss" THEN 1 ELSE 0)>>
    /\ drawn' = Tag(req[r].rules, req[r].read)
    /\ Go(r, IF HasBracket THEN "tree" ELSE "commit")
    /\ UNCHANGED <<comp, roster, pools, bracket, saves, late>>

NewBracket(tag, seeded) == [of |-> tag, seeded |-> seeded, done |-> FALSE, pending |-> FALSE]

\* A mixed competition's preview is built from pools.csv as it is on disk,
\* and its slots wait for the pools; a knockout's names its competitors.
DrawBracket(r) ==
    /\ On(r, "tree")
    /\ bracket' = IF comp.format = "knockout" THEN NewBracket(Tag(req[r].rules, req[r].read), TRUE)
                  ELSE IF pools # NoFile THEN NewBracket(pools, FALSE)
                  ELSE bracket
    /\ Go(r, "commit")
    /\ UNCHANGED <<comp, roster, pools, rows, saves, late>>

CommitMatches(r) ==
    comp.status = "setup" /\ comp.rules = req[r].rules /\ roster = req[r].stamp

DrawCommit(r) ==
    /\ On(r, "commit") /\ CommitMatches(r)
    /\ comp' = [comp EXCEPT !.status = "draw-ready", !.round = IF comp.format = "swiss" THEN 1 ELSE @]
    /\ late' = IF Crossed(r) THEN late \cup {"discard"} ELSE late
    /\ IF req[r].op = "oneClick" THEN GoWith(r, [op |-> "start", at |-> "transition"]) ELSE End(r)
    /\ UNCHANGED <<roster, files, saves>>

\* The files stay behind: nothing points at them until the next draw.
DrawConflict(r) ==
    /\ On(r, "commit") /\ ~CommitMatches(r)
    /\ End(r)
    /\ UNCHANGED <<comp, roster, files, saves, late>>

----------------------------------------------------------------------------
\* The start (StartCompetition on a pending draw).

StartPending(r) ==
    /\ Free(r) /\ comp.status = "draw-ready"
    /\ GoWith(r, [op |-> "start", at |-> "transition"])
    /\ UNCHANGED <<comp, roster, files, saves, late>>

Begin(r) ==
    /\ comp' = [comp EXCEPT !.status = RunningStatus(comp.format)]
    /\ late' = IF Crossed(r) THEN late \cup {"discard"} ELSE late

\* After it, the check every match write ends with (MaybeAutoCompletePools).
TransitionDrawToRunning(r) ==
    /\ On(r, "transition")
    /\ IF comp.status = "draw-ready"
       THEN Begin(r) /\ GoWith(r, [op |-> "score", at |-> "auto", pools |-> TRUE])
       ELSE End(r) /\ UNCHANGED <<comp, late>>
    /\ UNCHANGED <<roster, files, saves>>

----------------------------------------------------------------------------
\* The discard (DiscardDraw): the files one by one, then the status.

Cross == crossed' = crossed \cup {x \in InFlight : req[x].op # "discard"}

DiscardCheck(r) ==
    /\ Free(r) /\ comp.status = "draw-ready"
    /\ req' = [req EXCEPT ![r] = [op |-> "discard", at |-> "pools"]] /\ Cross
    /\ UNCHANGED <<comp, roster, files, saves, late>>

DiscardFile(r) ==
    /\ req[r].op = "discard" /\ comp.status # "gone"
    /\ \/ At(r, "pools") /\ pools' = NoFile
          /\ req' = [req EXCEPT ![r].at = "matches"] /\ UNCHANGED <<rows, bracket>>
       \/ At(r, "matches") /\ matches' = <<>> /\ drawn' = NoFile
          /\ req' = [req EXCEPT ![r].at = "bracket"] /\ UNCHANGED <<pools, bracket>>
       \/ At(r, "bracket") /\ bracket' = NoFile
          /\ req' = [req EXCEPT ![r].at = "setup"] /\ UNCHANGED <<pools, rows>>
    /\ Cross
    /\ UNCHANGED <<comp, roster, saves, late>>

DiscardCommit(r) ==
    /\ req[r].op = "discard" /\ On(r, "setup")
    /\ IF comp.status = "draw-ready"
       THEN comp' = [comp EXCEPT !.status = "setup", !.round = 0] /\ late' = {}
       ELSE UNCHANGED <<comp, late>>
    /\ req' = [req EXCEPT ![r] = Idle] /\ Cross
    /\ UNCHANGED <<roster, files, saves>>

----------------------------------------------------------------------------
\* A match result, its undo, and the checks that follow every match write.

Score(r) ==
    /\ Free(r)
    /\ \E i \in DOMAIN matches :
          /\ ~matches[i].done
          /\ matches' = [matches EXCEPT ![i].done = TRUE, ![i].pending = (comp.status = "draw-ready")]
    /\ GoWith(r, [op |-> "score", at |-> "auto", pools |-> TRUE])
    /\ UNCHANGED <<comp, roster, pools, drawn, bracket, saves, late>>

\* A pool result already seated in the bracket is the correction of Knockout.
Undo(r) ==
    /\ Free(r)
    /\ \E i \in DOMAIN matches :
          /\ matches[i].done /\ (bracket # NoFile => ~bracket.seeded)
          /\ matches' = [matches EXCEPT ![i].done = FALSE, ![i].pending = FALSE]
    /\ Save
    /\ GoWith(r, [op |-> "score", at |-> "auto", pools |-> TRUE])
    /\ UNCHANGED <<comp, roster, pools, drawn, bracket, late>>

ScoreBracket(r) ==
    /\ Free(r) /\ bracket # NoFile /\ bracket.seeded /\ ~bracket.done
    /\ bracket' = [bracket EXCEPT !.done = TRUE, !.pending = (comp.status = "draw-ready")]
    /\ GoWith(r, [op |-> "score", at |-> "auto", pools |-> FALSE])
    /\ UNCHANGED <<comp, roster, pools, rows, saves, late>>

\* autoStartOnFirstResult: the status, then the results, then the start.
AutoLoad(r) ==
    /\ On(r, "auto")
    /\ GoWith(r, IF comp.status = "draw-ready"
                 THEN [req[r] EXCEPT !.at = "result"]
                 ELSE [op |-> "score", at |-> "phase", pools |-> req[r].pools, status |-> comp.status])
    /\ UNCHANGED <<comp, roster, files, saves, late>>

AutoResult(r) ==
    /\ On(r, "result")
    /\ GoWith(r, IF HasRecordedResult
                 THEN [req[r] EXCEPT !.at = "autostart"]
                 ELSE [op |-> "score", at |-> "phase", pools |-> req[r].pools, status |-> "draw-ready"])
    /\ UNCHANGED <<comp, roster, files, saves, late>>

StartIfDrawReady(r) ==
    /\ On(r, "autostart")
    /\ IF comp.status = "draw-ready" THEN Begin(r) ELSE UNCHANGED <<comp, late>>
    /\ Go(r, "reload")
    /\ UNCHANGED <<roster, files, saves>>

AutoReload(r) ==
    /\ On(r, "reload")
    /\ GoWith(r, [op |-> "score", at |-> "phase", pools |-> req[r].pools, status |-> comp.status])
    /\ UNCHANGED <<comp, roster, files, saves, late>>

\* The pool phase: a mixed competition's finishers are seated, a league is
\* looked at outside the lock first.
Advances(r) ==
    comp.format = "mixed" /\ (req[r].status = "pools" \/ (req[r].status = "knockout" /\ req[r].pools))

PoolPhase(r) ==
    /\ On(r, "phase")
    /\ IF Advances(r)
       THEN IF pools # NoFile /\ bracket # NoFile /\ AllDone(matches)
            THEN bracket' = [bracket EXCEPT !.seeded = TRUE] /\ Go(r, "flip")
            ELSE End(r) /\ UNCHANGED bracket
       ELSE /\ IF comp.format = "league" /\ AllDone(matches) THEN Go(r, "settle") ELSE End(r)
            /\ UNCHANGED bracket
    /\ UNCHANGED <<comp, roster, pools, rows, saves, late>>

FlipUnchecked(r) ==
    /\ On(r, "flip")
    /\ comp' = [comp EXCEPT !.status = "knockout"]
    /\ End(r)
    /\ UNCHANGED <<roster, files, saves, late>>

FlipToKnockout(r) ==
    /\ On(r, "flip")
    /\ comp' = IF comp.status = "pools" THEN [comp EXCEPT !.status = "knockout"] ELSE comp
    /\ End(r)
    /\ UNCHANGED <<roster, files, saves, late>>

SettleOnFirstLook(r) ==
    /\ On(r, "settle")
    /\ comp' = IF comp.status = "pools" THEN [comp EXCEPT !.status = "completed"] ELSE comp
    /\ End(r)
    /\ UNCHANGED <<roster, files, saves, late>>

\* The league completes by itself, on a fresh look under the lock.
SettleLeague(r) ==
    /\ On(r, "settle")
    /\ comp' = IF comp.status = "pools" /\ AllDone(matches) THEN [comp EXCEPT !.status = "completed"] ELSE comp
    /\ End(r)
    /\ UNCHANGED <<roster, files, saves, late>>

----------------------------------------------------------------------------
\* The next Swiss round (AdvanceSwissRound): five store calls, no lock over them.

AdvanceLoad(r) ==
    /\ Free(r) /\ comp.format = "swiss" /\ SwissRoundsToDraw > 0
    /\ comp.round = 0 => Cardinality(Drawing) < DrawsAtOnce
    /\ GoWith(r, [op |-> "advance", at |-> "current", next |-> comp.round + 1, status |-> comp.status])
    /\ UNCHANGED <<comp, roster, files, saves, late>>

\* CurrentSwissRoundCompleted reads the round again.
AdvanceCurrent(r) ==
    /\ On(r, "current")
    /\ IF comp.round = 0 \/ \A i \in OfRound(comp.round) : matches[i].done THEN Go(r, "pair") ELSE End(r)
    /\ UNCHANGED <<comp, roster, files, saves, late>>

BumpBeforeAppend(r) ==
    /\ On(r, "pair")
    /\ req[r].next <= comp.rounds /\ (req[r].next = 1 \/ matches # <<>>)
    /\ comp' = [comp EXCEPT !.round = req[r].next]
    /\ Go(r, "append")
    /\ UNCHANGED <<roster, files, saves, late>>

\* GenerateSwissRound: a later round's field is whoever is in the earlier rows.
AdvancePair(r) ==
    /\ On(r, "pair")
    /\ IF req[r].next <= comp.rounds /\ (req[r].next = 1 \/ matches # <<>>)
       THEN Go(r, "append") ELSE End(r)
    /\ UNCHANGED <<comp, roster, files, saves, late>>

AppendToOldCopy(r) ==
    /\ On(r, "append")
    /\ IF "prior" \in DOMAIN req[r]
       THEN matches' = Append(req[r].prior, Row(req[r].next)) /\ Go(r, "bump")
       ELSE /\ GoWith(r, [op |-> "advance", at |-> "append", next |-> req[r].next,
                          status |-> req[r].status, prior |-> matches])
            /\ UNCHANGED matches
    /\ UNCHANGED <<comp, roster, pools, drawn, bracket, saves, late>>

AdvanceAppend(r) ==
    /\ On(r, "append")
    /\ matches' = Append(matches, Row(req[r].next))
    /\ Go(r, "bump")
    /\ UNCHANGED <<comp, roster, pools, drawn, bracket, saves, late>>

AdvanceBump(r) ==
    /\ On(r, "bump")
    /\ comp' = [comp EXCEPT !.round = IF @ < req[r].next THEN req[r].next ELSE @]
    /\ late' = IF Crossed(r) THEN late \cup {"discard"} ELSE late
    /\ IF req[r].status = "setup" THEN Go(r, "running") ELSE End(r)
    /\ UNCHANGED <<roster, files, saves>>

AdvanceRunning(r) ==
    /\ On(r, "running")
    /\ IF comp.status = "setup" THEN comp' = [comp EXCEPT !.status = "pools"] ELSE comp' = comp
    /\ late' = IF Crossed(r) THEN late \cup {"discard"} ELSE late
    /\ End(r)
    /\ UNCHANGED <<roster, files, saves>>

----------------------------------------------------------------------------
\* Settings, roster and names.

\* PUT /competitions/:id: settings the draw depends on, not while a draw is pending.
PutRules ==
    /\ comp.status \notin {"draw-ready", "gone"} /\ Save
    /\ comp' = [comp EXCEPT !.rules = @ + 1]
    /\ UNCHANGED <<roster, files, req, late, crossed>>

\* The number of Swiss rounds may change at any status.
PutSwissRounds ==
    /\ comp.format = "swiss" /\ comp.status # "gone" /\ Save
    /\ \E n \in 1 .. MaxRounds : comp' = [comp EXCEPT !.rounds = n]
    /\ UNCHANGED <<roster, files, req, late, crossed>>

\* POST a participant: the status is read under the lock of the write.
AddParticipant ==
    /\ comp.status = "setup" /\ Save
    /\ roster' = [roster EXCEPT !.entries = @ + 1]
    /\ UNCHANGED <<comp, files, req, late, crossed>>

\* PUT the roster or the seeds, POST a list: the status is read first, the
\* file is saved under a lock of its own, which does not read it again.
RosterCheck(r) ==
    /\ Free(r) /\ comp.status # "draw-ready" /\ Save
    /\ GoWith(r, [op |-> "roster", at |-> "save"])
    /\ UNCHANGED <<comp, roster, files, late>>

RosterSave(r) ==
    /\ On(r, "save")
    /\ roster' = [roster EXCEPT !.entries = @ + 1]
    /\ late' = IF comp.status = "draw-ready" THEN late \cup {"roster"} ELSE late
    /\ End(r)
    /\ UNCHANGED <<comp, files, saves>>

\* PUT a participant: the name, and while a draw is pending its place in the draw.
Rename(r) ==
    /\ Free(r) /\ comp.status \in {"setup", "draw-ready"} /\ Save
    /\ roster' = [roster EXCEPT !.names = @ + 1]
    /\ IF comp.status = "draw-ready"
       THEN /\ GoWith(r, [op |-> "rename", at |-> "cascade", names |-> roster.names + 1])
            /\ late' = IF Renaming # {} THEN late \cup {"names"} ELSE late
       ELSE UNCHANGED <<req, crossed, late>>
    /\ UNCHANGED <<comp, files>>

Renamed(tag, names) == IF tag = NoFile THEN tag ELSE [tag EXCEPT !.names = names]

ReplaceParticipantInDraw(r) ==
    /\ On(r, "cascade")
    /\ IF comp.status = "draw-ready"
       THEN /\ pools' = Renamed(pools, req[r].names)
            /\ drawn' = Renamed(drawn, req[r].names)
            /\ bracket' = IF bracket = NoFile THEN bracket ELSE [bracket EXCEPT !.of = Renamed(@, req[r].names)]
            /\ UNCHANGED matches
            /\ late' = IF Crossed(r) THEN late \cup {"names"} ELSE late
       ELSE UNCHANGED <<files, late>>
    /\ End(r)
    /\ UNCHANGED <<comp, roster, saves>>

----------------------------------------------------------------------------
\* The end.

Complete ==
    /\ comp.status \in Running /\ Settled
    /\ comp' = [comp EXCEPT !.status = "completed"]
    /\ UNCHANGED <<roster, files, req, saves, late, crossed>>

Invalidate ==
    /\ comp.status \in Running
    /\ comp' = [comp EXCEPT !.status = "invalid"]
    /\ UNCHANGED <<roster, files, req, saves, late, crossed>>

DeleteCheck(r) ==
    /\ Free(r) /\ comp.status \notin Running
    /\ GoWith(r, [op |-> "delete", at |-> "delete"])
    /\ UNCHANGED <<comp, roster, files, saves, late>>

Delete(r) ==
    /\ On(r, "delete")
    /\ comp' = [comp EXCEPT !.status = "gone"]
    /\ pools' = NoFile /\ matches' = <<>> /\ drawn' = NoFile /\ bracket' = NoFile
    /\ End(r)
    /\ UNCHANGED <<roster, saves, late>>

\* Every later call of a request finds no competition, or no folder to write to.
NotFound(r) ==
    /\ req[r] # Idle /\ comp.status = "gone"
    /\ End(r)
    /\ UNCHANGED <<comp, roster, files, saves, late>>

----------------------------------------------------------------------------
DrawSteps(r) ==
    \/ GenerateDraw(r) \/ DrawSnapshot(r) \/ DrawRoster(r) \/ DrawRefused(r) \/ DrawPools(r)
    \/ DrawMatches(r) \/ DrawBracket(r) \/ DrawCommit(r) \/ DrawConflict(r)
    \/ StartPending(r) \/ TransitionDrawToRunning(r)
    \/ DiscardCheck(r) \/ DiscardFile(r) \/ DiscardCommit(r)

MatchSteps(r) ==
    \/ Score(r) \/ Undo(r) \/ ScoreBracket(r)
    \/ AutoLoad(r) \/ AutoResult(r) \/ StartIfDrawReady(r) \/ AutoReload(r)
    \/ PoolPhase(r) \/ FlipToKnockout(r) \/ SettleLeague(r)
    \/ AdvanceLoad(r) \/ AdvanceCurrent(r) \/ AdvancePair(r) \/ AdvanceAppend(r)
    \/ AdvanceBump(r) \/ AdvanceRunning(r)

DeskSteps(r) ==
    \/ RosterCheck(r) \/ RosterSave(r) \/ Rename(r) \/ ReplaceParticipantInDraw(r)
    \/ DeleteCheck(r) \/ Delete(r) \/ NotFound(r)

Next ==
    \/ \E r \in Requests : DrawSteps(r) \/ MatchSteps(r) \/ DeskSteps(r)
    \/ PutRules \/ PutSwissRounds \/ AddParticipant \/ Complete \/ Invalidate

Spec == Init /\ [][Next]_vars

----------------------------------------------------------------------------
\* Properties.

Versions == 0 .. MaxSaves
Tags == [rules : Versions, entries : Versions, names : Versions]

TypeOK ==
    /\ comp.status \in {"setup", "draw-ready", "gone"} \cup Running \cup Final
    /\ comp.format \in Formats /\ comp.rules \in Versions
    /\ comp.round \in 0 .. MaxRounds /\ comp.rounds \in 1 .. MaxRounds
    /\ roster \in [entries : Versions, names : Versions]
    /\ {pools, drawn} \subseteq Tags \cup {NoFile}
    /\ \A i \in DOMAIN matches :
          matches[i] \in [round : 0 .. MaxRounds, done : BOOLEAN, pending : BOOLEAN]
    /\ bracket = NoFile \/ bracket \in [of : Tags, seeded : BOOLEAN, done : BOOLEAN, pending : BOOLEAN]
    /\ saves \in Versions /\ late \subseteq {"discard", "roster", "names"}
    /\ crossed \subseteq Requests

\* What the competition plays from is all there once it is drawn: a start, an
\* automatic start, a Swiss round and a draw that raced each other leave no
\* competition without its files. The one exception is a step that a discard
\* overlapped: the start DiscardDraw accepts, and PendingDrawIsWhole's draw.
Whole ==
    /\ HasPools => pools # NoFile
    /\ HasBracket => bracket # NoFile
    /\ HasMatches => matches # <<>>
    /\ \A n \in 1 .. comp.round : OfRound(n) # {}

DrawIsWhole ==
    comp.status \in {"draw-ready", "completed"} \cup Running /\ Discarding = {} /\ "discard" \notin late =>
        Whole

\* A pending draw has its files once no discard is in flight (competition.go:
\* "no concurrent caller can generate fresh artifacts during the deletion
\* window").
PendingDrawIsWhole == comp.status = "draw-ready" /\ Discarding = {} => Whole

\* A pending draw was generated from the settings, the entries and the names
\* the competition has now, whatever was saved while it was generated. The
\* exceptions are writes whose status check is not under the lock of the
\* write: a roster or seeds save checked before the draw was pending, and two
\* corrections of a name at once, whose copies into the draw may swap.
PendingDrawIsCurrent ==
    comp.status = "draw-ready" /\ Discarding = {} =>
        LET present == (IF HasPools /\ pools # NoFile THEN {pools} ELSE {})
                       \cup (IF HasMatches /\ drawn # NoFile THEN {drawn} ELSE {})
                       \cup (IF comp.format = "knockout" /\ bracket # NoFile THEN {bracket.of} ELSE {})
        IN  \A tag \in present :
                /\ tag.rules = comp.rules
                /\ "roster" \in late \/ tag.entries = roster.entries
                /\ "names" \in late \/ Renaming # {} \/ tag.names = roster.names

\* A competition goes forward only, a pending draw excepted, and never leaves
\* completed or invalid but by being deleted: no request acts on a status it
\* read before another request moved it.
StatusMoves ==
    [][comp'.status # comp.status /\ comp'.status # "gone" =>
          <<comp.status, comp'.status>> \in
              {<<"setup", "draw-ready">>, <<"setup", "pools">>, <<"draw-ready", "setup">>}
              \cup {<<"draw-ready", RunningStatus(comp.format)>>, <<"pools", "knockout">>}
              \cup (Running \X Final)]_vars

\* A competition is completed only when nothing of it is left to play, on the
\* matches as they are at that moment, and never while a Swiss round is owed.
CompletesSettled ==
    [][comp.status # "completed" /\ comp'.status = "completed" =>
          IF HasBracket /\ bracket # NoFile THEN bracket.done
          ELSE AllDone(matches) /\ SwissRoundsToDraw = 0]_vars

\* A competition goes forward only, and to its end only when nothing is left
\* to play (StatusMoves, CompletesSettled).
MovesForward == StatusMoves /\ CompletesSettled

\* A recorded result stays until it is taken back: a round appended meanwhile,
\* a draw, a completion or a correction of a name never rolls it back. Only an
\* undo, a discard, and a deletion take a result away once the competition is
\* drawn. The exception is again a step a discard overlapped: a Swiss round
\* that lands after it leaves setup a round to go on from, and the competition
\* runs while a draw is still writing its rows.
ResultsStay ==
    [][\A i \in DOMAIN matches :
          matches[i].done /\ comp.status # "setup" /\ saves' = saves /\ Discarding = {} /\ comp'.status # "gone"
              /\ "discard" \notin late
              => i \in DOMAIN matches' /\ matches'[i].done]_vars

\* A result starts the competition it was recorded in: once every request has
\* ended, no pending draw holds a result recorded while it was pending.
ScoredDrawStarts ==
    InFlight = {} /\ comp.status = "draw-ready" =>
        /\ \A i \in DOMAIN matches : ~matches[i].pending
        /\ bracket # NoFile => ~bracket.pending

\* No Swiss round is drawn twice (swiss.go: the bump is made "so a concurrent
\* AdvanceSwissRound call can't generate the same round twice").
NoRoundTwice ==
    comp.status = "pools" => \A n \in 1 .. MaxRounds : Cardinality(OfRound(n)) <= 1

\* A draw the competition stands on is all there, and a pending one is of the
\* settings, entries and names it has now (GenerateDraw, DiscardDraw).
DrawIsSound == DrawIsWhole /\ PendingDrawIsCurrent

=============================================================================
