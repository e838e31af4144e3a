-------------------------- MODULE LifecycleProofs --------------------------
(***************************************************************************)
(* The life of a competition, for any requests, formats, settings and      *)
(* numbers of saves and rounds, with one draw in flight at a time.  The    *)
(* argument: a draw that no discard overlapped finds its own files when it *)
(* commits, and no one else's; a Swiss round that none overlapped finds    *)
(* the rounds before it; so what the competition stands on is whole.       *)
(***************************************************************************)
EXTENDS Lifecycle, FiniteSetTheorems, SequenceTheorems, TLAPS

Statuses == {"setup", "draw-ready", "gone"} \cup Running \cup Final
Settings == [status : Statuses, format : Formats, rules : Nat, round : Nat, rounds : Nat]
Rosters == [entries : Nat, names : Nat]
AnyTag == [rules : Nat, entries : Nat, names : Nat]
Trees == [of : AnyTag, seeded : BOOLEAN, done : BOOLEAN, pending : BOOLEAN]
MatchRows == [round : Nat, done : BOOLEAN, pending : BOOLEAN]

Draws == {"draw", "oneClick"}
NewDraws == [op : Draws, at : {"snapshot"}]
Reads == [op : Draws, at : {"roster"}, rules : Nat, stamp : Rosters, round : Nat]
Writings == [op : Draws, at : {"generate", "rows", "tree", "commit"},
             rules : Nat, stamp : Rosters, round : Nat, read : Rosters]
Starts == [op : {"start"}, at : {"transition"}]
Discards == [op : {"discard"}, at : {"pools", "matches", "bracket", "setup"}]
Checks == [op : {"score"}, at : {"auto", "result", "autostart", "reload"}, pools : BOOLEAN]
Looks == [op : {"score"}, at : {"phase", "flip", "settle"}, pools : BOOLEAN, status : Statuses]
Rounds == [op : {"advance"}, at : {"current", "pair", "append", "bump", "running"},
           next : Nat \ {0}, status : Statuses]
RosterSaves == [op : {"roster"}, at : {"save"}]
Renames == [op : {"rename"}, at : {"cascade"}, names : Nat]
Deletes == [op : {"delete"}, at : {"delete"}]
Shapes == {Idle} \cup NewDraws \cup Reads \cup Writings \cup Starts \cup Discards \cup Checks
          \cup Looks \cup Rounds \cup RosterSaves \cup Renames \cup Deletes

Stored ==
  /\ comp \in Settings /\ roster \in Rosters
  /\ pools \in AnyTag \cup {NoFile} /\ drawn \in AnyTag \cup {NoFile}
  /\ matches \in Seq(MatchRows) /\ bracket \in Trees \cup {NoFile}
  /\ saves \in Nat
Asked == req \in [Requests -> Shapes]

\* What a format has no use for is never there.
FormatFits ==
  /\ comp.format # "swiss" => comp.round = 0 /\ \A r \in Requests : req[r].op # "advance"
  /\ ~HasMatches => matches = <<>>
  /\ ~HasBracket => bracket = NoFile
  /\ \A r \in Requests :
       /\ At(r, "rows") => HasMatches
       /\ At(r, "tree") => HasBracket
       /\ At(r, "settle") => comp.format = "league"

\* One draw at a time, and none while a draw is pending.
OneDraw ==
  /\ \A r, s \in Drawing : r = s
  /\ comp.status = "draw-ready" => Drawing = {} /\ (comp.format = "swiss" => comp.round > 0)

DrawAt(r, places) == req[r].op \in Draws /\ req[r].at \in places
DrawTag(r) == Tag(req[r].rules, req[r].read)
NoneOlder(old, new) == old.entries <= new.entries /\ old.names <= new.names

\* What a draw finds on disk is its own or nothing, and no result of a
\* pending draw stands in it.
Fresh ==
  \A r \in Requests :
    /\ DrawAt(r, {"roster"}) => NoneOlder(req[r].stamp, roster)
    /\ DrawAt(r, {"generate", "rows", "tree", "commit"}) =>
         NoneOlder(req[r].stamp, req[r].read) /\ NoneOlder(req[r].read, roster)
    /\ DrawAt(r, {"rows", "tree", "commit"}) /\ HasPools => pools \in {NoFile, DrawTag(r)}
    /\ DrawAt(r, {"tree", "commit"}) /\ HasMatches =>
         drawn \in {NoFile, DrawTag(r)} /\ \A i \in DOMAIN matches : ~matches[i].pending
    /\ DrawAt(r, {"commit"}) /\ comp.format = "knockout" /\ bracket # NoFile =>
         bracket.of = DrawTag(r) /\ ~bracket.pending

\* A draw no discard overlapped finds the files it wrote.
Written ==
  \A r \in Requests \ crossed :
    comp.status # "gone" =>
      /\ DrawAt(r, {"rows", "tree", "commit"}) /\ HasPools => pools # NoFile
      /\ DrawAt(r, {"tree", "commit"}) /\ HasMatches =>
           matches # <<>> /\ (comp.format = "swiss" => OfRound(1) # {})
      /\ DrawAt(r, {"commit"}) /\ HasBracket => bracket # NoFile

IsCurrent(tag) ==
  /\ tag.rules = comp.rules
  /\ "roster" \in late \/ tag.entries = roster.entries
  /\ "names" \in late \/ Renaming # {} \/ tag.names = roster.names

\* A pending draw is of what the competition has, and a name on its way into
\* the draw is the last one given.
Current ==
  comp.status = "draw-ready" =>
    /\ HasPools /\ pools # NoFile => IsCurrent(pools)
    /\ HasMatches /\ drawn # NoFile => IsCurrent(drawn)
    /\ comp.format = "knockout" /\ bracket # NoFile => IsCurrent(bracket.of)
Renamings ==
  \A r \in Renaming \ crossed :
    /\ comp.status # "setup"
    /\ comp.status = "draw-ready" /\ "names" \notin late => req[r].names = roster.names

\* What the competition stands on, when no discard overlapped a step of it.
Standing ==
  comp.status \notin {"setup", "gone"} /\ "discard" \notin late /\ Discarding = {} => Whole
Lingering ==
  Discarding # {} /\ "discard" \notin late => comp.status \in {"draw-ready", "setup", "gone"}

HasRows(n) == \A k \in 1 .. n : OfRound(k) # {}
Advance(r) == req[r].op = "advance"
FirstRound(r) == Advance(r) /\ req[r].next = 1 /\ At(r, "running")

\* Only the request that drew the first round leaves setup with a round drawn.
SetupRounds ==
  comp.status = "setup" /\ "discard" \notin late =>
    /\ Discarding # {} => comp.round = 0
    /\ Discarding = {} => HasRows(comp.round)
    /\ comp.round > 0 => \E s \in Requests : FirstRound(s)
    /\ Discarding = {} =>
         \A r \in Requests \ crossed :
           Advance(r) => req[r].next = 1 \/ \E s \in Requests : FirstRound(s)

\* A round no discard overlapped finds the rounds before it.
Advancing ==
  comp.status # "gone" /\ "discard" \notin late /\ Discarding = {} =>
    \A r \in Requests \ crossed :
      Advance(r) =>
        /\ req[r].at \in {"current", "pair", "append", "bump"} => HasRows(req[r].next - 1)
        /\ At(r, "bump") => OfRound(req[r].next) # {}
        /\ At(r, "running") => comp.round > 0

\* A first round asked for in setup has the status to raise.
FirstFromSetup ==
  \A r \in Requests \ crossed : Discarding = {} /\ comp.status = "setup" /\ Advance(r)
     /\ req[r].next = 1 => req[r].status = "setup"

DrawsInSetup ==
  \A r \in Requests : req[r].op \in Draws => comp.status \in {"setup", "gone"} \/ "discard" \in late

\* A result recorded on a pending draw is recorded, and someone is on the way
\* to start the competition.
PendingDone ==
  /\ \A i \in DOMAIN matches : matches[i].pending => matches[i].done
  /\ bracket # NoFile /\ bracket.pending => bracket.done
SeatedLater ==
  comp.format = "mixed" =>
    /\ bracket # NoFile => ~bracket.pending
    /\ comp.status \in {"setup", "draw-ready"} =>
         /\ bracket # NoFile => ~bracket.seeded
         /\ \A r \in Requests : At(r, "phase") => req[r].status \notin Running
SomePending ==
  (\E i \in DOMAIN matches : matches[i].pending) \/ (bracket # NoFile /\ bracket.pending)
Answered ==
  comp.status = "draw-ready" /\ SomePending =>
    \E r \in Requests : req[r].op = "score" /\ req[r].at \in {"auto", "result", "autostart"}

LifeInv ==
  /\ Stored /\ Asked /\ FormatFits /\ OneDraw /\ Fresh /\ Written /\ Current /\ Renamings
  /\ Standing /\ Lingering /\ SetupRounds /\ Advancing /\ FirstFromSetup /\ DrawsInSetup
  /\ PendingDone /\ SeatedLater /\ Answered

-----------------------------------------------------------------------------
\* What a request is, by where it stands, and what a step does to it.

LEMMA Places ==
  ASSUME Asked, NEW r \in Requests
  PROVE  /\ At(r, "idle") <=> req[r] = Idle
         /\ At(r, "snapshot") => req[r] \in NewDraws
         /\ At(r, "roster") => req[r] \in Reads
         /\ req[r].at \in {"generate", "rows", "tree", "commit"} => req[r] \in Writings
         /\ At(r, "transition") => req[r] \in Starts
         /\ req[r].op = "discard" => req[r] \in Discards
         /\ req[r].at \in {"auto", "result", "autostart", "reload"} => req[r] \in Checks
         /\ req[r].at \in {"phase", "flip", "settle"} => req[r] \in Looks
         /\ req[r].at \in {"current", "pair", "append", "bump", "running"} => req[r] \in Rounds
         /\ Advance(r) => req[r] \in Rounds
         /\ At(r, "save") => req[r] \in RosterSaves
         /\ At(r, "cascade") => req[r] \in Renames
         /\ req[r].op = "rename" => req[r] \in Renames
         /\ At(r, "delete") => req[r] \in Deletes
         /\ req[r].op \in Draws => req[r] \in NewDraws \cup Reads \cup Writings
         /\ req[r].op = "score" => req[r] \in Checks \cup Looks
<1>1. req[r] \in Shapes
  BY DEF Asked
<1> QED
  BY <1>1 DEF Shapes, Idle, NewDraws, Reads, Writings, Starts, Discards, Checks, Looks, Rounds,
              RosterSaves, Renames, Deletes, Draws, At, Advance

LEMMA Going ==
  ASSUME Asked, NEW r \in Requests, NEW at, Go(r, at), req[r] # Idle
  PROVE  /\ crossed' = crossed
         /\ \A x \in Requests \ {r} : req'[x] = req[x]
         /\ DOMAIN req' = Requests
         /\ req'[r].at = at /\ req'[r].op = req[r].op
         /\ req'[r] = [req[r] EXCEPT !.at = at]
         /\ req[r] \in Writings => /\ req'[r].rules = req[r].rules /\ req'[r].stamp = req[r].stamp
                                  /\ req'[r].read = req[r].read
         /\ req[r] \in Checks => req'[r].pools = req[r].pools
         /\ req[r] \in Looks => req'[r].status = req[r].status
         /\ req[r] \in Rounds => req'[r].next = req[r].next /\ req'[r].status = req[r].status
<1>1. req[r] \in Shapes /\ DOMAIN req = Requests
  BY DEF Asked
<1>2. req'[r] = [req[r] EXCEPT !.at = at]
  BY <1>1 DEF Go
<1> QED
  BY <1>1, <1>2 DEF Shapes, Idle, NewDraws, Reads, Writings, Starts, Discards, Checks, Looks, Rounds,
              RosterSaves, Renames, Deletes, Draws, Go

LEMMA GoingWith ==
  ASSUME Asked, NEW r \in Requests, NEW q, GoWith(r, q)
  PROVE  /\ crossed' = crossed
         /\ \A x \in Requests \ {r} : req'[x] = req[x]
         /\ DOMAIN req' = Requests /\ req'[r] = q
BY DEF Asked, GoWith

LEMMA Ending ==
  ASSUME Asked, NEW r \in Requests, End(r)
  PROVE  /\ crossed' = crossed \ {r}
         /\ \A x \in Requests \ {r} : req'[x] = req[x]
         /\ DOMAIN req' = Requests /\ req'[r] = Idle
BY DEF Asked, End

-----------------------------------------------------------------------------
\* The types.

LEMMA AskedStep ==
  ASSUME Stored, Asked, Next
  PROVE  Asked'
<1> USE DEF Stored
<1>1. ASSUME NEW r \in Requests,
             \/ GenerateDraw(r) \/ DrawSnapshot(r) \/ DrawRoster(r) \/ StartPending(r)
             \/ DiscardCheck(r) \/ Score(r) \/ Undo(r) \/ ScoreBracket(r)
      PROVE  Asked'
  <2>1. \E q \in Shapes : req' = [req EXCEPT ![r] = q]
    <3>1. CASE GenerateDraw(r)
      BY <3>1 DEF GenerateDraw, GoWith, Shapes, NewDraws, Draws
    <3>2. CASE DrawSnapshot(r)
      BY <3>2, Places DEF DrawSnapshot, On, At, GoWith, Shapes, NewDraws, Reads, Settings
    <3>3. CASE DrawRoster(r)
      BY <3>3, Places DEF DrawRoster, On, At, GoWith, Shapes, Reads, Writings
    <3>4. CASE StartPending(r)
      BY <3>4 DEF StartPending, GoWith, Shapes, Starts
    <3>5. CASE DiscardCheck(r)
      BY <3>5 DEF DiscardCheck, Shapes, Discards
    <3>6. CASE Score(r) \/ Undo(r) \/ ScoreBracket(r)
      BY <3>6 DEF Score, Undo, ScoreBracket, GoWith, Shapes, Checks
    <3> QED
      BY <1>1, <3>1, <3>2, <3>3, <3>4, <3>5, <3>6
  <2> QED
    BY <2>1 DEF Asked
<1>2. ASSUME NEW r \in Requests,
             \/ DrawPools(r) \/ DrawMatches(r) \/ DrawBracket(r)
      PROVE  Asked'
  <2>1. req[r] \in Writings
    BY <1>2, Places DEF DrawPools, DrawMatches, DrawBracket, On, At
  <2>2. \E at \in {"rows", "tree", "commit"} : Go(r, at)
    BY <1>2 DEF DrawPools, DrawMatches, DrawBracket
  <2>3. \E at \in {"rows", "tree", "commit"} : req' = [req EXCEPT ![r] = [req[r] EXCEPT !.at = at]]
    BY <2>2 DEF Go, Asked
  <2>4. \A at \in {"rows", "tree", "commit"} : [req[r] EXCEPT !.at = at] \in Shapes
    BY <2>1 DEF Writings, Shapes
  <2> QED
    BY <2>3, <2>4 DEF Asked
<1>3. ASSUME NEW r \in Requests, DrawCommit(r) \/ TransitionDrawToRunning(r)
      PROVE  Asked'
  <2>1. \E q \in Shapes : req' = [req EXCEPT ![r] = q]
    BY <1>3 DEF DrawCommit, TransitionDrawToRunning, GoWith, End, Shapes, Checks, Starts
  <2> QED
    BY <2>1 DEF Asked
<1>4. ASSUME NEW r \in Requests, DiscardFile(r)
      PROVE  Asked'
  <2>1. req[r] \in Discards
    BY <1>4, Places DEF DiscardFile
  <2>3. \E at \in {"matches", "bracket", "setup"} : req' = [req EXCEPT ![r] = [req[r] EXCEPT !.at = at]]
    BY <1>4 DEF DiscardFile, Asked
  <2>4. \A at \in {"matches", "bracket", "setup"} : [req[r] EXCEPT !.at = at] \in Shapes
    BY <2>1 DEF Discards, Shapes
  <2> QED
    BY <2>3, <2>4 DEF Asked
<1>5. ASSUME NEW r \in Requests, AutoLoad(r) \/ AutoResult(r) \/ StartIfDrawReady(r) \/ AutoReload(r)
      PROVE  Asked'
  <2>1. req[r] \in Checks
    BY <1>5, Places DEF AutoLoad, AutoResult, StartIfDrawReady, AutoReload, On, At
  <2>2. \A at \in {"result", "autostart", "reload"} : [req[r] EXCEPT !.at = at] \in Checks
    BY <2>1 DEF Checks
  <2>3. \A status \in Statuses :
          [op |-> "score", at |-> "phase", pools |-> req[r].pools, status |-> status] \in Looks
    BY <2>1 DEF Looks, Checks
  <2>4. comp.status \in Statuses /\ "draw-ready" \in Statuses
    BY DEF Settings, Statuses
  <2>5. \E q \in Checks \cup Looks : req' = [req EXCEPT ![r] = q]
    <3>1. CASE AutoLoad(r)
      BY <3>1, <2>2, <2>3, <2>4 DEF AutoLoad, GoWith
    <3>2. CASE AutoResult(r)
      BY <3>2, <2>2, <2>3, <2>4 DEF AutoResult, GoWith
    <3>3. CASE StartIfDrawReady(r)
      BY <3>3, <2>2 DEF StartIfDrawReady, Go, Asked
    <3>4. CASE AutoReload(r)
      BY <3>4, <2>3, <2>4 DEF AutoReload, GoWith
    <3> QED
      BY <1>5, <3>1, <3>2, <3>3, <3>4
  <2> QED
    BY <2>5 DEF Asked, Shapes
<1>6. ASSUME NEW r \in Requests, PoolPhase(r)
      PROVE  Asked'
  <2>1. req[r] \in Looks
    BY <1>6, Places DEF PoolPhase, On, At
  <2>2. \A at \in {"flip", "settle"} : [req[r] EXCEPT !.at = at] \in Shapes
    BY <2>1 DEF Looks, Shapes
  <2>3. \E q \in Shapes : req' = [req EXCEPT ![r] = q]
    <3>1. Go(r, "flip") \/ Go(r, "settle") \/ End(r)
      BY <1>6 DEF PoolPhase
    <3> QED
      BY <3>1, <2>2 DEF Go, End, Asked, Shapes
  <2> QED
    BY <2>3 DEF Asked
<1>7. ASSUME NEW r \in Requests, AdvanceLoad(r)
      PROVE  Asked'
  <2>1. req' = [req EXCEPT ![r] = [op |-> "advance", at |-> "current", next |-> comp.round + 1, status |-> comp.status]]
    BY <1>7 DEF AdvanceLoad, GoWith
  <2>2. comp.round + 1 \in Nat \ {0} /\ comp.status \in Statuses
    BY DEF Settings
  <2> QED
    BY <2>1, <2>2 DEF Asked, Shapes, Rounds
<1>8. ASSUME NEW r \in Requests, AdvanceCurrent(r) \/ AdvancePair(r) \/ AdvanceAppend(r) \/ AdvanceBump(r)
      PROVE  Asked'
  <2>1. req[r] \in Rounds
    BY <1>8, Places DEF AdvanceCurrent, AdvancePair, AdvanceAppend, AdvanceBump, On, At
  <2>2. \A at \in {"pair", "append", "bump", "running"} : [req[r] EXCEPT !.at = at] \in Shapes
    BY <2>1 DEF Rounds, Shapes
  <2>3. \E q \in Shapes : req' = [req EXCEPT ![r] = q]
    <3>1. (\E at \in {"pair", "append", "bump", "running"} : Go(r, at)) \/ End(r)
      BY <1>8 DEF AdvanceCurrent, AdvancePair, AdvanceAppend, AdvanceBump
    <3> QED
      BY <3>1, <2>2 DEF Go, End, Asked, Shapes
  <2> QED
    BY <2>3 DEF Asked
<1>9. ASSUME NEW r \in Requests, RosterCheck(r) \/ Rename(r) \/ DeleteCheck(r)
      PROVE  Asked'
  <2>1. UNCHANGED req \/ \E q \in Shapes : req' = [req EXCEPT ![r] = q]
    BY <1>9 DEF RosterCheck, Rename, DeleteCheck, GoWith, Shapes, RosterSaves, Renames, Deletes, Rosters
  <2> QED
    BY <2>1 DEF Asked
<1>10. ASSUME NEW r \in Requests,
             \/ DrawRefused(r) \/ DrawConflict(r) \/ DiscardCommit(r) \/ FlipToKnockout(r) \/ SettleLeague(r)
             \/ AdvanceRunning(r) \/ RosterSave(r) \/ ReplaceParticipantInDraw(r) \/ Delete(r) \/ NotFound(r)
      PROVE  Asked'
  <2>1. req' = [req EXCEPT ![r] = Idle]
    BY <1>10 DEF DrawRefused, DrawConflict, DiscardCommit, FlipToKnockout, SettleLeague, AdvanceRunning,
                 RosterSave, ReplaceParticipantInDraw, Delete, NotFound, End
  <2> QED
    BY <2>1 DEF Asked, Shapes
<1>11. CASE PutRules \/ PutSwissRounds \/ AddParticipant \/ Complete \/ Invalidate
  BY <1>11 DEF PutRules, PutSwissRounds, AddParticipant, Complete, Invalidate, Asked
<1> QED
  BY <1>1, <1>2, <1>3, <1>4, <1>5, <1>6, <1>7, <1>8, <1>9, <1>10, <1>11 DEF Next, DrawSteps, MatchSteps, DeskSteps

\* The steps that write each file.
LEMMA CompMoves ==
  ASSUME Next
  PROVE  \/ comp' = comp
         \/ \E r \in Requests :
              \/ DrawCommit(r) \/ TransitionDrawToRunning(r) \/ DiscardCommit(r)
              \/ StartIfDrawReady(r) \/ FlipToKnockout(r) \/ SettleLeague(r) \/ AdvanceBump(r)
              \/ AdvanceRunning(r) \/ Delete(r)
         \/ PutRules \/ PutSwissRounds \/ Complete \/ Invalidate
BY ZenonT(40) DEF Next, DrawSteps, MatchSteps, DeskSteps, GenerateDraw, DrawSnapshot, DrawRoster,
       DrawRefused, DrawPools, DrawMatches, DrawBracket, DrawConflict, StartPending,
       DiscardCheck, DiscardFile, Score, Undo, ScoreBracket, AutoLoad, AutoResult, AutoReload,
       PoolPhase, AdvanceLoad, AdvanceCurrent, AdvancePair, AdvanceAppend, RosterCheck,
       RosterSave, Rename, ReplaceParticipantInDraw, DeleteCheck, NotFound, AddParticipant

LEMMA RosterMoves ==
  ASSUME Next
  PROVE  \/ roster' = roster
         \/ \E r \in Requests :
              \/ RosterSave(r) \/ Rename(r)
         \/ AddParticipant
BY ZenonT(40) DEF Next, DrawSteps, MatchSteps, DeskSteps, GenerateDraw, DrawSnapshot, DrawRoster,
       DrawRefused, DrawPools, DrawMatches, DrawBracket, DrawCommit, DrawConflict, StartPending,
       TransitionDrawToRunning, DiscardCheck, DiscardFile, DiscardCommit, Score, Undo,
       ScoreBracket, AutoLoad, AutoResult, StartIfDrawReady, AutoReload, PoolPhase,
       FlipToKnockout, SettleLeague, AdvanceLoad, AdvanceCurrent, AdvancePair, AdvanceAppend,
       AdvanceBump, AdvanceRunning, RosterCheck, ReplaceParticipantInDraw, DeleteCheck, Delete,
       NotFound, PutRules, PutSwissRounds, Complete, Invalidate

LEMMA PoolsMoves ==
  ASSUME Next
  PROVE  \/ pools' = pools
         \/ \E r \in Requests :
              \/ DrawPools(r) \/ DiscardFile(r) \/ ReplaceParticipantInDraw(r) \/ Delete(r)
BY ZenonT(40) DEF Next, DrawSteps, MatchSteps, DeskSteps, files, GenerateDraw, DrawSnapshot, DrawRoster,
       DrawRefused, DrawMatches, DrawBracket, DrawCommit, DrawConflict, StartPending,
       TransitionDrawToRunning, DiscardCheck, DiscardCommit, Score, Undo, ScoreBracket, AutoLoad,
       AutoResult, StartIfDrawReady, AutoReload, PoolPhase, FlipToKnockout, SettleLeague,
       AdvanceLoad, AdvanceCurrent, AdvancePair, AdvanceAppend, AdvanceBump, AdvanceRunning,
       RosterCheck, RosterSave, Rename, DeleteCheck, NotFound, PutRules, PutSwissRounds,
       AddParticipant, Complete, Invalidate

LEMMA MatchesMoves ==
  ASSUME Next
  PROVE  \/ matches' = matches
         \/ \E r \in Requests :
              \/ DrawMatches(r) \/ DiscardFile(r) \/ Score(r) \/ Undo(r) \/ AdvanceAppend(r)
              \/ Delete(r)
BY ZenonT(40) DEF Next, DrawSteps, MatchSteps, DeskSteps, files, rows, GenerateDraw, DrawSnapshot,
       DrawRoster, DrawRefused, DrawPools, DrawBracket, DrawCommit, DrawConflict, StartPending,
       TransitionDrawToRunning, DiscardCheck, DiscardCommit, ScoreBracket, AutoLoad, AutoResult,
       StartIfDrawReady, AutoReload, PoolPhase, FlipToKnockout, SettleLeague, AdvanceLoad,
       AdvanceCurrent, AdvancePair, AdvanceBump, AdvanceRunning, RosterCheck, RosterSave, Rename,
       ReplaceParticipantInDraw, DeleteCheck, NotFound, PutRules, PutSwissRounds, AddParticipant,
       Complete, Invalidate

LEMMA DrawnMoves ==
  ASSUME Next
  PROVE  \/ drawn' = drawn
         \/ \E r \in Requests :
              \/ DrawMatches(r) \/ DiscardFile(r) \/ ReplaceParticipantInDraw(r) \/ Delete(r)
BY ZenonT(40) DEF Next, DrawSteps, MatchSteps, DeskSteps, files, rows, GenerateDraw, DrawSnapshot,
       DrawRoster, DrawRefused, DrawPools, DrawBracket, DrawCommit, DrawConflict, StartPending,
       TransitionDrawToRunning, DiscardCheck, DiscardCommit, Score, Undo, ScoreBracket, AutoLoad,
       AutoResult, StartIfDrawReady, AutoReload, PoolPhase, FlipToKnockout, SettleLeague,
       AdvanceLoad, AdvanceCurrent, AdvancePair, AdvanceAppend, AdvanceBump, AdvanceRunning,
       RosterCheck, RosterSave, Rename, DeleteCheck, NotFound, PutRules, PutSwissRounds,
       AddParticipant, Complete, Invalidate

LEMMA BracketMoves ==
  ASSUME Next
  PROVE  \/ bracket' = bracket
         \/ \E r \in Requests :
              \/ DrawBracket(r) \/ DiscardFile(r) \/ ScoreBracket(r) \/ PoolPhase(r)
              \/ ReplaceParticipantInDraw(r) \/ Delete(r)
BY ZenonT(40) DEF Next, DrawSteps, MatchSteps, DeskSteps, files, rows, GenerateDraw, DrawSnapshot,
       DrawRoster, DrawRefused, DrawPools, DrawMatches, DrawCommit, DrawConflict, StartPending,
       TransitionDrawToRunning, DiscardCheck, DiscardCommit, Score, Undo, AutoLoad, AutoResult,
       StartIfDrawReady, AutoReload, FlipToKnockout, SettleLeague, AdvanceLoad, AdvanceCurrent,
       AdvancePair, AdvanceAppend, AdvanceBump, AdvanceRunning, RosterCheck, RosterSave, Rename,
       DeleteCheck, NotFound, PutRules, PutSwissRounds, AddParticipant, Complete, Invalidate

LEMMA LateMoves ==
  ASSUME Next
  PROVE  \/ late' = late
         \/ \E r \in Requests :
              \/ DrawCommit(r) \/ TransitionDrawToRunning(r) \/ DiscardCommit(r)
              \/ StartIfDrawReady(r) \/ AdvanceBump(r) \/ AdvanceRunning(r) \/ RosterSave(r)
              \/ Rename(r) \/ ReplaceParticipantInDraw(r)
BY ZenonT(40) DEF Next, DrawSteps, MatchSteps, DeskSteps, GenerateDraw, DrawSnapshot, DrawRoster,
       DrawRefused, DrawPools, DrawMatches, DrawBracket, DrawConflict, StartPending,
       DiscardCheck, DiscardFile, Score, Undo, ScoreBracket, AutoLoad, AutoResult, AutoReload,
       PoolPhase, FlipToKnockout, SettleLeague, AdvanceLoad, AdvanceCurrent, AdvancePair,
       AdvanceAppend, RosterCheck, DeleteCheck, Delete, NotFound, PutRules, PutSwissRounds,
       AddParticipant, Complete, Invalidate

\* A step of one request goes from its shape to its shape.
LEMMA OneMoves ==
  ASSUME Asked, NEW r \in Requests, DrawSteps(r) \/ MatchSteps(r) \/ DeskSteps(r)
  PROVE  \A x \in Requests \ {r} : req'[x] = req[x]
BY DEF DrawSteps, MatchSteps, DeskSteps, Go, GoWith, End, Asked,
       GenerateDraw, DrawSnapshot, DrawRoster, DrawRefused, DrawPools, DrawMatches, DrawBracket,
       DrawCommit, DrawConflict, StartPending, TransitionDrawToRunning, DiscardCheck,
       DiscardFile, DiscardCommit, Score, Undo, ScoreBracket, AutoLoad, AutoResult,
       StartIfDrawReady, AutoReload, PoolPhase, FlipToKnockout, SettleLeague, AdvanceLoad,
       AdvanceCurrent, AdvancePair, AdvanceAppend, AdvanceBump, AdvanceRunning, RosterCheck,
       RosterSave, Rename, ReplaceParticipantInDraw, DeleteCheck, Delete, NotFound

\* The steps that leave every draw, round, correction and discard where it is.
LEMMA OtherSteps ==
  ASSUME Asked, NEW r \in Requests,
         \/ StartPending(r) \/ TransitionDrawToRunning(r) \/ Score(r) \/ Undo(r) \/ ScoreBracket(r)
         \/ AutoLoad(r) \/ AutoResult(r) \/ StartIfDrawReady(r) \/ AutoReload(r) \/ PoolPhase(r)
         \/ FlipToKnockout(r) \/ SettleLeague(r) \/ RosterCheck(r) \/ RosterSave(r)
         \/ DeleteCheck(r) \/ Delete(r)
  PROVE  /\ req[r].op \notin Draws \cup {"advance", "rename", "discard"}
         /\ req'[r].op \notin Draws \cup {"advance", "rename", "discard"}
<1>1. CASE StartPending(r) \/ Score(r) \/ Undo(r) \/ ScoreBracket(r) \/ RosterCheck(r) \/ DeleteCheck(r)
  <2>1. req[r] = Idle
    BY <1>1, Places DEF StartPending, Score, Undo, ScoreBracket, RosterCheck, DeleteCheck, Free
  <2>2. req'[r].op \in {"start", "score", "roster", "delete"}
    <3>1. GoWith(r, [op |-> "start", at |-> "transition"])
          \/ (\E p \in BOOLEAN : GoWith(r, [op |-> "score", at |-> "auto", pools |-> p]))
          \/ GoWith(r, [op |-> "roster", at |-> "save"]) \/ GoWith(r, [op |-> "delete", at |-> "delete"])
      BY <1>1 DEF StartPending, Score, Undo, ScoreBracket, RosterCheck, DeleteCheck
    <3> QED
      BY <3>1 DEF GoWith, Asked
  <2> QED
    BY <2>1, <2>2 DEF Idle, Draws
<1>2. CASE TransitionDrawToRunning(r) \/ FlipToKnockout(r) \/ SettleLeague(r) \/ RosterSave(r) \/ Delete(r)
  <2>1. req[r] \in Starts \cup Looks \cup RosterSaves \cup Deletes
    BY <1>2, Places DEF TransitionDrawToRunning, FlipToKnockout, SettleLeague, RosterSave, Delete, On, At
  <2>2. req'[r] = Idle \/ req'[r] = [op |-> "score", at |-> "auto", pools |-> TRUE]
    BY <1>2 DEF TransitionDrawToRunning, FlipToKnockout, SettleLeague, RosterSave, Delete, GoWith, End, Asked
  <2> QED
    BY <2>1, <2>2 DEF Starts, Looks, RosterSaves, Deletes, Idle, Draws
<1>3. CASE AutoLoad(r) \/ AutoResult(r) \/ StartIfDrawReady(r) \/ AutoReload(r) \/ PoolPhase(r)
  <2>1. req[r] \in Checks \cup Looks /\ req[r] # Idle
    BY <1>3, Places DEF AutoLoad, AutoResult, StartIfDrawReady, AutoReload, PoolPhase, On, At, Checks, Looks, Idle
  <2>2. req'[r].op \in {"score", "none"}
    BY <1>3, <2>1 DEF AutoLoad, AutoResult, StartIfDrawReady, AutoReload, PoolPhase, Go, GoWith, End, Asked,
                      Checks, Looks, Idle
  <2> QED
    BY <2>1, <2>2 DEF Checks, Looks, Draws
<1> QED
  BY <1>1, <1>2, <1>3

LEMMA DrawTurns ==
  ASSUME Asked, Stored, NEW r \in Requests
  PROVE  /\ GenerateDraw(r) => req[r] = Idle /\ req'[r] \in NewDraws /\ crossed' = crossed
         /\ DrawSnapshot(r) => /\ req[r] \in NewDraws /\ req'[r] \in Reads /\ crossed' = crossed
                               /\ req'[r].op = req[r].op /\ req'[r].stamp = roster
         /\ DrawRoster(r) => /\ req[r] \in Reads /\ req'[r] \in Writings /\ crossed' = crossed
                             /\ req'[r].at = "generate" /\ req'[r].op = req[r].op
                             /\ req'[r].stamp = req[r].stamp /\ req'[r].read = roster
<1>1. ASSUME GenerateDraw(r)
      PROVE  req[r] = Idle /\ req'[r] \in NewDraws /\ crossed' = crossed
  BY <1>1, Places DEF GenerateDraw, Free, GoWith, NewDraws, Draws, Asked
<1>2. ASSUME DrawSnapshot(r)
      PROVE  /\ req[r] \in NewDraws /\ req'[r] \in Reads /\ crossed' = crossed
             /\ req'[r].op = req[r].op /\ req'[r].stamp = roster
  BY <1>2, Places DEF DrawSnapshot, On, GoWith, NewDraws, Reads, Asked, Stored, Settings
<1>3. ASSUME DrawRoster(r)
      PROVE  /\ req[r] \in Reads /\ req'[r] \in Writings /\ crossed' = crossed
             /\ req'[r].at = "generate" /\ req'[r].op = req[r].op
             /\ req'[r].stamp = req[r].stamp /\ req'[r].read = roster
  BY <1>3, Places DEF DrawRoster, On, GoWith, Reads, Writings, Asked, Stored
<1> QED
  BY <1>1, <1>2, <1>3

LEMMA WriteTurns ==
  ASSUME Asked, NEW r \in Requests, DrawPools(r) \/ DrawMatches(r) \/ DrawBracket(r)
  PROVE  /\ req[r] \in Writings /\ req'[r] \in Writings /\ crossed' = crossed
         /\ req'[r].op = req[r].op /\ req'[r].rules = req[r].rules
         /\ req'[r].stamp = req[r].stamp /\ req'[r].read = req[r].read
         /\ DrawPools(r) => At(r, "generate") /\ req'[r].at = IF HasMatches THEN "rows" ELSE "tree"
         /\ DrawMatches(r) => At(r, "rows") /\ req'[r].at = IF HasBracket THEN "tree" ELSE "commit"
         /\ DrawBracket(r) => At(r, "tree") /\ req'[r].at = "commit"
<1>1. req[r] \in Writings /\ req[r] # Idle
  BY Places DEF DrawPools, DrawMatches, DrawBracket, On, At, Writings, Idle
<1>2. /\ DrawPools(r) => At(r, "generate") /\ Go(r, IF HasMatches THEN "rows" ELSE "tree")
      /\ DrawMatches(r) => At(r, "rows") /\ Go(r, IF HasBracket THEN "tree" ELSE "commit")
      /\ DrawBracket(r) => At(r, "tree") /\ Go(r, "commit")
  BY DEF DrawPools, DrawMatches, DrawBracket, On
<1>3. PICK at \in {"rows", "tree", "commit"} : Go(r, at)
  BY <1>2
<1>4. req'[r] = [req[r] EXCEPT !.at = at] /\ crossed' = crossed
  BY <1>1, <1>3, Going
<1>5. req'[r] \in Writings
  BY <1>1, <1>4 DEF Writings
<1>6. \A a : Go(r, a) => req'[r].at = a
  BY <1>1, Going
<1> QED
  BY <1>1, <1>2, <1>3, <1>5, <1>6, Going

LEMMA EndTurns ==
  ASSUME Asked, NEW r \in Requests, DrawRefused(r) \/ DrawCommit(r) \/ DrawConflict(r)
  PROVE  /\ req[r] \in Writings /\ req'[r] \in Starts \cup {Idle}
         /\ DrawCommit(r) \/ DrawConflict(r) => At(r, "commit")
BY Places DEF DrawRefused, DrawCommit, DrawConflict, On, At, GoWith, End, Asked, Starts

LEMMA DiscardTurns ==
  ASSUME Asked, NEW r \in Requests
  PROVE  /\ DiscardCheck(r) => req[r] = Idle /\ req'[r].op = "discard"
         /\ DiscardFile(r) => req[r].op = "discard" /\ req'[r].op = "discard"
         /\ DiscardCommit(r) => req[r].op = "discard" /\ req'[r] = Idle
         /\ DiscardCheck(r) \/ DiscardFile(r) \/ DiscardCommit(r) =>
              crossed' = crossed \cup {x \in InFlight : req[x].op # "discard"}
<1>1. DiscardCheck(r) => req[r] = Idle /\ req'[r].op = "discard"
  BY Places DEF DiscardCheck, Free, Asked
<1>2. ASSUME DiscardFile(r)
      PROVE  req[r].op = "discard" /\ req'[r].op = "discard"
  <2>1. req[r] \in Discards
    BY <1>2, Places DEF DiscardFile
  <2>2. \E at \in {"matches", "bracket", "setup"} : req'[r] = [req[r] EXCEPT !.at = at]
    BY <1>2 DEF DiscardFile, Asked
  <2> QED
    BY <2>1, <2>2 DEF Discards
<1>3. DiscardCommit(r) => req[r].op = "discard" /\ req'[r] = Idle
  BY DEF DiscardCommit, Asked
<1> QED
  BY <1>1, <1>2, <1>3 DEF DiscardCheck, DiscardFile, DiscardCommit, Cross

LEMMA RoundTurns ==
  ASSUME Asked, Stored, NEW r \in Requests
  PROVE  /\ AdvanceLoad(r) =>
              /\ req[r] = Idle /\ crossed' = crossed /\ req'[r].op = "advance" /\ req'[r].at = "current"
              /\ req'[r].next = comp.round + 1 /\ req'[r].status = comp.status
         /\ AdvanceCurrent(r) \/ AdvancePair(r) \/ AdvanceAppend(r) \/ AdvanceBump(r) \/ AdvanceRunning(r) =>
              req[r] \in Rounds
         /\ AdvanceCurrent(r) \/ AdvancePair(r) \/ AdvanceAppend(r) \/ AdvanceBump(r) =>
              /\ req'[r] # Idle => /\ crossed' = crossed /\ req'[r].op = "advance"
                                   /\ req'[r].next = req[r].next /\ req'[r].status = req[r].status
         /\ AdvanceCurrent(r) => At(r, "current") /\ req'[r].at \in {"pair", "idle"}
         /\ AdvancePair(r) => At(r, "pair") /\ req'[r].at \in {"append", "idle"}
         /\ AdvanceAppend(r) => At(r, "append") /\ req'[r].at = "bump"
         /\ AdvanceBump(r) =>
              At(r, "bump") /\ req'[r].at = IF req[r].status = "setup" THEN "running" ELSE "idle"
         /\ AdvanceRunning(r) => At(r, "running") /\ req'[r] = Idle
<1>1. ASSUME AdvanceLoad(r)
      PROVE  /\ req[r] = Idle /\ crossed' = crossed /\ req'[r].op = "advance" /\ req'[r].at = "current"
             /\ req'[r].next = comp.round + 1 /\ req'[r].status = comp.status
  BY <1>1, Places DEF AdvanceLoad, Free, GoWith, Asked
<1>2. ASSUME AdvanceCurrent(r) \/ AdvancePair(r) \/ AdvanceAppend(r) \/ AdvanceBump(r) \/ AdvanceRunning(r)
      PROVE  req[r] \in Rounds /\ req[r] # Idle
  BY <1>2, Places DEF AdvanceCurrent, AdvancePair, AdvanceAppend, AdvanceBump, AdvanceRunning, On, At, Rounds, Idle
<1>3. \A at : Go(r, at) /\ req[r] \in Rounds /\ req[r] # Idle =>
        /\ crossed' = crossed /\ req'[r].op = "advance" /\ req'[r].at = at
        /\ req'[r].next = req[r].next /\ req'[r].status = req[r].status
  BY Going DEF Rounds
<1>4. End(r) => req'[r] = Idle /\ req'[r].at = "idle"
  BY Ending DEF Idle
<1>5. AdvanceCurrent(r) => At(r, "current") /\ (Go(r, "pair") \/ End(r))
  BY DEF AdvanceCurrent, On
<1>6. AdvancePair(r) => At(r, "pair") /\ (Go(r, "append") \/ End(r))
  BY DEF AdvancePair, On
<1>7. AdvanceAppend(r) => At(r, "append") /\ Go(r, "bump")
  BY DEF AdvanceAppend, On
<1>8. AdvanceBump(r) => At(r, "bump") /\ IF req[r].status = "setup" THEN Go(r, "running") ELSE End(r)
  BY DEF AdvanceBump, On
<1>9. AdvanceRunning(r) => At(r, "running") /\ End(r)
  BY DEF AdvanceRunning, On
<1> QED
  BY <1>1, <1>2, <1>3, <1>4, <1>5, <1>6, <1>7, <1>8, <1>9

LEMMA RenameTurns ==
  ASSUME Asked, NEW r \in Requests
  PROVE  /\ Rename(r) =>
              /\ crossed' = crossed /\ req[r] = Idle
              /\ IF comp.status = "draw-ready"
                 THEN req'[r].op = "rename" /\ req'[r].names = roster.names + 1
                 ELSE req' = req
         /\ ReplaceParticipantInDraw(r) => req[r].op = "rename" /\ req'[r] = Idle
BY Places DEF Rename, ReplaceParticipantInDraw, Free, On, GoWith, End, Asked, Renames

\* What becomes of a step's own request, kind by kind.
LEMMA Kinds ==
  ASSUME Asked, Stored, NEW r \in Requests, DrawSteps(r) \/ MatchSteps(r) \/ DeskSteps(r)
  PROVE  /\ \/ GenerateDraw(r) \/ DrawSnapshot(r) \/ DrawRoster(r)
            \/ DrawPools(r) \/ DrawMatches(r) \/ DrawBracket(r)
            \/ req'[r].op \notin Draws
         /\ \/ AdvanceLoad(r) \/ AdvanceCurrent(r) \/ AdvancePair(r) \/ AdvanceAppend(r)
            \/ AdvanceBump(r) \/ AdvanceRunning(r) \/ NotFound(r)
            \/ req[r].op # "advance" /\ req'[r].op # "advance"
         /\ \/ DiscardCheck(r) \/ DiscardFile(r) \/ DiscardCommit(r) \/ NotFound(r)
            \/ req[r].op # "discard" /\ req'[r].op # "discard"
         /\ \/ Rename(r) \/ ReplaceParticipantInDraw(r) \/ NotFound(r)
            \/ req[r].op # "rename" /\ req'[r].op # "rename"
<1> DEFINE Other ==
             \/ StartPending(r) \/ TransitionDrawToRunning(r) \/ Score(r) \/ Undo(r) \/ ScoreBracket(r)
             \/ AutoLoad(r) \/ AutoResult(r) \/ StartIfDrawReady(r) \/ AutoReload(r) \/ PoolPhase(r)
             \/ FlipToKnockout(r) \/ SettleLeague(r) \/ RosterCheck(r) \/ RosterSave(r)
             \/ DeleteCheck(r) \/ Delete(r)
           NoDraw == req'[r].op \notin Draws
           No(op) == req[r].op # op /\ req'[r].op # op
<1>1. Other => NoDraw /\ No("advance") /\ No("discard") /\ No("rename")
  BY OtherSteps
<1>2. GenerateDraw(r) \/ DrawSnapshot(r) \/ DrawRoster(r) => No("advance") /\ No("discard") /\ No("rename")
  BY DrawTurns DEF NewDraws, Reads, Writings, Draws, Idle
<1>3. DrawPools(r) \/ DrawMatches(r) \/ DrawBracket(r) => No("advance") /\ No("discard") /\ No("rename")
  BY WriteTurns DEF Writings, Draws
<1>4. DrawRefused(r) \/ DrawCommit(r) \/ DrawConflict(r) =>
        NoDraw /\ No("advance") /\ No("discard") /\ No("rename")
  BY EndTurns DEF Writings, Starts, Draws, Idle
<1>5. DiscardCheck(r) \/ DiscardFile(r) \/ DiscardCommit(r) => NoDraw /\ No("advance") /\ No("rename")
  BY DiscardTurns DEF Draws, Idle
<1>6. AdvanceLoad(r) \/ AdvanceCurrent(r) \/ AdvancePair(r) \/ AdvanceAppend(r) \/ AdvanceBump(r) \/ AdvanceRunning(r) =>
        NoDraw /\ No("discard") /\ No("rename")
  BY RoundTurns DEF Draws, Idle, Rounds
<1>7. Rename(r) => NoDraw /\ No("discard") /\ No("advance")
  <2>1. ASSUME Rename(r)
        PROVE  req[r] = Idle /\ (req' = req \/ req'[r].op = "rename")
    BY <2>1, RenameTurns
  <2> QED
    BY <2>1 DEF Draws, Idle
<1>8. ReplaceParticipantInDraw(r) => NoDraw /\ No("discard") /\ No("advance")
  <2>1. ASSUME ReplaceParticipantInDraw(r)
        PROVE  req[r].op = "rename" /\ req'[r] = Idle
    BY <2>1, RenameTurns
  <2> QED
    BY <2>1 DEF Draws, Idle
<1>9. NotFound(r) => NoDraw
  BY Ending DEF NotFound, Draws, Idle
<1>10. \/ Other \/ GenerateDraw(r) \/ DrawSnapshot(r) \/ DrawRoster(r)
       \/ DrawPools(r) \/ DrawMatches(r) \/ DrawBracket(r)
       \/ DrawRefused(r) \/ DrawCommit(r) \/ DrawConflict(r)
       \/ DiscardCheck(r) \/ DiscardFile(r) \/ DiscardCommit(r)
       \/ AdvanceLoad(r) \/ AdvanceCurrent(r) \/ AdvancePair(r) \/ AdvanceAppend(r)
       \/ AdvanceBump(r) \/ AdvanceRunning(r) \/ Rename(r) \/ ReplaceParticipantInDraw(r)
       \/ NotFound(r)
  BY DEF DrawSteps, MatchSteps, DeskSteps
<1>11. \/ GenerateDraw(r) \/ DrawSnapshot(r) \/ DrawRoster(r)
       \/ DrawPools(r) \/ DrawMatches(r) \/ DrawBracket(r) \/ NoDraw
  <2> HIDE DEF Other, NoDraw, No
  <2> QED
    BY <1>1, <1>4, <1>5, <1>6, <1>7, <1>8, <1>9, <1>10
<1>12. \/ AdvanceLoad(r) \/ AdvanceCurrent(r) \/ AdvancePair(r) \/ AdvanceAppend(r)
       \/ AdvanceBump(r) \/ AdvanceRunning(r) \/ NotFound(r) \/ No("advance")
  <2> HIDE DEF Other, NoDraw, No
  <2> QED
    BY <1>1, <1>2, <1>3, <1>4, <1>5, <1>7, <1>8, <1>10
<1>13. DiscardCheck(r) \/ DiscardFile(r) \/ DiscardCommit(r) \/ NotFound(r) \/ No("discard")
  <2> HIDE DEF Other, NoDraw, No
  <2> QED
    BY <1>1, <1>2, <1>3, <1>4, <1>6, <1>7, <1>8, <1>10
<1>14. Rename(r) \/ ReplaceParticipantInDraw(r) \/ NotFound(r) \/ No("rename")
  <2> HIDE DEF Other, NoDraw, No
  <2> QED
    BY <1>1, <1>2, <1>3, <1>4, <1>5, <1>6, <1>10
<1> QED
  BY <1>11, <1>12, <1>13, <1>14

\* The steps that move each kind of request.
LEMMA DrawsMoves ==
  ASSUME Asked, Stored, Next
  PROVE  \/ \A x \in Requests : req'[x].op \in Draws => req'[x] = req[x]
         \/ \E r \in Requests :
              \/ GenerateDraw(r) \/ DrawSnapshot(r) \/ DrawRoster(r) \/ DrawPools(r)
              \/ DrawMatches(r) \/ DrawBracket(r)
<1>1. CASE PutRules \/ PutSwissRounds \/ AddParticipant \/ Complete \/ Invalidate
  BY <1>1 DEF PutRules, PutSwissRounds, AddParticipant, Complete, Invalidate
<1>2. ASSUME NEW r \in Requests, DrawSteps(r) \/ MatchSteps(r) \/ DeskSteps(r)
      PROVE  \/ \A x \in Requests : req'[x].op \in Draws => req'[x] = req[x]
             \/ GenerateDraw(r) \/ DrawSnapshot(r) \/ DrawRoster(r) \/ DrawPools(r)
             \/ DrawMatches(r) \/ DrawBracket(r)
  BY <1>2, OneMoves, Kinds
<1> QED
  BY <1>1, <1>2 DEF Next

LEMMA RoundsMove ==
  ASSUME Asked, Stored, Next
  PROVE  \/ \A x \in Requests : req[x].op = "advance" \/ req'[x].op = "advance" => req'[x] = req[x]
         \/ \E r \in Requests :
              \/ AdvanceLoad(r) \/ AdvanceCurrent(r) \/ AdvancePair(r) \/ AdvanceAppend(r)
              \/ AdvanceBump(r) \/ AdvanceRunning(r) \/ NotFound(r)
<1>1. CASE PutRules \/ PutSwissRounds \/ AddParticipant \/ Complete \/ Invalidate
  BY <1>1 DEF PutRules, PutSwissRounds, AddParticipant, Complete, Invalidate
<1>2. ASSUME NEW r \in Requests, DrawSteps(r) \/ MatchSteps(r) \/ DeskSteps(r)
      PROVE  \/ \A x \in Requests : req[x].op = "advance" \/ req'[x].op = "advance" => req'[x] = req[x]
             \/ AdvanceLoad(r) \/ AdvanceCurrent(r) \/ AdvancePair(r) \/ AdvanceAppend(r)
             \/ AdvanceBump(r) \/ AdvanceRunning(r) \/ NotFound(r)
  BY <1>2, OneMoves, Kinds
<1> QED
  BY <1>1, <1>2 DEF Next

LEMMA DiscardsMove ==
  ASSUME Asked, Stored, Next
  PROVE  \/ \A x \in Requests : req[x].op = "discard" \/ req'[x].op = "discard" => req'[x] = req[x]
         \/ \E r \in Requests :
              \/ DiscardCheck(r) \/ DiscardFile(r) \/ DiscardCommit(r) \/ NotFound(r)
<1>1. CASE PutRules \/ PutSwissRounds \/ AddParticipant \/ Complete \/ Invalidate
  BY <1>1 DEF PutRules, PutSwissRounds, AddParticipant, Complete, Invalidate
<1>2. ASSUME NEW r \in Requests, DrawSteps(r) \/ MatchSteps(r) \/ DeskSteps(r)
      PROVE  \/ \A x \in Requests : req[x].op = "discard" \/ req'[x].op = "discard" => req'[x] = req[x]
             \/ DiscardCheck(r) \/ DiscardFile(r) \/ DiscardCommit(r) \/ NotFound(r)
  BY <1>2, OneMoves, Kinds
<1> QED
  BY <1>1, <1>2 DEF Next

LEMMA RenamesMove ==
  ASSUME Asked, Stored, Next
  PROVE  \/ \A x \in Requests : req[x].op = "rename" \/ req'[x].op = "rename" => req'[x] = req[x]
         \/ \E r \in Requests :
              \/ Rename(r) \/ ReplaceParticipantInDraw(r) \/ NotFound(r)
<1>1. CASE PutRules \/ PutSwissRounds \/ AddParticipant \/ Complete \/ Invalidate
  BY <1>1 DEF PutRules, PutSwissRounds, AddParticipant, Complete, Invalidate
<1>2. ASSUME NEW r \in Requests, DrawSteps(r) \/ MatchSteps(r) \/ DeskSteps(r)
      PROVE  \/ \A x \in Requests : req[x].op = "rename" \/ req'[x].op = "rename" => req'[x] = req[x]
             \/ Rename(r) \/ ReplaceParticipantInDraw(r) \/ NotFound(r)
  BY <1>2, OneMoves, Kinds
<1> QED
  BY <1>1, <1>2 DEF Next

LEMMA CrossedMoves ==
  ASSUME Asked, Next
  PROVE  \A x \in Requests : x \notin crossed' /\ req'[x] # Idle => x \notin crossed
<1>1. CASE PutRules \/ PutSwissRounds \/ AddParticipant \/ Complete \/ Invalidate
  BY <1>1 DEF PutRules, PutSwissRounds, AddParticipant, Complete, Invalidate
<1>2. ASSUME NEW r \in Requests, DrawSteps(r) \/ MatchSteps(r) \/ DeskSteps(r)
      PROVE  crossed' = crossed \/ crossed \subseteq crossed' \/ (crossed' = crossed \ {r} /\ req'[r] = Idle)
  BY <1>2 DEF Asked, DrawSteps, MatchSteps, DeskSteps, Go, GoWith, End, Cross,
      GenerateDraw, DrawSnapshot, DrawRoster, DrawRefused, DrawPools, DrawMatches, DrawBracket,
      DrawCommit, DrawConflict, StartPending, TransitionDrawToRunning, DiscardCheck, DiscardFile,
      DiscardCommit, Score, Undo, ScoreBracket, AutoLoad, AutoResult, StartIfDrawReady,
      AutoReload, PoolPhase, FlipToKnockout, SettleLeague, AdvanceLoad, AdvanceCurrent,
      AdvancePair, AdvanceAppend, AdvanceBump, AdvanceRunning, RosterCheck, RosterSave, Rename,
      ReplaceParticipantInDraw, DeleteCheck, Delete, NotFound
<1> QED
  BY <1>1, <1>2 DEF Next

-----------------------------------------------------------------------------
\* The stored files keep their types.

LEMMA CompIs ==
  ASSUME Stored, Asked, Next
  PROVE  comp' \in Settings /\ comp'.format = comp.format
<1> USE DEF Stored, Settings
<1>1. ASSUME NEW status \in Statuses
      PROVE  /\ [comp EXCEPT !.status = status] \in Settings
             /\ [comp EXCEPT !.status = status].format = comp.format
  OBVIOUS
<1>2. ASSUME NEW r \in Requests,
             \/ TransitionDrawToRunning(r) \/ StartIfDrawReady(r) \/ FlipToKnockout(r) \/ SettleLeague(r)
             \/ AdvanceRunning(r) \/ Delete(r)
      PROVE  comp' = comp \/ \E status \in Statuses : comp' = [comp EXCEPT !.status = status]
  BY <1>2 DEF TransitionDrawToRunning, StartIfDrawReady, Begin, FlipToKnockout, SettleLeague,
              AdvanceRunning, Delete, RunningStatus, Statuses, Running, Final
<1>3. ASSUME Complete \/ Invalidate
      PROVE  \E status \in Statuses : comp' = [comp EXCEPT !.status = status]
  BY <1>3 DEF Complete, Invalidate, Statuses, Final
<1>4. ASSUME NEW r \in Requests, DrawCommit(r)
      PROVE  comp' \in Settings /\ comp'.format = comp.format
  BY <1>4 DEF DrawCommit, Statuses
<1>5. ASSUME NEW r \in Requests, DiscardCommit(r)
      PROVE  comp' \in Settings /\ comp'.format = comp.format
  <2>1. comp' = comp \/ comp' = [comp EXCEPT !.status = "setup", !.round = 0]
    BY <1>5 DEF DiscardCommit
  <2>2. "setup" \in Statuses
    BY DEF Statuses
  <2>3. [comp EXCEPT !.status = "setup", !.round = 0] \in Settings
    BY <2>2
  <2> QED
    BY <2>1, <2>3
<1>6. ASSUME NEW r \in Requests, AdvanceBump(r)
      PROVE  comp' \in Settings /\ comp'.format = comp.format
  <2>1. req[r].next \in Nat
    BY <1>6, RoundTurns DEF Rounds
  <2> QED
    BY <1>6, <2>1 DEF AdvanceBump
<1>7. ASSUME PutRules \/ PutSwissRounds
      PROVE  comp' \in Settings /\ comp'.format = comp.format
  <2>1. 1 .. MaxRounds \subseteq Nat
    BY DrawsAssumption
  <2> QED
    BY <1>7, <2>1 DEF PutRules, PutSwissRounds
<1> QED
  BY <1>1, <1>2, <1>3, <1>4, <1>5, <1>6, <1>7, CompMoves

LEMMA RosterIs ==
  ASSUME Stored, Asked, Next
  PROVE  roster' \in Rosters /\ NoneOlder(roster, roster')
BY RosterMoves DEF Stored, Rosters, NoneOlder, RosterSave, Rename, AddParticipant

LEMMA TagIs ==
  ASSUME NEW q \in Writings
  PROVE  Tag(q.rules, q.read) \in AnyTag
BY DEF Tag, Writings, Rosters, AnyTag

LEMMA RenamedIs ==
  ASSUME NEW tag \in AnyTag \cup {NoFile}, NEW n \in Nat
  PROVE  /\ Renamed(tag, n) \in AnyTag \cup {NoFile}
         /\ Renamed(tag, n) = NoFile <=> tag = NoFile
         /\ tag # NoFile => /\ Renamed(tag, n) \in AnyTag /\ Renamed(tag, n).rules = tag.rules
                            /\ Renamed(tag, n).entries = tag.entries /\ Renamed(tag, n).names = n
BY DEF Renamed, AnyTag, NoFile

LEMMA TagsAre ==
  ASSUME Stored, Asked, Next
  PROVE  pools' \in AnyTag \cup {NoFile} /\ drawn' \in AnyTag \cup {NoFile}
<1>1. ASSUME NEW r \in Requests, DrawPools(r) \/ DrawMatches(r)
      PROVE  Tag(req[r].rules, req[r].read) \in AnyTag
  BY <1>1, WriteTurns, TagIs
<1>2. ASSUME NEW r \in Requests, ReplaceParticipantInDraw(r)
      PROVE  req[r].names \in Nat
  BY <1>2, Places DEF ReplaceParticipantInDraw, On, Renames
<1>0. pools \in AnyTag \cup {NoFile} /\ drawn \in AnyTag \cup {NoFile}
  BY DEF Stored
<1>3. pools' \in AnyTag \cup {NoFile}
  <2>1. ASSUME NEW r \in Requests, ReplaceParticipantInDraw(r)
        PROVE  pools' \in AnyTag \cup {NoFile}
    BY ZenonT(40), <1>0, <1>2, <2>1, RenamedIs DEF ReplaceParticipantInDraw, files
  <2>2. ASSUME NEW r \in Requests, DrawPools(r)
        PROVE  pools' \in AnyTag \cup {NoFile}
    BY <1>0, <1>1, <2>2 DEF DrawPools
  <2> QED
    BY <1>0, <2>1, <2>2, PoolsMoves DEF DiscardFile, Delete
<1>4. drawn' \in AnyTag \cup {NoFile}
  BY <1>0, <1>1, <1>2, RenamedIs, DrawnMoves
     DEF DrawMatches, DiscardFile, ReplaceParticipantInDraw, Delete, files, rows
<1> QED
  BY <1>3, <1>4

LEMMA BracketIs ==
  ASSUME Stored, Asked, Next
  PROVE  bracket' \in Trees \cup {NoFile}
<1>1. ASSUME NEW r \in Requests, DrawBracket(r)
      PROVE  bracket' \in Trees \cup {NoFile}
  <2>1. Tag(req[r].rules, req[r].read) \in AnyTag
    BY <1>1, WriteTurns, TagIs
  <2> QED
    BY <1>1, <2>1 DEF DrawBracket, NewBracket, Stored, Trees
<1>2. ASSUME NEW r \in Requests, ScoreBracket(r) \/ PoolPhase(r)
      PROVE  bracket' \in Trees \cup {NoFile}
  BY <1>2 DEF ScoreBracket, PoolPhase, Stored, Trees
<1>3. ASSUME NEW r \in Requests, ReplaceParticipantInDraw(r)
      PROVE  bracket' \in Trees \cup {NoFile}
  <2>1. req[r].names \in Nat
    BY <1>3, Places DEF ReplaceParticipantInDraw, On, Renames
  <2>2. bracket # NoFile => Renamed(bracket.of, req[r].names) \in AnyTag
    <3>1. ASSUME bracket # NoFile
          PROVE  bracket.of \in AnyTag /\ bracket.of # NoFile
      <4>1. bracket \in Trees
        BY <3>1 DEF Stored
      <4> QED
        BY <4>1 DEF Trees, AnyTag, NoFile
    <3> QED
      BY <2>1, <3>1, RenamedIs
  <2> QED
    BY <1>3, <2>2 DEF ReplaceParticipantInDraw, files, Stored, Trees
<1> QED
  BY <1>1, <1>2, <1>3, BracketMoves DEF Stored, DiscardFile, Delete

\* A round's rows are kept by every write of the rows but a draw, a discard,
\* and a deletion.
LEMMA RowsAre ==
  ASSUME Stored, Asked, Next
  PROVE  matches' \in Seq(MatchRows)
<1>1. ASSUME NEW r \in Requests, DrawMatches(r)
      PROVE  matches' \in Seq(MatchRows)
  BY <1>1 DEF DrawMatches, Row, MatchRows
<1>2. ASSUME NEW r \in Requests, Score(r) \/ Undo(r)
      PROVE  matches' \in Seq(MatchRows)
  <2>1. PICK i \in DOMAIN matches, done \in BOOLEAN, pending \in BOOLEAN :
             matches' = [matches EXCEPT ![i].done = done, ![i].pending = pending]
    BY <1>2 DEF Score, Undo
  <2>2. matches[i] \in MatchRows
    BY DEF Stored
  <2>3. [matches[i] EXCEPT !.done = done, !.pending = pending] \in MatchRows
    BY <2>2 DEF MatchRows
  <2>4. matches' = [matches EXCEPT ![i] = [matches[i] EXCEPT !.done = done, !.pending = pending]]
    BY <2>1, <2>2 DEF Stored
  <2> QED
    BY <2>3, <2>4 DEF Stored
<1>3. ASSUME NEW r \in Requests, AdvanceAppend(r)
      PROVE  matches' \in Seq(MatchRows)
  <2>1. Row(req[r].next) \in MatchRows
    BY <1>3, RoundTurns DEF Rounds, Row, MatchRows
  <2> QED
    BY <1>3, <2>1, AppendProperties DEF AdvanceAppend, Stored
<1>4. <<>> \in Seq(MatchRows)
  OBVIOUS
<1> QED
  BY <1>1, <1>2, <1>3, <1>4, MatchesMoves DEF Stored, DiscardFile, Delete, rows

LEMMA SavesMove ==
  ASSUME Next
  PROVE  \/ saves' = saves
         \/ saves' = saves + 1
BY ZenonT(40) DEF Next, DrawSteps, MatchSteps, DeskSteps, Save, GenerateDraw, DrawSnapshot, DrawRoster,
       DrawRefused, DrawPools, DrawMatches, DrawBracket, DrawCommit, DrawConflict, StartPending,
       TransitionDrawToRunning, DiscardCheck, DiscardFile, DiscardCommit, Score, Undo,
       ScoreBracket, AutoLoad, AutoResult, StartIfDrawReady, AutoReload, PoolPhase,
       FlipToKnockout, SettleLeague, AdvanceLoad, AdvanceCurrent, AdvancePair, AdvanceAppend,
       AdvanceBump, AdvanceRunning, RosterCheck, RosterSave, Rename, ReplaceParticipantInDraw,
       DeleteCheck, Delete, NotFound, PutRules, PutSwissRounds, AddParticipant, Complete, Invalidate

LEMMA StoredStep ==
  ASSUME Stored, Asked, Next
  PROVE  Stored'
BY CompIs, RosterIs, TagsAre, BracketIs, RowsAre, SavesMove DEF Stored

-----------------------------------------------------------------------------
\* The checks after a match write, and the rows.

AfterWrite == {"auto", "result", "autostart"}
OnTheWay(x) == req[x].op = "score" /\ req[x].at \in AfterWrite
LookAt == {"phase", "flip", "settle"}

LEMMA OtherChecks ==
  ASSUME Asked, Stored, NEW r \in Requests, DrawSteps(r) \/ MatchSteps(r) \/ DeskSteps(r)
  PROVE  \/ AutoLoad(r) \/ AutoResult(r) \/ StartIfDrawReady(r) \/ AutoReload(r) \/ PoolPhase(r)
         \/ NotFound(r) \/ (~OnTheWay(r) /\ req'[r].at \notin LookAt)
<1> DEFINE Seen == ~OnTheWay(r)
           Late == req'[r].at \notin LookAt
<1> USE DEF AfterWrite, OnTheWay, LookAt
<1>1. GenerateDraw(r) \/ DrawSnapshot(r) \/ DrawRoster(r) => Seen /\ Late
  BY DrawTurns DEF NewDraws, Reads, Writings, Idle
<1>2. DrawPools(r) \/ DrawMatches(r) \/ DrawBracket(r) => Seen /\ Late
  BY WriteTurns DEF Writings
<1>3. DrawRefused(r) \/ DrawCommit(r) \/ DrawConflict(r) => Seen /\ Late
  BY EndTurns DEF Writings, Starts, Idle
<1>4. DiscardCheck(r) \/ DiscardFile(r) \/ DiscardCommit(r) => Seen
  BY DiscardTurns DEF Idle
<1>5. DiscardCheck(r) \/ DiscardFile(r) \/ DiscardCommit(r) => Late
  <2>1. DiscardFile(r) => req[r] \in Discards
    BY Places, DiscardTurns
  <2> QED
    BY <2>1 DEF DiscardCheck, DiscardFile, DiscardCommit, Idle, Asked, Discards
<1>6. AdvanceLoad(r) \/ AdvanceCurrent(r) \/ AdvancePair(r) \/ AdvanceAppend(r) \/ AdvanceBump(r) \/ AdvanceRunning(r) =>
        Seen /\ Late
  BY RoundTurns DEF Idle, Rounds
<1>7. Rename(r) \/ ReplaceParticipantInDraw(r) => Seen
  BY RenameTurns DEF Idle
<1>8. Rename(r) => Late
  BY Places DEF Rename, Free, GoWith, Asked, Idle
<1>9. ReplaceParticipantInDraw(r) => Late
  BY RenameTurns DEF Idle
<1>10. StartPending(r) \/ Score(r) \/ Undo(r) \/ ScoreBracket(r) \/ RosterCheck(r) \/ DeleteCheck(r) => Seen /\ Late
  <2>1. ASSUME StartPending(r) \/ Score(r) \/ Undo(r) \/ ScoreBracket(r) \/ RosterCheck(r) \/ DeleteCheck(r)
        PROVE  /\ req[r] = Idle
               /\ \/ GoWith(r, [op |-> "start", at |-> "transition"])
                  \/ \E p \in BOOLEAN : GoWith(r, [op |-> "score", at |-> "auto", pools |-> p])
                  \/ GoWith(r, [op |-> "roster", at |-> "save"])
                  \/ GoWith(r, [op |-> "delete", at |-> "delete"])
    BY <2>1, Places DEF StartPending, Score, Undo, ScoreBracket, RosterCheck, DeleteCheck, Free
  <2> QED
    BY <2>1 DEF GoWith, Asked, Idle
<1>11. TransitionDrawToRunning(r) \/ FlipToKnockout(r) \/ SettleLeague(r) \/ RosterSave(r) \/ Delete(r) => Seen /\ Late
  <2>1. ASSUME TransitionDrawToRunning(r) \/ FlipToKnockout(r) \/ SettleLeague(r) \/ RosterSave(r) \/ Delete(r)
        PROVE  /\ req[r].at \in {"transition", "flip", "settle", "save", "delete"}
               /\ req'[r] = Idle \/ req'[r] = [op |-> "score", at |-> "auto", pools |-> TRUE]
    BY <2>1 DEF TransitionDrawToRunning, FlipToKnockout, SettleLeague, RosterSave, Delete, On, At, GoWith, End, Asked
  <2> QED
    BY <2>1 DEF Idle
<1> HIDE DEF Seen, Late
<1>12. DrawSteps(r) \/ MatchSteps(r) \/ DeskSteps(r) =>
       \/ GenerateDraw(r) \/ DrawSnapshot(r) \/ DrawRoster(r)
       \/ DrawPools(r) \/ DrawMatches(r) \/ DrawBracket(r)
       \/ DrawRefused(r) \/ DrawCommit(r) \/ DrawConflict(r)
       \/ DiscardCheck(r) \/ DiscardFile(r) \/ DiscardCommit(r)
       \/ AdvanceLoad(r) \/ AdvanceCurrent(r) \/ AdvancePair(r) \/ AdvanceAppend(r)
       \/ AdvanceBump(r) \/ AdvanceRunning(r) \/ Rename(r) \/ ReplaceParticipantInDraw(r)
       \/ StartPending(r) \/ Score(r) \/ Undo(r) \/ ScoreBracket(r) \/ RosterCheck(r) \/ DeleteCheck(r)
       \/ TransitionDrawToRunning(r) \/ FlipToKnockout(r) \/ SettleLeague(r) \/ RosterSave(r) \/ Delete(r)
       \/ AutoLoad(r) \/ AutoResult(r) \/ StartIfDrawReady(r) \/ AutoReload(r) \/ PoolPhase(r)
       \/ NotFound(r)
  BY DEF DrawSteps, MatchSteps, DeskSteps
<1>13. \/ AutoLoad(r) \/ AutoResult(r) \/ StartIfDrawReady(r) \/ AutoReload(r) \/ PoolPhase(r)
       \/ NotFound(r) \/ (Seen /\ Late)
  BY <1>1, <1>2, <1>3, <1>4, <1>5, <1>6, <1>7, <1>8, <1>9, <1>10, <1>11, <1>12
<1> HIDE DEF AfterWrite, OnTheWay, LookAt
<1> QED
  BY <1>13 DEF Seen, Late

LEMMA LooksMove ==
  ASSUME Asked, Stored, Next
  PROVE  \/ \A x \in Requests : req'[x].at \in LookAt => req'[x] = req[x]
         \/ \E r \in Requests : AutoLoad(r) \/ AutoResult(r) \/ AutoReload(r) \/ PoolPhase(r)
<1>1. CASE PutRules \/ PutSwissRounds \/ AddParticipant \/ Complete \/ Invalidate
  BY <1>1 DEF PutRules, PutSwissRounds, AddParticipant, Complete, Invalidate
<1>2. ASSUME NEW r \in Requests, NotFound(r)
      PROVE  req'[r].at \notin LookAt
  BY <1>2, Ending DEF NotFound, Idle, LookAt
<1>3. ASSUME NEW r \in Requests, StartIfDrawReady(r)
      PROVE  req'[r].at \notin LookAt
  <2>1. req[r] \in Checks /\ req[r] # Idle
    BY <1>3, Places DEF StartIfDrawReady, On, At, Checks, Idle
  <2>2. Go(r, "reload")
    BY <1>3 DEF StartIfDrawReady
  <2>3. req'[r].at = "reload"
    BY <2>1, <2>2, Going
  <2> QED
    BY <2>3 DEF LookAt
<1>4. ASSUME NEW r \in Requests, DrawSteps(r) \/ MatchSteps(r) \/ DeskSteps(r)
      PROVE  \/ AutoLoad(r) \/ AutoResult(r) \/ AutoReload(r) \/ PoolPhase(r)
             \/ \A x \in Requests : req'[x].at \in LookAt => req'[x] = req[x]
  BY <1>2, <1>3, <1>4, OneMoves, OtherChecks
<1> QED
  BY <1>1, <1>4 DEF Next

LEMMA ChecksMove ==
  ASSUME Asked, Stored, Next
  PROVE  \/ \A x \in Requests : OnTheWay(x) => req'[x] = req[x]
         \/ \E r \in Requests : AutoLoad(r) \/ AutoResult(r) \/ StartIfDrawReady(r) \/ NotFound(r)
<1>1. CASE PutRules \/ PutSwissRounds \/ AddParticipant \/ Complete \/ Invalidate
  BY <1>1 DEF PutRules, PutSwissRounds, AddParticipant, Complete, Invalidate
<1>2. ASSUME NEW r \in Requests, AutoReload(r) \/ PoolPhase(r)
      PROVE  ~OnTheWay(r)
  BY <1>2 DEF AutoReload, PoolPhase, On, At, OnTheWay, AfterWrite
<1>3. ASSUME NEW r \in Requests, DrawSteps(r) \/ MatchSteps(r) \/ DeskSteps(r)
      PROVE  \/ AutoLoad(r) \/ AutoResult(r) \/ StartIfDrawReady(r) \/ NotFound(r)
             \/ \A x \in Requests : OnTheWay(x) => req'[x] = req[x]
  BY <1>2, <1>3, OneMoves, OtherChecks
<1> QED
  BY <1>1, <1>3 DEF Next

RowSet(i, done, pending) ==
  /\ i \in DOMAIN matches /\ DOMAIN matches' = DOMAIN matches
  /\ \A k \in DOMAIN matches \ {i} : matches'[k] = matches[k]
  /\ matches'[i].round = matches[i].round
  /\ matches'[i].done = done /\ matches'[i].pending = pending

LEMMA OneRow ==
  ASSUME Stored, NEW i \in DOMAIN matches, NEW done \in BOOLEAN, NEW pending \in BOOLEAN,
         matches' = [matches EXCEPT ![i].done = done, ![i].pending = pending]
  PROVE  RowSet(i, done, pending)
<1>1. matches[i] \in MatchRows
  BY DEF Stored
<1>2. matches'[i] = [matches[i] EXCEPT !.done = done, !.pending = pending]
  BY <1>1 DEF Stored
<1> QED
  BY <1>1, <1>2 DEF MatchRows, RowSet

LEMMA ScoreIs ==
  ASSUME Stored, NEW r \in Requests, Score(r)
  PROVE  \E i \in DOMAIN matches : RowSet(i, TRUE, comp.status = "draw-ready")
BY OneRow DEF Score

LEMMA UndoIs ==
  ASSUME Stored, NEW r \in Requests, Undo(r)
  PROVE  \E i \in DOMAIN matches : RowSet(i, FALSE, FALSE)
BY OneRow DEF Undo

LEMMA AppendIs ==
  ASSUME Stored, Asked, NEW r \in Requests, AdvanceAppend(r)
  PROVE  /\ matches' # <<>>
         /\ \A i \in DOMAIN matches : i \in DOMAIN matches' /\ matches'[i] = matches[i]
         /\ DOMAIN matches' = DOMAIN matches \cup {Len(matches) + 1}
         /\ matches'[Len(matches) + 1] = Row(req[r].next)
<1>1. matches' = Append(matches, Row(req[r].next))
  BY DEF AdvanceAppend
<1>2. matches \in Seq(MatchRows) /\ Row(req[r].next) \in MatchRows
  BY RoundTurns DEF Rounds, Row, MatchRows, Stored
<1> QED
  BY <1>1, <1>2, AppendProperties

LEMMA NewRowIs ==
  ASSUME Stored, Asked, NEW r \in Requests, AdvanceAppend(r)
  PROVE  LET row == matches'[Len(matches) + 1] IN row.round = req[r].next /\ row.done = FALSE /\ row.pending = FALSE
<1>1. matches'[Len(matches) + 1] = Row(req[r].next)
  BY AppendIs
<1> QED
  BY <1>1 DEF Row

LEMMA DrawnIs ==
  ASSUME NEW r \in Requests, DrawMatches(r)
  PROVE  /\ matches' # <<>> /\ DOMAIN matches' = {1}
         /\ matches'[1] = Row(IF comp.format = "swiss" THEN 1 ELSE 0)
BY DEF DrawMatches

LEMMA BracketDrawn ==
  ASSUME NEW r \in Requests, DrawBracket(r)
  PROVE  /\ comp.format = "knockout" =>
              bracket' = NewBracket(Tag(req[r].rules, req[r].read), TRUE)
         /\ comp.format # "knockout" /\ pools = NoFile => bracket' = bracket
         /\ comp.format # "knockout" /\ pools # NoFile => bracket' = NewBracket(pools, FALSE)
BY DEF DrawBracket

\* Rows are written over, and rounds lost, only by a draw, a discard and a deletion.
LEMMA RowsKeep ==
  ASSUME Stored, Asked, Next
  PROVE  \/ \E r \in Requests : DrawMatches(r) \/ DiscardFile(r) \/ Delete(r)
         \/ \A i \in DOMAIN matches : i \in DOMAIN matches' /\ matches'[i].round = matches[i].round
BY ScoreIs, UndoIs, AppendIs, MatchesMoves DEF RowSet

LEMMA RoundsKeep ==
  ASSUME Stored, Asked, Next
  PROVE  \/ \E r \in Requests : DrawMatches(r) \/ DiscardFile(r) \/ Delete(r)
         \/ /\ \A n : OfRound(n) # {} => (OfRound(n))' # {}
            /\ matches # <<>> => matches' # <<>>
<1>1. CASE \A i \in DOMAIN matches : i \in DOMAIN matches' /\ matches'[i].round = matches[i].round
  <2>1. \A n : OfRound(n) # {} => (OfRound(n))' # {}
    BY <1>1 DEF OfRound
  <2>2. matches # <<>> => 1 \in DOMAIN matches
    BY DEF Stored
  <2>3. \A i : i \in DOMAIN matches' => matches' # <<>>
    OBVIOUS
  <2> QED
    BY <1>1, <2>1, <2>2, <2>3
<1> QED
  BY <1>1, RowsKeep

-----------------------------------------------------------------------------
\* Each part of the invariant is kept by every step.

Typed == Stored /\ Asked

LEMMA TypedStep ==
  ASSUME Typed, Next
  PROVE  Typed'
BY StoredStep, AskedStep DEF Typed

LEMMA FormatFitsStep ==
  ASSUME Typed, FormatFits, Next
  PROVE  FormatFits'
<1>1. Stored /\ Asked /\ Asked' /\ comp'.format = comp.format
  BY TypedStep, CompIs DEF Typed
<1>2. comp.format # "swiss" => comp'.round = 0
  <2>1. \A r \in Requests : AdvanceBump(r) \/ AdvanceRunning(r) => req[r].op = "advance"
    BY <1>1, RoundTurns DEF Rounds
  <2>2. comp \in Settings
    BY <1>1 DEF Stored
  <2> QED
    BY <2>1, <2>2, CompMoves
       DEF FormatFits, Settings, DrawCommit, TransitionDrawToRunning, Begin, DiscardCommit, StartIfDrawReady,
           FlipToKnockout, SettleLeague, Delete, PutRules, PutSwissRounds, Complete, Invalidate
<1>3. comp.format # "swiss" => \A x \in Requests : req'[x].op # "advance"
  <2>1. \A r \in Requests : AdvanceLoad(r) => comp.format = "swiss"
    BY DEF AdvanceLoad
  <2>2. \A r \in Requests :
          \/ AdvanceCurrent(r) \/ AdvancePair(r) \/ AdvanceAppend(r) \/ AdvanceBump(r) \/ AdvanceRunning(r)
          => req[r].op = "advance"
    BY <1>1, RoundTurns DEF Rounds
  <2>3. \A r \in Requests : NotFound(r) => \A x \in Requests : req'[x] = req[x] \/ req'[x] = Idle
    BY <1>1, Ending DEF NotFound
  <2> QED
    BY <1>1, <2>1, <2>2, <2>3, RoundsMove DEF FormatFits, Idle
<1>4. comp.format = "knockout" => matches' = <<>>
  <2>1. \A r \in Requests : DrawMatches(r) => HasMatches
    BY DEF FormatFits, DrawMatches, On
  <2>2. \A r \in Requests : AdvanceAppend(r) => comp.format = "swiss"
    BY <1>1, RoundTurns DEF FormatFits, Rounds
  <2>3. \A r \in Requests : Score(r) \/ Undo(r) => matches # <<>>
    <3>1. \A r \in Requests : Score(r) \/ Undo(r) => \E i \in DOMAIN matches : TRUE
      BY <1>1, ScoreIs, UndoIs
    <3> QED
      BY <3>1
  <2> QED
    BY <1>1, <2>1, <2>2, <2>3, MatchesMoves DEF FormatFits, HasMatches, DiscardFile, Delete, rows
<1>5. ~HasBracket => bracket' = NoFile
  <2>1. \A r \in Requests : DrawBracket(r) => HasBracket
    BY DEF FormatFits, DrawBracket, On
  <2> QED
    BY <2>1, BracketMoves DEF FormatFits, DiscardFile, ScoreBracket, PoolPhase, ReplaceParticipantInDraw, Delete, files
<1>6. ASSUME NEW x \in Requests, req'[x].at \in {"rows", "tree"}
      PROVE  /\ req'[x].at = "rows" => HasMatches
             /\ req'[x].at = "tree" => HasBracket
  <2>1. req'[x].op \in Draws
    <3>1. req'[x] \in Writings
      <4>1. req'[x] \in Shapes
        BY <1>1 DEF Asked
      <4> QED
        BY <4>1, <1>6 DEF Shapes, Idle, NewDraws, Reads, Writings, Starts, Discards, Checks, Looks, Rounds,
              RosterSaves, Renames, Deletes
    <3> QED
      BY <3>1 DEF Writings
  <2>2. CASE req'[x] = req[x]
    BY <2>2, <1>6 DEF FormatFits, At
  <2>3. ASSUME NEW r \in Requests, GenerateDraw(r) \/ DrawSnapshot(r) \/ DrawRoster(r), x = r
        PROVE  FALSE
    BY <1>1, <1>6, <2>3, DrawTurns DEF NewDraws, Reads
  <2>4. ASSUME NEW r \in Requests, DrawPools(r) \/ DrawMatches(r) \/ DrawBracket(r), x = r
        PROVE  /\ req'[x].at = "rows" => HasMatches
               /\ req'[x].at = "tree" => HasBracket
    BY <1>1, <1>6, <2>4, WriteTurns DEF HasMatches, HasBracket
  <2>5. ASSUME NEW r \in Requests, r # x,
               GenerateDraw(r) \/ DrawSnapshot(r) \/ DrawRoster(r) \/ DrawPools(r) \/ DrawMatches(r) \/ DrawBracket(r)
        PROVE  req'[x] = req[x]
    BY <1>1, <2>5, OneMoves DEF DrawSteps
  <2> QED
    BY <1>1, <2>1, <2>2, <2>3, <2>4, <2>5, DrawsMoves
<1>7. ASSUME NEW x \in Requests, req'[x].at = "settle"
      PROVE  comp.format = "league"
  <2>1. CASE req'[x] = req[x]
    BY <2>1, <1>7 DEF FormatFits, At
  <2>2. ASSUME NEW r \in Requests, AutoLoad(r) \/ AutoResult(r) \/ AutoReload(r)
        PROVE  req'[r].at # "settle"
    <3>1. req[r] \in Checks
      BY <1>1, <2>2, Places DEF AutoLoad, AutoResult, AutoReload, On, At
    <3> QED
      BY <1>1, <2>2, <3>1 DEF AutoLoad, AutoResult, AutoReload, GoWith, Asked, Checks
  <2>3. ASSUME NEW r \in Requests, PoolPhase(r), req'[r].at = "settle"
        PROVE  comp.format = "league"
    <3>1. req[r] \in Looks /\ req[r] # Idle
      BY <1>1, <2>3, Places DEF PoolPhase, On, At, Looks, Idle
    <3>2. Go(r, "flip") \/ End(r) => req'[r].at # "settle"
      <4>1. Go(r, "flip") => req'[r].at = "flip"
        BY <1>1, <3>1, Going
      <4>2. End(r) => req'[r].at = "idle"
        BY <1>1, Ending DEF Idle
      <4> QED
        BY <4>1, <4>2
    <3> QED
      BY <2>3, <3>2 DEF PoolPhase
  <2>4. ASSUME NEW r \in Requests, r # x, AutoLoad(r) \/ AutoResult(r) \/ AutoReload(r) \/ PoolPhase(r)
        PROVE  req'[x] = req[x]
    BY <1>1, <2>4, OneMoves DEF MatchSteps
  <2> QED
    BY <1>1, <1>7, <2>1, <2>2, <2>3, <2>4, LooksMove DEF LookAt
<1> QED
  BY <1>1, <1>2, <1>3, <1>4, <1>5, <1>6, <1>7 DEF FormatFits, HasMatches, HasBracket, At

\* A request of a draw, or of a Swiss round, is where it was or takes a step of its own.
LEMMA DrawNow ==
  ASSUME Typed, Next, NEW x \in Requests, req'[x].op \in Draws
  PROVE  \/ req'[x] = req[x]
         \/ GenerateDraw(x) \/ DrawSnapshot(x) \/ DrawRoster(x)
         \/ DrawPools(x) \/ DrawMatches(x) \/ DrawBracket(x)
<1>1. ASSUME NEW r \in Requests, r # x,
             GenerateDraw(r) \/ DrawSnapshot(r) \/ DrawRoster(r) \/ DrawPools(r) \/ DrawMatches(r) \/ DrawBracket(r)
      PROVE  req'[x] = req[x]
  BY <1>1, OneMoves DEF DrawSteps, Typed
<1> QED
  BY <1>1, DrawsMoves DEF Typed

LEMMA RoundNow ==
  ASSUME Typed, Next, NEW x \in Requests, req[x].op = "advance" \/ req'[x].op = "advance"
  PROVE  \/ req'[x] = req[x]
         \/ AdvanceLoad(x) \/ AdvanceCurrent(x) \/ AdvancePair(x) \/ AdvanceAppend(x)
         \/ AdvanceBump(x) \/ AdvanceRunning(x) \/ NotFound(x)
<1>1. ASSUME NEW r \in Requests, r # x,
             \/ AdvanceLoad(r) \/ AdvanceCurrent(r) \/ AdvancePair(r) \/ AdvanceAppend(r)
             \/ AdvanceBump(r) \/ AdvanceRunning(r) \/ NotFound(r)
      PROVE  req'[x] = req[x]
  BY <1>1, OneMoves DEF MatchSteps, DeskSteps, Typed
<1> QED
  BY <1>1, RoundsMove DEF Typed

\* Where the status and the Swiss round go.
LEMMA StatusGoes ==
  ASSUME Typed, Next
  PROVE  \/ comp'.status = comp.status
         \/ \E r \in Requests :
              \/ DrawCommit(r) /\ comp.status = "setup" /\ comp'.status = "draw-ready"
              \/ /\ TransitionDrawToRunning(r) \/ StartIfDrawReady(r)
                 /\ comp.status = "draw-ready" /\ Begin(r)
              \/ DiscardCommit(r) /\ comp.status = "draw-ready" /\ comp'.status = "setup"
              \/ FlipToKnockout(r) /\ comp.status = "pools" /\ comp'.status = "knockout"
              \/ SettleLeague(r) /\ comp.status = "pools" /\ comp'.status = "completed" /\ AllDone(matches)
              \/ AdvanceRunning(r) /\ comp.status = "setup" /\ comp'.status = "pools"
              \/ Delete(r) /\ comp.status # "gone" /\ comp'.status = "gone"
         \/ Complete /\ comp.status \in Running /\ comp'.status = "completed" /\ Settled
         \/ Invalidate /\ comp.status \in Running /\ comp'.status = "invalid"
<1>1. comp \in Settings
  BY DEF Typed, Stored
<1> DEFINE To(status) == comp' = [comp EXCEPT !.status = status]
<1>2. \A status : To(status) => comp'.status = status
  BY <1>1 DEF Settings
<1>3. ASSUME NEW r \in Requests, DrawCommit(r)
      PROVE  comp.status = "setup" /\ comp'.status = "draw-ready"
  BY <1>1, <1>3 DEF DrawCommit, CommitMatches, Settings
<1>4. ASSUME NEW r \in Requests, DiscardCommit(r)
      PROVE  comp'.status = comp.status \/ (comp.status = "draw-ready" /\ comp'.status = "setup")
  BY <1>1, <1>4 DEF DiscardCommit, Settings
<1>5. ASSUME NEW r \in Requests, FlipToKnockout(r)
      PROVE  comp' = comp \/ (comp.status = "pools" /\ To("knockout"))
  BY <1>5 DEF FlipToKnockout
<1>6. ASSUME NEW r \in Requests, SettleLeague(r)
      PROVE  comp' = comp \/ (comp.status = "pools" /\ AllDone(matches) /\ To("completed"))
  BY <1>6 DEF SettleLeague
<1>7. ASSUME NEW r \in Requests, AdvanceBump(r)
      PROVE  comp'.status = comp.status
  BY <1>1, <1>7 DEF AdvanceBump, Settings
<1>8. ASSUME NEW r \in Requests, AdvanceRunning(r)
      PROVE  comp' = comp \/ (comp.status = "setup" /\ To("pools"))
  BY <1>8 DEF AdvanceRunning
<1>9. ASSUME NEW r \in Requests, Delete(r)
      PROVE  comp.status # "gone" /\ To("gone")
  BY <1>9 DEF Delete, On
<1>10. ASSUME PutRules \/ PutSwissRounds
      PROVE  comp'.status = comp.status
  BY <1>1, <1>10 DEF PutRules, PutSwissRounds, Settings
<1>11. Complete => comp.status \in Running /\ To("completed") /\ Settled
  BY DEF Complete
<1>12. Invalidate => comp.status \in Running /\ To("invalid")
  BY DEF Invalidate
<1>13. ASSUME NEW r \in Requests, TransitionDrawToRunning(r) \/ StartIfDrawReady(r)
      PROVE  comp' = comp \/ (comp.status = "draw-ready" /\ Begin(r))
  BY <1>13 DEF TransitionDrawToRunning, StartIfDrawReady
<1> HIDE DEF To
<1> QED
  BY <1>2, <1>3, <1>4, <1>5, <1>6, <1>7, <1>8, <1>9, <1>10, <1>11, <1>12, <1>13, CompMoves

LEMMA BeginIs ==
  ASSUME Stored, NEW r, Begin(r)
  PROVE  comp'.status = RunningStatus(comp.format) /\ comp'.round = comp.round
BY DEF Begin, Stored, Settings

LEMMA RoundGoes ==
  ASSUME Typed, Next
  PROVE  \/ comp'.round = comp.round
         \/ \E r \in Requests :
              \/ DrawCommit(r) /\ comp.format = "swiss" /\ comp'.round = 1
              \/ DiscardCommit(r) /\ comp.status = "draw-ready" /\ comp'.round = 0
              \/ AdvanceBump(r) /\ comp.round < req[r].next /\ comp'.round = req[r].next
<1>1. comp \in Settings
  BY DEF Typed, Stored
<1>2. ASSUME NEW r \in Requests, AdvanceBump(r)
      PROVE  comp'.round = comp.round \/ (comp.round < req[r].next /\ comp'.round = req[r].next)
  BY <1>1, <1>2 DEF AdvanceBump, Settings
<1>3. ASSUME NEW r \in Requests, DiscardCommit(r)
      PROVE  comp'.round = comp.round \/ (comp.status = "draw-ready" /\ comp'.round = 0)
  BY <1>1, <1>3 DEF DiscardCommit, Settings
<1>4. ASSUME NEW r \in Requests, DrawCommit(r)
      PROVE  comp'.round = comp.round \/ (comp.format = "swiss" /\ comp'.round = 1)
  BY <1>1, <1>4 DEF DrawCommit, Settings
<1> QED
  BY <1>1, <1>2, <1>3, <1>4, CompMoves
     DEF Settings, TransitionDrawToRunning, Begin, StartIfDrawReady, FlipToKnockout, SettleLeague,
         AdvanceRunning, Delete, PutRules, PutSwissRounds, Complete, Invalidate

LEMMA NoneDrawing ==
  ASSUME DrawsAtOnce = 1, Cardinality(Drawing) < DrawsAtOnce
  PROVE  Drawing = {}
<1>1. IsFiniteSet(Drawing)
  BY CompetitionAssumption, FS_Subset DEF Drawing
<1>2. Cardinality(Drawing) = 0
  BY <1>1, FS_CardinalityType
<1> QED
  BY <1>1, <1>2, FS_EmptySet

\* Who draws now drew before, or is the first to draw.
LEMMA DrawingGoes ==
  ASSUME DrawsAtOnce = 1, Typed, FormatFits, Next, NEW x \in Drawing'
  PROVE  \/ x \in Drawing
         \/ Drawing = {} /\ GenerateDraw(x)
         \/ Drawing = {} /\ AdvanceLoad(x) /\ comp.round = 0 /\ comp.format = "swiss"
<1>1. x \in Requests /\ Stored /\ Asked
  BY DEF Drawing, Typed
<1>2. CASE req'[x].op \in Draws
  <2>1. ASSUME \/ req'[x] = req[x] \/ DrawSnapshot(x) \/ DrawRoster(x)
               \/ DrawPools(x) \/ DrawMatches(x) \/ DrawBracket(x)
        PROVE  req[x].op \in Draws
    BY <1>1, <1>2, <2>1, DrawTurns, WriteTurns DEF NewDraws, Reads, Writings
  <2>2. ASSUME GenerateDraw(x)
        PROVE  Drawing = {}
    BY <2>2, NoneDrawing DEF GenerateDraw
  <2> QED
    BY <1>1, <1>2, <2>1, <2>2, DrawNow DEF Drawing, Draws
<1>3. CASE req'[x].op = "advance" /\ req'[x].next = 1
  <2>1. ASSUME \/ req'[x] = req[x] \/ AdvanceCurrent(x) \/ AdvancePair(x)
               \/ AdvanceAppend(x) \/ AdvanceBump(x) \/ AdvanceRunning(x) \/ NotFound(x)
        PROVE  req[x].op = "advance" /\ req[x].next = 1
    <3>1. req'[x] # Idle
      BY <1>3 DEF Idle
    <3>2. ~NotFound(x) /\ ~AdvanceRunning(x)
      BY <1>1, <3>1, Ending DEF NotFound, AdvanceRunning
    <3> QED
      BY <1>1, <1>3, <2>1, <3>1, <3>2, RoundTurns DEF Rounds
  <2>2. ASSUME AdvanceLoad(x)
        PROVE  Drawing = {} /\ comp.round = 0 /\ comp.format = "swiss"
    <3>1. comp.round + 1 = 1
      BY <1>1, <1>3, <2>2, RoundTurns
    <3>2. comp.round = 0
      BY <1>1, <3>1 DEF Stored, Settings
    <3> QED
      BY <2>2, <3>2, NoneDrawing DEF AdvanceLoad
  <2> QED
    BY <1>1, <1>3, <2>1, <2>2, RoundNow DEF Drawing
<1> QED
  BY <1>1, <1>2, <1>3 DEF Drawing, Draws

LEMMA OneDrawStep ==
  ASSUME DrawsAtOnce = 1, Typed, FormatFits, OneDraw, Next
  PROVE  OneDraw'
<1>1. Stored /\ Asked /\ comp \in Settings /\ comp' \in Settings
  BY TypedStep, CompIs DEF Typed, Stored
<1>2. ASSUME NEW x \in Drawing', NEW y \in Drawing', x # y
      PROVE  FALSE
  <2>1. x \in Requests /\ y \in Requests
    BY DEF Drawing
  <2>2. ~(x \in Drawing /\ y \in Drawing)
    BY <1>2 DEF OneDraw
  <2>3. ASSUME NEW u \in Drawing', NEW v \in Drawing', u # v, Drawing = {},
               GenerateDraw(u) \/ AdvanceLoad(u)
        PROVE  FALSE
    <3>1. u \in Requests /\ v \in Requests
      BY DEF Drawing
    <3>2. req'[v] = req[v]
      BY <1>1, <2>3, <3>1, OneMoves DEF DrawSteps, MatchSteps
    <3> QED
      BY <2>3, <3>1, <3>2 DEF Drawing
  <2>4. x \in Drawing \/ (Drawing = {} /\ (GenerateDraw(x) \/ AdvanceLoad(x)))
    BY DrawingGoes
  <2>5. y \in Drawing \/ (Drawing = {} /\ (GenerateDraw(y) \/ AdvanceLoad(y)))
    BY DrawingGoes
  <2> QED
    BY <1>2, <2>2, <2>3, <2>4, <2>5
<1>3. ASSUME comp'.status = "draw-ready", comp.status = "draw-ready"
      PROVE  Drawing' = {} /\ (comp.format = "swiss" => comp'.round > 0)
  <2>1. Drawing = {} /\ (comp.format = "swiss" => comp.round > 0)
    BY <1>3 DEF OneDraw
  <2>2. \A x \in Drawing' : FALSE
    <3>1. ASSUME NEW x \in Drawing'
          PROVE  FALSE
      <4>1. ~GenerateDraw(x)
        BY <1>3 DEF GenerateDraw
      <4> QED
        BY <2>1, <4>1, <1>1, DrawingGoes DEF Settings
    <3> QED
      BY <3>1
  <2>3. \A r : DrawCommit(r) => comp.status = "setup"
    BY DEF DrawCommit, CommitMatches
  <2>4. \A r \in Requests : DiscardCommit(r) /\ comp.status = "draw-ready" => comp'.status = "setup"
    BY <1>1 DEF DiscardCommit, Settings
  <2>5. \A r \in Requests : AdvanceBump(r) => req[r].next \in Nat \ {0}
    BY <1>1, RoundTurns DEF Rounds
  <2>6. comp.format = "swiss" => comp'.round > 0
    BY <1>1, <1>3, <2>1, <2>3, <2>4, <2>5, RoundGoes DEF Settings
  <2> QED
    BY <2>2, <2>6
<1>4. ASSUME NEW r \in Requests, DrawCommit(r)
      PROVE  Drawing' = {} /\ (comp.format = "swiss" => comp'.round > 0)
  <2>1. req[r] \in Writings /\ req'[r] \in Starts \cup {Idle}
    BY <1>1, <1>4, EndTurns
  <2>2. r \in Drawing /\ r \notin Drawing'
    BY <2>1 DEF Drawing, Writings, Draws, Starts, Idle
  <2>3. \A x \in Drawing' : x \in Drawing
    BY <2>2, DrawingGoes
  <2>4. Drawing' = {}
    BY <2>2, <2>3 DEF OneDraw
  <2>5. comp.format = "swiss" => comp'.round = 1
    BY <1>1, <1>4 DEF DrawCommit, Settings
  <2> QED
    BY <2>4, <2>5
<1>5. comp'.status = "draw-ready" => comp.status = "draw-ready" \/ \E r \in Requests : DrawCommit(r)
  BY <1>1, StatusGoes, BeginIs DEF RunningStatus
<1>6. comp'.format = comp.format
  BY <1>1, CompIs
<1> QED
  BY <1>2, <1>3, <1>4, <1>5, <1>6 DEF OneDraw

\* What is held against a draw is forgotten by its discard only.
LEMMA LateGoes ==
  ASSUME Next
  PROVE  \/ late \subseteq late'
         \/ \E r \in Requests : DiscardCommit(r) /\ comp.status = "draw-ready"
BY LateMoves DEF DrawCommit, TransitionDrawToRunning, Begin, DiscardCommit, StartIfDrawReady, AdvanceBump,
                 AdvanceRunning, RosterSave, Rename, ReplaceParticipantInDraw

LEMMA DiscardIs ==
  ASSUME Stored, NEW r \in Requests, DiscardCommit(r), comp.status = "draw-ready"
  PROVE  comp'.status = "setup" /\ comp'.round = 0 /\ late' = {}
BY DEF DiscardCommit, Stored, Settings

\* A step a discard overlapped is held against the draw.
LEMMA OverlapIs ==
  ASSUME NEW r \in Requests, Crossed(r),
         DrawCommit(r) \/ Begin(r) \/ AdvanceBump(r) \/ AdvanceRunning(r)
  PROVE  "discard" \in late'
BY DEF DrawCommit, Begin, AdvanceBump, AdvanceRunning

LEMMA DiscardingGoes ==
  ASSUME Typed, Next
  PROVE  /\ Discarding' # {} => Discarding # {} \/ \E r \in Requests : DiscardCheck(r)
         /\ Discarding # {} /\ Discarding' = {} =>
              comp.status = "gone" \/ \E r \in Requests : DiscardCommit(r)
<1>1. Stored /\ Asked
  BY DEF Typed
<1>2. CASE \A x \in Requests : req[x].op = "discard" \/ req'[x].op = "discard" => req'[x] = req[x]
  BY <1>2 DEF Discarding
<1>3. ASSUME NEW r \in Requests, DiscardFile(r)
      PROVE  Discarding # {} /\ Discarding' # {}
  BY <1>1, <1>3, DiscardTurns DEF Discarding
<1>4. ASSUME NEW r \in Requests, DiscardCheck(r)
      PROVE  Discarding' # {}
  BY <1>1, <1>4, DiscardTurns DEF Discarding
<1>5. ASSUME NEW r \in Requests, DiscardCommit(r)
      PROVE  Discarding # {}
  BY <1>1, <1>5, DiscardTurns DEF Discarding
<1>6. ASSUME NEW r \in Requests, NotFound(r)
      PROVE  comp.status = "gone" /\ Discarding' \subseteq Discarding
  BY <1>1, <1>6, Ending DEF NotFound, Discarding, Idle
<1> QED
  BY <1>1, <1>2, <1>3, <1>4, <1>5, <1>6, DiscardsMove

LEMMA LingeringStep ==
  ASSUME Typed, Lingering, Next
  PROVE  Lingering'
<1> SUFFICES ASSUME Discarding' # {}, "discard" \notin late'
             PROVE  comp'.status \in {"draw-ready", "setup", "gone"}
  BY DEF Lingering
<1>1. Stored
  BY DEF Typed
<1>2. CASE \E r \in Requests : DiscardCheck(r)
  BY <1>2 DEF DiscardCheck
<1>3. CASE Discarding # {} /\ "discard" \in late
  BY <1>1, <1>3, LateGoes, DiscardIs
<1>4. CASE Discarding # {} /\ "discard" \notin late
  <2>1. comp.status \in {"draw-ready", "setup", "gone"}
    BY <1>4 DEF Lingering
  <2>2. \A r \in Requests : Crossed(r)
    BY <1>4 DEF Crossed
  <2>3. \A r \in Requests : ~DrawCommit(r) /\ ~Begin(r) /\ ~AdvanceRunning(r)
    BY <2>2, OverlapIs
  <2> QED
    BY <2>1, <2>3, StatusGoes DEF Running
<1> QED
  BY <1>2, <1>3, <1>4, DiscardingGoes

\* Whoever holds the first round, or is to raise it, holds the only draw.
LEMMA OnlyDraw ==
  ASSUME Typed, OneDraw, NEW x \in Requests, req[x].op \in Draws
  PROVE  /\ \A s \in Requests : Advance(s) => req[s].next # 1
         /\ \A s \in Requests : req[s].op \in Draws => s = x
BY DEF OneDraw, Drawing, Draws, Advance

LEMMA DrawsInSetupStep ==
  ASSUME DrawsAtOnce = 1, Typed, FormatFits, OneDraw, SetupRounds, DrawsInSetup, Next
  PROVE  DrawsInSetup'
<1> SUFFICES ASSUME NEW x \in Requests, req'[x].op \in Draws, "discard" \notin late'
             PROVE  comp'.status \in {"setup", "gone"}
  BY DEF DrawsInSetup
<1>1. Stored /\ Asked
  BY DEF Typed
<1>2. CASE GenerateDraw(x)
  BY <1>2 DEF GenerateDraw
<1>3. CASE "discard" \in late
  BY <1>1, <1>3, LateGoes, DiscardIs
<1>4. CASE ~GenerateDraw(x) /\ "discard" \notin late
  <2>1. req[x].op \in Draws
    BY <1>1, <1>4, DrawNow, DrawTurns, WriteTurns DEF NewDraws, Reads, Writings
  <2>2. comp.status \in {"setup", "gone"}
    BY <1>4, <2>1 DEF DrawsInSetup
  <2>3. ASSUME NEW r \in Requests, DrawCommit(r)
        PROVE  FALSE
    <3>1. req[r] \in Writings /\ req'[r].op \notin Draws
      BY <1>1, <2>3, EndTurns DEF Starts, Idle, Draws
    <3> QED
      BY <2>1, <3>1, OnlyDraw DEF Writings
  <2>4. ASSUME NEW r \in Requests, AdvanceRunning(r), comp.status = "setup"
        PROVE  FALSE
    <3>1. r \notin crossed /\ Discarding = {}
      BY <2>4, OverlapIs DEF Crossed
    <3>2. Advance(r)
      BY <1>1, <2>4, RoundTurns DEF Rounds, Advance
    <3>3. \E s \in Requests : Advance(s) /\ req[s].next = 1
      BY <1>4, <2>4, <3>1, <3>2 DEF SetupRounds, FirstRound
    <3> QED
      BY <2>1, <3>3, OnlyDraw
  <2> QED
    BY <2>2, <2>3, <2>4, StatusGoes DEF Running
<1> QED
  BY <1>2, <1>3, <1>4

\* While a draw is in flight no name is copied into it, and no result recorded
\* is one of a pending draw.
LEMMA WhileDrawing ==
  ASSUME Typed, OneDraw, Next, NEW x \in Requests, req[x].op \in Draws
  PROVE  /\ comp.status # "draw-ready"
         /\ \A r \in Requests : ReplaceParticipantInDraw(r) => UNCHANGED files
         /\ \A r \in Requests : DrawPools(r) \/ DrawMatches(r) \/ DrawBracket(r) => r = x
<1>1. comp.status # "draw-ready"
  BY DEF OneDraw, Drawing, Draws
<1>2. \A r \in Requests : ReplaceParticipantInDraw(r) => UNCHANGED files
  BY <1>1 DEF ReplaceParticipantInDraw, files
<1>3. \A r \in Requests : DrawPools(r) \/ DrawMatches(r) \/ DrawBracket(r) => r = x
  BY OnlyDraw, WriteTurns DEF Typed, Writings
<1> QED
  BY <1>1, <1>2, <1>3

\* What a draw's request becomes.
LEMMA DrawStays ==
  ASSUME Typed, Next, NEW x \in Requests, req'[x].op \in Draws
  PROVE  \/ GenerateDraw(x) /\ req'[x].at = "snapshot"
         \/ /\ DrawSnapshot(x) /\ req'[x].at = "roster" /\ req'[x].stamp = roster /\ roster' = roster
            /\ req[x].op \in Draws
         \/ /\ DrawRoster(x) /\ req'[x].at = "generate" /\ req'[x].stamp = req[x].stamp
            /\ req'[x].read = roster /\ roster' = roster
            /\ req[x].op \in Draws /\ req[x].at = "roster"
         \/ /\ DrawPools(x) \/ DrawMatches(x) \/ DrawBracket(x)
            /\ req[x] \in Writings /\ req'[x] \in Writings /\ (DrawTag(x))' = DrawTag(x)
            /\ req'[x].stamp = req[x].stamp /\ req'[x].read = req[x].read
            /\ req[x].op \in Draws
         \/ /\ req'[x] = req[x] /\ (DrawTag(x))' = DrawTag(x) /\ req[x].op \in Draws
            /\ ~DrawPools(x) /\ ~DrawMatches(x) /\ ~DrawBracket(x)
<1>1. Stored /\ Asked
  BY DEF Typed
<1>2. CASE GenerateDraw(x)
  BY <1>1, <1>2, DrawTurns DEF NewDraws
<1>3. CASE DrawSnapshot(x)
  BY <1>1, <1>3, DrawTurns DEF NewDraws, Reads, DrawSnapshot
<1>4. CASE DrawRoster(x)
  BY <1>1, <1>4, DrawTurns DEF Reads, DrawRoster
<1>5. CASE DrawPools(x) \/ DrawMatches(x) \/ DrawBracket(x)
  BY <1>1, <1>5, WriteTurns DEF Writings, DrawTag
<1>6. CASE req'[x] = req[x] /\ ~(DrawPools(x) \/ DrawMatches(x) \/ DrawBracket(x))
  BY <1>6 DEF DrawTag
<1> QED
  BY <1>2, <1>3, <1>4, <1>5, <1>6, DrawNow

LEMMA FreshRoster ==
  ASSUME Typed, Fresh, Next, NEW x \in Requests
  PROVE  /\ (DrawAt(x, {"roster"}))' => NoneOlder(req'[x].stamp, roster')
         /\ (DrawAt(x, {"generate", "rows", "tree", "commit"}))' =>
              NoneOlder(req'[x].stamp, req'[x].read) /\ NoneOlder(req'[x].read, roster')
<1> SUFFICES ASSUME req'[x].op \in Draws
             PROVE  /\ req'[x].at = "roster" => NoneOlder(req'[x].stamp, roster')
                    /\ req'[x].at \in {"generate", "rows", "tree", "commit"} =>
                         NoneOlder(req'[x].stamp, req'[x].read) /\ NoneOlder(req'[x].read, roster')
  BY DEF DrawAt
<1>1. Stored /\ Asked /\ Asked' /\ roster \in Rosters /\ roster' \in Rosters /\ NoneOlder(roster, roster')
  BY TypedStep, RosterIs DEF Typed, Stored
<1>2. /\ req[x].op \in Draws /\ req[x].at = "roster" => NoneOlder(req[x].stamp, roster)
      /\ req[x].op \in Draws /\ req[x].at \in {"generate", "rows", "tree", "commit"} =>
           NoneOlder(req[x].stamp, req[x].read) /\ NoneOlder(req[x].read, roster)
  BY DEF Fresh, DrawAt
<1>3. \A q \in Rosters : NoneOlder(q, roster) => NoneOlder(q, roster')
  BY <1>1 DEF NoneOlder, Rosters
<1>4. /\ req[x].at = "roster" => req[x].stamp \in Rosters
      /\ req[x].at \in {"generate", "rows", "tree", "commit"} => req[x].read \in Rosters
  BY <1>1, Places DEF At, Reads, Writings
<1>5. CASE GenerateDraw(x) /\ req'[x].at = "snapshot"
  BY <1>5
<1>6. CASE DrawSnapshot(x) /\ req'[x].at = "roster" /\ req'[x].stamp = roster /\ roster' = roster
  BY <1>1, <1>6 DEF NoneOlder, Rosters
<1>7. CASE /\ DrawRoster(x) /\ req'[x].at = "generate" /\ req'[x].stamp = req[x].stamp
           /\ req'[x].read = roster /\ roster' = roster
           /\ req[x].op \in Draws /\ req[x].at = "roster"
  BY <1>1, <1>2, <1>7 DEF NoneOlder, Rosters
<1>8. CASE /\ DrawPools(x) \/ DrawMatches(x) \/ DrawBracket(x)
           /\ req[x] \in Writings /\ req'[x] \in Writings /\ (DrawTag(x))' = DrawTag(x)
           /\ req'[x].stamp = req[x].stamp /\ req'[x].read = req[x].read
           /\ req[x].op \in Draws
  BY <1>2, <1>3, <1>4, <1>8 DEF Writings
<1>9. CASE req'[x] = req[x] /\ req[x].op \in Draws
  BY <1>2, <1>3, <1>4, <1>9
<1> QED
  BY <1>5, <1>6, <1>7, <1>8, <1>9, DrawStays

LEMMA FreshPools ==
  ASSUME Typed, OneDraw, Fresh, Next, HasPools, NEW x \in Requests, (DrawAt(x, {"rows", "tree", "commit"}))'
  PROVE  pools' \in {NoFile, (DrawTag(x))'}
<1>1. Stored /\ Asked
  BY DEF Typed
<1>2. req'[x].op \in Draws /\ req'[x].at \in {"rows", "tree", "commit"}
  BY DEF DrawAt
<1>3. CASE DrawPools(x)
  <2>1. (DrawTag(x))' = DrawTag(x)
    BY <1>1, <1>3, WriteTurns DEF DrawTag
  <2> QED
    BY <1>3, <2>1 DEF DrawPools, DrawTag
<1>4. CASE ~DrawPools(x)
  <2>1. /\ req[x].op \in Draws /\ req[x].at \in {"rows", "tree", "commit"}
        /\ (DrawTag(x))' = DrawTag(x)
    BY <1>1, <1>2, <1>4, DrawStays, WriteTurns DEF At
  <2>2. pools \in {NoFile, DrawTag(x)}
    BY <2>1 DEF Fresh, DrawAt
  <2>3. pools' = pools \/ pools' = NoFile
    BY <1>4, <2>1, PoolsMoves, WhileDrawing DEF DiscardFile, Delete, files
  <2> QED
    BY <2>1, <2>2, <2>3
<1> QED
  BY <1>3, <1>4

LEMMA FreshRows ==
  ASSUME Typed, OneDraw, Fresh, Next, HasMatches, NEW x \in Requests, (DrawAt(x, {"tree", "commit"}))'
  PROVE  drawn' \in {NoFile, (DrawTag(x))'} /\ \A i \in DOMAIN matches' : ~matches'[i].pending
<1>1. Stored /\ Asked
  BY DEF Typed
<1>2. req'[x].op \in Draws /\ req'[x].at \in {"tree", "commit"}
  BY DEF DrawAt
<1>3. CASE DrawMatches(x)
  <2>1. (DrawTag(x))' = DrawTag(x)
    BY <1>1, <1>3, WriteTurns DEF DrawTag
  <2>2. drawn' = DrawTag(x)
    BY <1>3 DEF DrawMatches, DrawTag
  <2> QED
    BY <1>3, <2>1, <2>2, DrawnIs DEF Row
<1>4. CASE ~DrawMatches(x)
  <2>1. /\ req[x].op \in Draws /\ req[x].at \in {"tree", "commit"}
        /\ (DrawTag(x))' = DrawTag(x)
    BY <1>1, <1>2, <1>4, DrawStays, WriteTurns DEF At
  <2>2. drawn \in {NoFile, DrawTag(x)} /\ \A i \in DOMAIN matches : ~matches[i].pending
    BY <2>1 DEF Fresh, DrawAt
  <2>3. drawn' = drawn \/ drawn' = NoFile
    BY <1>4, <2>1, DrawnMoves, WhileDrawing DEF DiscardFile, Delete, files, rows
  <2>4. comp.status # "draw-ready"
    BY <2>1, WhileDrawing
  <2>5. \A i \in DOMAIN matches' : ~matches'[i].pending
    <3>1. ASSUME NEW r \in Requests, Score(r) \/ Undo(r)
          PROVE  \A i \in DOMAIN matches' : ~matches'[i].pending
      BY <1>1, <2>2, <2>4, <3>1, ScoreIs, UndoIs DEF RowSet
    <3>2. ASSUME NEW r \in Requests, AdvanceAppend(r)
          PROVE  \A i \in DOMAIN matches' : ~matches'[i].pending
      <4>1. PICK k : /\ DOMAIN matches' = DOMAIN matches \cup {k} /\ matches'[k] = Row(req[r].next)
                     /\ \A i \in DOMAIN matches : matches'[i] = matches[i]
        BY <1>1, <3>2, AppendIs
      <4>2. ~matches'[k].pending
        BY <4>1 DEF Row
      <4> QED
        BY <2>2, <4>1, <4>2
    <3>3. ASSUME NEW r \in Requests, DiscardFile(r) \/ Delete(r)
          PROVE  matches' = matches \/ matches' = <<>>
      BY <3>3 DEF DiscardFile, Delete, rows
    <3> QED
      BY <1>4, <2>1, <2>2, <3>1, <3>2, <3>3, MatchesMoves, WhileDrawing
  <2> QED
    BY <2>1, <2>2, <2>3, <2>5
<1> QED
  BY <1>3, <1>4

LEMMA FreshBracket ==
  ASSUME Typed, FormatFits, OneDraw, Fresh, Next, comp.format = "knockout",
         NEW x \in Requests, (DrawAt(x, {"commit"}))', bracket' # NoFile
  PROVE  bracket'.of = (DrawTag(x))' /\ ~bracket'.pending
<1>1. Stored /\ Asked
  BY DEF Typed
<1>2. req'[x].op \in Draws /\ req'[x].at = "commit"
  BY DEF DrawAt
<1>3. CASE DrawBracket(x)
  <2>1. (DrawTag(x))' = DrawTag(x)
    BY <1>1, <1>3, WriteTurns DEF DrawTag
  <2>2. bracket' = NewBracket(DrawTag(x), TRUE)
    BY <1>3, BracketDrawn DEF DrawTag
  <2> QED
    BY <2>1, <2>2 DEF NewBracket
<1>4. CASE ~DrawBracket(x)
  <2>1. ~DrawMatches(x)
    BY DEF FormatFits, DrawMatches, On, HasMatches
  <2>2. /\ req[x].op \in Draws /\ req[x].at = "commit"
        /\ (DrawTag(x))' = DrawTag(x)
    BY <1>1, <1>2, <1>4, <2>1, DrawStays, WriteTurns DEF At
  <2>3. bracket # NoFile => bracket.of = DrawTag(x) /\ ~bracket.pending
    BY <2>2 DEF Fresh, DrawAt
  <2>4. comp.status # "draw-ready"
    BY <2>2, WhileDrawing
  <2>5. ASSUME NEW r \in Requests, ScoreBracket(r) \/ PoolPhase(r)
        PROVE  \/ bracket' = bracket
                \/ /\ bracket # NoFile /\ bracket'.of = bracket.of
                   /\ bracket'.pending => bracket.pending
    BY <1>1, <2>4, <2>5 DEF ScoreBracket, PoolPhase, Stored, Trees
  <2>6. ASSUME NEW r \in Requests, DiscardFile(r) \/ Delete(r)
        PROVE  bracket' = bracket \/ bracket' = NoFile
    BY <2>6 DEF DiscardFile, Delete
  <2> QED
    BY <1>4, <2>2, <2>3, <2>5, <2>6, BracketMoves, WhileDrawing DEF files
<1> QED
  BY <1>3, <1>4

LEMMA FreshStep ==
  ASSUME Typed, FormatFits, OneDraw, Fresh, Next
  PROVE  Fresh'
<1>1. /\ comp'.format = comp.format
      /\ HasPools' <=> HasPools
      /\ HasMatches' <=> HasMatches
  BY CompIs DEF HasPools, HasMatches, Typed
<1> QED
  BY <1>1, FreshRoster, FreshPools, FreshRows, FreshBracket DEF Fresh

LEMMA TreeKept ==
  ASSUME Typed, Next, bracket # NoFile
  PROVE  \/ bracket' # NoFile
         \/ \E r \in Requests : DiscardFile(r) \/ Delete(r)
<1>1. Stored /\ Asked /\ bracket \in Trees
  BY DEF Typed, Stored
<1>2. \A tree \in Trees : tree # NoFile
  BY DEF Trees, NoFile
<1>3. ASSUME NEW r \in Requests, DrawBracket(r)
      PROVE  bracket' # NoFile
  <2>1. \A tag, seeded : NewBracket(tag, seeded) # NoFile
    BY DEF NewBracket, NoFile
  <2> QED
    BY <1>3, <2>1, BracketDrawn
<1>4. ASSUME NEW r \in Requests, ScoreBracket(r) \/ PoolPhase(r)
      PROVE  bracket' \in Trees
  BY <1>1, <1>4 DEF ScoreBracket, PoolPhase, Trees
<1>5. ASSUME NEW r \in Requests, ReplaceParticipantInDraw(r)
      PROVE  bracket' # NoFile
  <2>1. bracket' = bracket \/ bracket' = [bracket EXCEPT !.of = Renamed(@, req[r].names)]
    BY <1>5 DEF ReplaceParticipantInDraw, files
  <2>2. DOMAIN bracket' = DOMAIN bracket
    BY <2>1
  <2> QED
    BY <1>1, <2>2 DEF Trees, NoFile
<1> QED
  BY <1>1, <1>2, <1>3, <1>4, <1>5, BracketMoves

\* No discard, and no deletion, is overlooked by a draw it overlapped.
LEMMA Uncrossed ==
  ASSUME Typed, Next, NEW x \in Requests, x \notin crossed', req[x] # Idle, req[x].op # "discard", req'[x] # Idle
  PROVE  /\ x \notin crossed
         /\ \A r \in Requests : ~DiscardFile(r) /\ ~DiscardCheck(r) /\ ~DiscardCommit(r)
<1>1. x \notin crossed
  BY CrossedMoves DEF Typed
<1>2. ASSUME NEW r \in Requests, DiscardFile(r) \/ DiscardCheck(r) \/ DiscardCommit(r)
      PROVE  FALSE
  <2>1. crossed' = crossed \cup {y \in InFlight : req[y].op # "discard"}
    BY <1>2, DiscardTurns DEF Typed
  <2> QED
    BY <2>1 DEF InFlight
<1> QED
  BY <1>1, <1>2

LEMMA GoneStays ==
  ASSUME Typed, Next, comp'.status # "gone"
  PROVE  comp.status # "gone" /\ \A r \in Requests : ~Delete(r) /\ ~NotFound(r)
<1>1. comp \in Settings
  BY DEF Typed, Stored
<1>2. comp.status # "gone"
  BY <1>1, StatusGoes, BeginIs DEF Running
<1>3. \A r \in Requests : Delete(r) => comp'.status = "gone"
  BY <1>1 DEF Delete, Settings
<1> QED
  BY <1>2, <1>3 DEF NotFound

LEMMA WrittenStep ==
  ASSUME Typed, FormatFits, OneDraw, Written, Next
  PROVE  Written'
<1>1. Stored /\ Asked /\ Asked' /\ comp'.format = comp.format
  BY TypedStep, CompIs DEF Typed
<1>2. SUFFICES ASSUME NEW x \in Requests, x \notin crossed', comp'.status # "gone", req'[x].op \in Draws
               PROVE  /\ req'[x].at \in {"rows", "tree", "commit"} /\ HasPools => pools' # NoFile
                      /\ req'[x].at \in {"tree", "commit"} /\ HasMatches =>
                           matches' # <<>> /\ (comp.format = "swiss" => (OfRound(1))' # {})
                      /\ req'[x].at = "commit" /\ HasBracket => bracket' # NoFile
  BY <1>1 DEF Written, DrawAt, HasPools, HasMatches, HasBracket
<1>3. CASE GenerateDraw(x) \/ DrawSnapshot(x) \/ DrawRoster(x)
  BY <1>1, <1>2, <1>3, DrawTurns DEF NewDraws, Reads
<1>4. CASE ~(GenerateDraw(x) \/ DrawSnapshot(x) \/ DrawRoster(x))
  <2>1. req[x].op \in Draws
    BY <1>1, <1>2, <1>4, DrawStays
  <2>2. req[x] # Idle /\ req[x].op # "discard" /\ req'[x] # Idle
    BY <1>2, <2>1 DEF Draws, Idle
  <2>3. x \notin crossed /\ \A r \in Requests : ~DiscardFile(r)
    BY <1>2, <2>2, Uncrossed
  <2>4. comp.status # "gone" /\ \A r \in Requests : ~Delete(r)
    BY <1>2, GoneStays
  <2>5. /\ req[x].at \in {"rows", "tree", "commit"} /\ HasPools => pools # NoFile
        /\ req[x].at \in {"tree", "commit"} /\ HasMatches =>
             matches # <<>> /\ (comp.format = "swiss" => OfRound(1) # {})
        /\ req[x].at = "commit" /\ HasBracket => bracket # NoFile
    BY <2>1, <2>3, <2>4 DEF Written, DrawAt
  <2>6. ASSUME req'[x].at \in {"rows", "tree", "commit"}, HasPools
        PROVE  pools' # NoFile
    <3>1. CASE DrawPools(x)
      BY <2>6, <3>1 DEF DrawPools, Tag, NoFile
    <3>2. CASE ~DrawPools(x)
      <4>1. req[x].at \in {"rows", "tree", "commit"}
        BY <1>1, <1>2, <1>4, <2>6, <3>2, DrawStays, WriteTurns DEF At
      <4> QED
        BY <2>1, <2>3, <2>4, <2>5, <2>6, <3>2, <4>1, PoolsMoves, WhileDrawing DEF files
    <3> QED
      BY <3>1, <3>2
  <2>7. ASSUME req'[x].at \in {"tree", "commit"}, HasMatches
        PROVE  matches' # <<>> /\ (comp.format = "swiss" => (OfRound(1))' # {})
    <3>1. CASE DrawMatches(x)
      <4>1. comp.format = "swiss" => matches'[1].round = 1
        BY <3>1, DrawnIs DEF Row
      <4> QED
        BY <3>1, <4>1, DrawnIs DEF OfRound
    <3>2. CASE ~DrawMatches(x)
      <4>1. req[x].at \in {"tree", "commit"}
        BY <1>1, <1>2, <1>4, <2>7, <3>2, DrawStays, WriteTurns DEF At
      <4> QED
        BY <1>1, <2>1, <2>3, <2>4, <2>5, <2>7, <3>2, <4>1, RoundsKeep, WhileDrawing
    <3> QED
      BY <3>1, <3>2
  <2>8. ASSUME req'[x].at = "commit", HasBracket
        PROVE  bracket' # NoFile
    <3>1. CASE DrawBracket(x)
      <4>1. At(x, "tree")
        BY <1>1, <3>1, WriteTurns
      <4>2. comp.format # "knockout" => pools # NoFile
        BY <2>5, <2>8, <4>1 DEF HasBracket, HasPools, At
      <4>3. \E tag, seeded : bracket' = NewBracket(tag, seeded)
        BY <3>1, <4>2, BracketDrawn
      <4> QED
        BY <4>3 DEF NewBracket, NoFile
    <3>2. CASE ~DrawBracket(x)
      <4>1. req[x].at = "commit"
        BY <1>1, <1>2, <1>4, <2>8, <3>2, DrawStays, WriteTurns DEF At
      <4> QED
        BY <2>3, <2>4, <2>5, <2>8, <4>1, TreeKept
    <3> QED
      BY <3>1, <3>2
  <2> QED
    BY <2>6, <2>7, <2>8
<1> QED
  BY <1>3, <1>4

\* A name is given while the draw is pending, and goes its way into the draw.
LEMMA NamesGo ==
  ASSUME Typed, Next, comp.status = "draw-ready", comp'.status = "draw-ready"
  PROVE  /\ comp'.rules = comp.rules /\ late \subseteq late'
         /\ roster'.entries = roster.entries \/ "roster" \in late'
         /\ roster'.names = roster.names \/ \E r \in Requests : Rename(r)
         /\ Renaming # {} =>
              \/ Renaming' # {} \/ \E r \in Requests : ReplaceParticipantInDraw(r)
         /\ \A r \in Requests : Rename(r) => r \in Renaming' /\ (Renaming # {} => "names" \in late')
<1>1. Stored /\ Asked /\ comp \in Settings /\ roster \in Rosters
  BY DEF Typed, Stored
<1>2. late \subseteq late'
  BY <1>1, LateGoes, DiscardIs
<1>3. comp'.rules = comp.rules
  BY <1>1, CompMoves
     DEF Settings, DrawCommit, TransitionDrawToRunning, Begin, DiscardCommit, StartIfDrawReady, FlipToKnockout,
         SettleLeague, AdvanceBump, AdvanceRunning, Delete, PutRules, PutSwissRounds, Complete, Invalidate
<1>4. roster'.entries = roster.entries \/ "roster" \in late'
  BY <1>1, RosterMoves DEF Rosters, RosterSave, Rename, AddParticipant
<1>5. roster'.names = roster.names \/ \E r \in Requests : Rename(r)
  BY <1>1, RosterMoves DEF Rosters, RosterSave, AddParticipant
<1>6. ASSUME NEW r \in Requests, Rename(r)
      PROVE  r \in Renaming' /\ (Renaming # {} => "names" \in late')
  BY <1>1, <1>6, RenameTurns DEF Renaming, Rename
<1>7. Renaming # {} => Renaming' # {} \/ \E r \in Requests : ReplaceParticipantInDraw(r)
  <2>1. \A r \in Requests : ~NotFound(r)
    BY GoneStays
  <2> QED
    BY <1>1, <1>6, <2>1, RenamesMove DEF Renaming
<1> QED
  BY <1>2, <1>3, <1>4, <1>5, <1>6, <1>7

LEMMA RenamingsStep ==
  ASSUME Typed, Renamings, Next
  PROVE  Renamings'
<1> SUFFICES ASSUME NEW x \in Requests, req'[x].op = "rename", x \notin crossed'
             PROVE  /\ comp'.status # "setup"
                    /\ comp'.status = "draw-ready" /\ "names" \notin late' => req'[x].names = roster'.names
  BY DEF Renamings, Renaming
<1>1. Stored /\ Asked /\ comp \in Settings /\ roster \in Rosters
  BY DEF Typed, Stored
<1>2. CASE Rename(x) /\ comp.status = "draw-ready"
  <2>1. req'[x].names = roster.names + 1
    BY <1>1, <1>2, RenameTurns
  <2>2. roster'.names = roster.names + 1 /\ comp' = comp
    BY <1>1, <1>2 DEF Rename, Rosters
  <2> QED
    BY <1>2, <2>1, <2>2
<1>3. CASE ~(Rename(x) /\ comp.status = "draw-ready")
  <2>1. req'[x] = req[x]
    <3>1. ASSUME NEW r \in Requests, r # x, Rename(r) \/ ReplaceParticipantInDraw(r) \/ NotFound(r)
          PROVE  req'[x] = req[x]
      BY <1>1, <3>1, OneMoves DEF DeskSteps
    <3>2. ~ReplaceParticipantInDraw(x) /\ ~NotFound(x)
      BY <1>1, RenameTurns, Ending DEF NotFound, Idle
    <3>3. Rename(x) => req'[x] = req[x]
      BY <1>1, <1>3, RenameTurns
    <3> QED
      BY <1>1, <3>1, <3>2, <3>3, RenamesMove
  <2>2. req[x] # Idle /\ req'[x] # Idle
    BY <2>1 DEF Idle
  <2>3. x \notin crossed /\ \A r \in Requests : ~DiscardCommit(r)
    BY <2>1, <2>2, Uncrossed
  <2>4. /\ comp.status # "setup"
        /\ comp.status = "draw-ready" /\ "names" \notin late => req[x].names = roster.names
    BY <2>1, <2>3 DEF Renamings, Renaming
  <2>5. comp'.status # "setup"
    BY <1>1, <2>3, <2>4, StatusGoes, BeginIs DEF RunningStatus
  <2>6. ASSUME comp'.status = "draw-ready", "names" \notin late'
        PROVE  req[x].names = roster'.names
    <3>1. comp.status = "draw-ready"
      BY <1>1, <2>4, <2>6, StatusGoes, BeginIs DEF RunningStatus
    <3>2. x \in Renaming
      BY <2>1 DEF Renaming
    <3> QED
      BY <2>4, <2>6, <3>1, <3>2, NamesGo
  <2> QED
    BY <2>1, <2>5, <2>6
<1> QED
  BY <1>2, <1>3

\* A tag that was current is current, in its files as they were, or with the
\* name that has just been copied into them.
LEMMA CurrentKept ==
  ASSUME Typed, Next, comp.status = "draw-ready", comp'.status = "draw-ready",
         NEW tag \in AnyTag, IsCurrent(tag), \A r \in Requests : ~ReplaceParticipantInDraw(r)
  PROVE  /\ tag.rules = comp'.rules
         /\ "roster" \in late' \/ tag.entries = roster'.entries
         /\ "names" \in late' \/ Renaming' # {} \/ tag.names = roster'.names
<1>1. tag.rules = comp'.rules
  BY NamesGo DEF IsCurrent
<1>2. "roster" \in late' \/ tag.entries = roster'.entries
  BY NamesGo DEF IsCurrent
<1>3. "names" \in late' \/ Renaming' # {} \/ tag.names = roster'.names
  <2>1. CASE \E r \in Requests : Rename(r)
    BY <2>1, NamesGo
  <2>2. CASE ~ \E r \in Requests : Rename(r)
    <3>1. roster'.names = roster.names /\ (Renaming # {} => Renaming' # {}) /\ late \subseteq late'
      BY <2>2, NamesGo
    <3> QED
      BY <3>1 DEF IsCurrent
  <2> QED
    BY <2>1, <2>2
<1> QED
  BY <1>1, <1>2, <1>3

LEMMA CurrentRenamed ==
  ASSUME Typed, Renamings, NEW r \in Requests, ReplaceParticipantInDraw(r), comp.status = "draw-ready",
         NEW tag \in AnyTag, IsCurrent(tag)
  PROVE  LET t == Renamed(tag, req[r].names) IN
         /\ t.rules = comp'.rules
         /\ "roster" \in late' \/ t.entries = roster'.entries
         /\ "names" \in late' \/ Renaming' # {} \/ t.names = roster'.names
<1> DEFINE t == Renamed(tag, req[r].names)
<1>1. req[r].names \in Nat /\ req[r].op = "rename"
  BY Places DEF ReplaceParticipantInDraw, On, Renames, Typed
<1>2. t.rules = tag.rules /\ t.entries = tag.entries /\ t.names = req[r].names
  <2>1. tag # NoFile
    BY DEF AnyTag, NoFile
  <2> QED
    BY <1>1, <2>1, RenamedIs
<1>3. comp' = comp /\ roster' = roster
  BY DEF ReplaceParticipantInDraw
<1>4. late \subseteq late' /\ (Crossed(r) => "names" \in late')
  BY DEF ReplaceParticipantInDraw
<1>5. ~Crossed(r) /\ "names" \notin late' => req[r].names = roster.names
  BY <1>1, <1>4 DEF Crossed, Renamings, Renaming
<1> QED
  BY <1>2, <1>3, <1>4, <1>5 DEF IsCurrent

LEMMA CurrentStep ==
  ASSUME DrawsAtOnce = 1, Typed, FormatFits, OneDraw, Fresh, Renamings, Current, Next
  PROVE  Current'
<1> DEFINE Now(tag) ==
      /\ tag.rules = comp'.rules
      /\ "roster" \in late' \/ tag.entries = roster'.entries
      /\ "names" \in late' \/ Renaming' # {} \/ tag.names = roster'.names
<1>1. Stored /\ Asked /\ comp \in Settings /\ comp'.format = comp.format
  BY CompIs DEF Typed, Stored
<1>2. SUFFICES ASSUME comp'.status = "draw-ready"
               PROVE  /\ HasPools /\ pools' # NoFile => Now(pools')
                      /\ HasMatches /\ drawn' # NoFile => Now(drawn')
                      /\ comp.format = "knockout" /\ bracket' # NoFile => Now(bracket'.of)
  BY <1>1 DEF Current, IsCurrent, HasPools, HasMatches
<1>3. CASE comp.status = "draw-ready"
  <2>1. /\ HasPools /\ pools # NoFile => IsCurrent(pools)
        /\ HasMatches /\ drawn # NoFile => IsCurrent(drawn)
        /\ comp.format = "knockout" /\ bracket # NoFile => IsCurrent(bracket.of)
    BY <1>3 DEF Current
  <2>2. /\ pools # NoFile => pools \in AnyTag
        /\ drawn # NoFile => drawn \in AnyTag
        /\ bracket # NoFile => bracket.of \in AnyTag /\ bracket \in Trees
    BY <1>1 DEF Stored, Trees
  <2>3. \A r \in Requests : ~DrawPools(r) /\ ~DrawMatches(r) /\ ~DrawBracket(r)
    BY <1>1, <1>3, WriteTurns DEF OneDraw, Drawing, Writings, Draws
  <2>4. \A r \in Requests : ~Delete(r)
    BY <1>2, GoneStays
  <2>5. CASE \E r \in Requests : ReplaceParticipantInDraw(r)
    <3>1. PICK r \in Requests : ReplaceParticipantInDraw(r)
      BY <2>5
    <3>2. /\ pools' = Renamed(pools, req[r].names)
          /\ drawn' = Renamed(drawn, req[r].names)
          /\ bracket' = IF bracket = NoFile THEN bracket
                        ELSE [bracket EXCEPT !.of = Renamed(@, req[r].names)]
      BY <1>3, <3>1 DEF ReplaceParticipantInDraw
    <3>3. \A tag \in AnyTag : IsCurrent(tag) => Now(Renamed(tag, req[r].names))
      BY <1>3, <3>1, CurrentRenamed
    <3>4. Renamed(NoFile, req[r].names) = NoFile
      BY DEF Renamed
    <3>5. bracket # NoFile => bracket'.of = Renamed(bracket.of, req[r].names)
      BY <2>2, <3>2 DEF Trees
    <3> HIDE DEF Now
    <3> QED
      BY <2>1, <2>2, <3>2, <3>3, <3>4, <3>5
  <2>6. CASE \A r \in Requests : ~ReplaceParticipantInDraw(r)
    <3>1. \A tag \in AnyTag : IsCurrent(tag) => Now(tag)
      BY <1>2, <1>3, <2>6, CurrentKept
    <3>2. pools' = pools \/ pools' = NoFile
      BY <2>3, <2>4, <2>6, PoolsMoves DEF DiscardFile
    <3>3. drawn' = drawn \/ drawn' = NoFile
      BY <2>3, <2>4, <2>6, DrawnMoves DEF DiscardFile, rows
    <3>4. bracket' = NoFile \/ (bracket # NoFile /\ bracket'.of = bracket.of) \/ bracket' = bracket
      BY <2>2, <2>3, <2>4, <2>6, BracketMoves DEF DiscardFile, ScoreBracket, PoolPhase, Trees
    <3> HIDE DEF Now
    <3> QED
      BY <2>1, <2>2, <3>1, <3>2, <3>3, <3>4
  <2> QED
    BY <2>5, <2>6
<1>4. CASE comp.status # "draw-ready"
  <2>1. PICK r \in Requests : DrawCommit(r)
    BY <1>1, <1>2, <1>4, StatusGoes, BeginIs DEF RunningStatus
  <2>2. /\ req[r] \in Writings /\ req[r].at = "commit" /\ req[r].op \in Draws
        /\ comp.rules = req[r].rules /\ roster = req[r].stamp
        /\ UNCHANGED <<roster, files>> /\ comp'.rules = comp.rules
    <3>1. req[r] \in Writings /\ req[r].at = "commit"
      BY <1>1, <2>1, EndTurns DEF At
    <3>2. /\ comp.rules = req[r].rules /\ roster = req[r].stamp
          /\ UNCHANGED <<roster, files>>
      BY <2>1 DEF DrawCommit, CommitMatches
    <3>3. comp'.rules = comp.rules
      BY <1>1, <2>1 DEF DrawCommit, Settings
    <3> QED
      BY <3>1, <3>2, <3>3 DEF Writings
  <2>3. NoneOlder(req[r].stamp, req[r].read) /\ NoneOlder(req[r].read, roster)
    BY <2>2 DEF Fresh, DrawAt
  <2>4. req[r].read.entries = roster.entries /\ req[r].read.names = roster.names
    BY <2>2, <2>3 DEF NoneOlder, Writings, Rosters
  <2>5. Now(DrawTag(r))
    BY <2>2, <2>4 DEF DrawTag, Tag
  <2>6. /\ HasPools => pools \in {NoFile, DrawTag(r)}
        /\ HasMatches => drawn \in {NoFile, DrawTag(r)}
        /\ comp.format = "knockout" /\ bracket # NoFile => bracket.of = DrawTag(r)
    BY <2>2 DEF Fresh, DrawAt
  <2> HIDE DEF Now
  <2> QED
    BY <2>2, <2>5, <2>6 DEF files, rows
<1> QED
  BY <1>3, <1>4

\* A request for a Swiss round is new, or was there and keeps what it asks for.
LEMMA RoundStays ==
  ASSUME Typed, Next, NEW x \in Requests, req'[x].op = "advance"
  PROVE  \/ /\ AdvanceLoad(x) /\ req[x] = Idle /\ req'[x].at = "current"
            /\ req'[x].next = comp.round + 1 /\ req'[x].status = comp.status
         \/ /\ req[x].op = "advance" /\ req'[x].next = req[x].next /\ req'[x].status = req[x].status
            /\ \/ req'[x].at = req[x].at
               \/ AdvanceCurrent(x) /\ At(x, "current") /\ req'[x].at = "pair"
               \/ AdvancePair(x) /\ At(x, "pair") /\ req'[x].at = "append"
               \/ AdvanceAppend(x) /\ At(x, "append") /\ req'[x].at = "bump"
               \/ AdvanceBump(x) /\ At(x, "bump") /\ req'[x].at = "running"
<1>1. Stored /\ Asked
  BY DEF Typed
<1>2. req'[x] # Idle /\ req'[x].at # "idle"
  <2>1. req'[x] \in Rounds
    BY Places, TypedStep DEF Advance, Typed, Asked, Shapes, Idle, NewDraws, Reads, Writings, Starts, Discards,
       Checks, Looks, Rounds, RosterSaves, Renames, Deletes, Draws
  <2> QED
    BY <2>1 DEF Rounds, Idle
<1>3. ~NotFound(x) /\ ~AdvanceRunning(x)
  BY <1>1, <1>2, Ending DEF NotFound, AdvanceRunning
<1>4. CASE AdvanceLoad(x)
  BY <1>1, <1>4, RoundTurns
<1>5. CASE AdvanceCurrent(x) \/ AdvancePair(x) \/ AdvanceAppend(x) \/ AdvanceBump(x)
  BY <1>1, <1>2, <1>5, RoundTurns DEF Rounds
<1>6. CASE req'[x] = req[x]
  BY <1>6
<1> QED
  BY <1>3, <1>4, <1>5, <1>6, RoundNow

LEMMA FirstRoundStays ==
  ASSUME Typed, Next, comp.status = "setup", comp'.status = "setup", NEW s \in Requests, FirstRound(s)
  PROVE  (FirstRound(s))'
<1>1. Stored /\ Asked /\ comp \in Settings
  BY DEF Typed, Stored
<1>2. ~AdvanceRunning(s)
  BY <1>1 DEF AdvanceRunning, Settings
<1>3. ~NotFound(s)
  BY DEF NotFound
<1>4. ~AdvanceLoad(s)
  BY <1>1, RoundTurns DEF FirstRound, Advance, Idle
<1>5. ~AdvanceCurrent(s) /\ ~AdvancePair(s) /\ ~AdvanceAppend(s) /\ ~AdvanceBump(s)
  BY <1>1, RoundTurns DEF FirstRound, At
<1>6. req'[s] = req[s]
  BY <1>2, <1>3, <1>4, <1>5, RoundNow DEF FirstRound, Advance
<1> QED
  BY <1>6 DEF FirstRound, Advance, At

\* A request no discard overlapped sees no discard come or go.
LEMMA NoDiscard ==
  ASSUME Typed, Next, NEW x \in Requests, x \notin crossed', req'[x].op = "advance",
         Discarding' = {}, comp'.status # "gone"
  PROVE  /\ Discarding = {} /\ x \notin crossed /\ comp.status # "gone"
         /\ \A r \in Requests : ~DiscardCommit(r) /\ ~DiscardFile(r) /\ ~DiscardCheck(r) /\ ~Delete(r)
         /\ late \subseteq late'
<1>1. Stored /\ Asked /\ comp.status # "gone" /\ \A r \in Requests : ~Delete(r)
  BY GoneStays DEF Typed
<1>2. CASE AdvanceLoad(x) /\ req[x] = Idle
  <2>1. \A y \in Requests \ {x} : req'[y] = req[y]
    BY <1>1, <1>2, OneMoves DEF MatchSteps
  <2>2. Discarding = {}
    BY <1>2, <2>1 DEF Discarding, Idle
  <2>3. crossed' = crossed /\ late' = late
    BY <1>1, <1>2, RoundTurns DEF AdvanceLoad
  <2>4. ASSUME NEW r \in Requests, DiscardCommit(r) \/ DiscardFile(r) \/ DiscardCheck(r)
        PROVE  FALSE
    <3>1. r \in Discarding \/ r \in Discarding'
      BY <1>1, <2>4, DiscardTurns DEF Discarding
    <3> QED
      BY <2>2, <3>1
  <2> QED
    BY <1>1, <2>2, <2>3, <2>4
<1>3. CASE req[x].op = "advance"
  <2>1. req[x] # Idle /\ req'[x] # Idle
    BY <1>3 DEF Idle
  <2>2. /\ x \notin crossed
        /\ \A r \in Requests : ~DiscardFile(r) /\ ~DiscardCheck(r) /\ ~DiscardCommit(r)
    BY <1>3, <2>1, Uncrossed
  <2>3. Discarding = {}
    BY <1>1, <2>2, DiscardingGoes
  <2> QED
    BY <1>1, <2>2, <2>3, LateGoes
<1> QED
  BY <1>2, <1>3, RoundStays

LEMMA FirstFromSetupStep ==
  ASSUME Typed, FirstFromSetup, Next
  PROVE  FirstFromSetup'
<1> SUFFICES ASSUME NEW x \in Requests, x \notin crossed', Discarding' = {}, comp'.status = "setup",
                    req'[x].op = "advance", req'[x].next = 1
             PROVE  req'[x].status = "setup"
  BY DEF FirstFromSetup, Advance
<1>1. CASE AdvanceLoad(x) /\ req'[x].status = comp.status
  BY <1>1 DEF AdvanceLoad
<1>2. CASE req[x].op = "advance" /\ req'[x].next = req[x].next /\ req'[x].status = req[x].status
  <2>1. /\ Discarding = {} /\ x \notin crossed
        /\ \A r \in Requests : ~DiscardCommit(r)
    BY NoDiscard
  <2>2. comp.status = "setup"
    BY <2>1, StatusGoes, BeginIs DEF RunningStatus, Typed
  <2> QED
    BY <1>2, <2>1, <2>2 DEF FirstFromSetup, Advance
<1> QED
  BY <1>1, <1>2, RoundStays

\* The rows of the rounds before stay for a Swiss round no discard overlapped.
LEMMA RowsStayFor ==
  ASSUME Typed, OneDraw, SetupRounds, DrawsInSetup, Next, NEW x \in Requests \ crossed, Advance(x),
         Discarding = {}, "discard" \notin late, comp.status # "gone",
         \A r \in Requests : ~DiscardFile(r) /\ ~Delete(r)
  PROVE  /\ \A n : OfRound(n) # {} => (OfRound(n))' # {}
         /\ \A n : HasRows(n) => (HasRows(n))'
<1>1. Stored /\ Asked
  BY DEF Typed
<1>2. ASSUME NEW r \in Requests, DrawMatches(r)
      PROVE  FALSE
  <2>1. req[r].op \in Draws
    BY <1>1, <1>2, WriteTurns DEF Writings
  <2>2. comp.status = "setup"
    BY <2>1 DEF DrawsInSetup
  <2>3. \E s \in Requests : Advance(s) /\ req[s].next = 1
    BY <2>2 DEF SetupRounds, FirstRound
  <2> QED
    BY <2>1, <2>3, OnlyDraw
<1>3. \A n : OfRound(n) # {} => (OfRound(n))' # {}
  BY <1>1, <1>2, RoundsKeep
<1> QED
  BY <1>3 DEF HasRows

LEMMA AdvancingStep ==
  ASSUME Typed, FormatFits, OneDraw, Standing, SetupRounds, DrawsInSetup, Advancing, Next
  PROVE  Advancing'
<1> SUFFICES ASSUME NEW x \in Requests, x \notin crossed', req'[x].op = "advance",
                    comp'.status # "gone", "discard" \notin late', Discarding' = {}
             PROVE  /\ req'[x].at \in {"current", "pair", "append", "bump"} => (HasRows(req[x].next - 1))'
                    /\ req'[x].at = "bump" => (OfRound(req[x].next))' # {}
                    /\ req'[x].at = "running" => comp'.round > 0
  BY DEF Advancing, Advance, At
<1>1. Stored /\ Asked /\ comp \in Settings
  BY DEF Typed, Stored
<1>2. /\ Discarding = {} /\ x \notin crossed /\ comp.status # "gone" /\ "discard" \notin late
      /\ \A r \in Requests : ~DiscardCommit(r) /\ ~DiscardFile(r) /\ ~Delete(r)
  BY NoDiscard
<1>3. CASE AdvanceLoad(x) /\ req'[x].at = "current" /\ req'[x].next = comp.round + 1
  <2>1. HasRows(comp.round)
    <3>1. CASE comp.status = "setup"
      BY <1>2, <3>1 DEF SetupRounds
    <3>2. CASE comp.status # "setup"
      BY <1>2, <3>2 DEF Standing, Whole, HasRows
    <3> QED
      BY <3>1, <3>2
  <2>2. matches' = matches
    BY <1>3 DEF AdvanceLoad, files, rows
  <2>3. req'[x].next - 1 = comp.round
    BY <1>1, <1>3 DEF Settings
  <2>4. (HasRows(req[x].next - 1))'
    BY <2>1, <2>2, <2>3 DEF HasRows, OfRound
  <2> QED
    BY <1>3, <2>4
<1>4. CASE req[x].op = "advance" /\ req'[x].next = req[x].next
  <2>1. /\ \A n : OfRound(n) # {} => (OfRound(n))' # {}
        /\ \A n : HasRows(n) => (HasRows(n))'
    BY <1>2, <1>4, RowsStayFor DEF Advance
  <2>2. /\ req[x].at \in {"current", "pair", "append", "bump"} => HasRows(req[x].next - 1)
        /\ At(x, "bump") => OfRound(req[x].next) # {}
        /\ At(x, "running") => comp.round > 0
    BY <1>2, <1>4 DEF Advancing, Advance
  <2>3. req[x] \in Rounds
    BY <1>1, <1>4, Places DEF Advance
  <2>4. ASSUME req'[x].at \in {"current", "pair", "append", "bump"}
        PROVE  (HasRows(req[x].next - 1))'
    <3>1. req[x].at \in {"current", "pair", "append", "bump"}
      BY <1>4, <2>4, RoundStays DEF At, Idle
    <3>2. HasRows(req[x].next - 1)
      BY <2>2, <3>1
    <3> QED
      BY <1>4, <2>1, <3>2 DEF HasRows
  <2>5. ASSUME req'[x].at = "bump"
        PROVE  (OfRound(req[x].next))' # {}
    <3>1. CASE AdvanceAppend(x)
      <4>1. PICK k : k \in DOMAIN matches' /\ matches'[k] = Row(req[x].next)
        BY <1>1, <3>1, AppendIs
      <4>2. matches'[k].round = req'[x].next
        BY <1>4, <4>1 DEF Row
      <4> QED
        BY <4>1, <4>2 DEF OfRound
    <3>2. CASE At(x, "bump")
      BY <1>4, <2>1, <2>2, <3>2 DEF OfRound
    <3> QED
      BY <1>4, <2>5, <3>1, <3>2, RoundStays DEF At, Idle
  <2>6. ASSUME req'[x].at = "running"
        PROVE  comp'.round > 0
    <3>1. CASE AdvanceBump(x)
      BY <1>1, <2>3, <3>1 DEF AdvanceBump, Settings, Rounds
    <3>2. CASE At(x, "running")
      <4>1. comp.round > 0
        BY <2>2, <3>2
      <4>2. \A r \in Requests : AdvanceBump(r) => req[r].next \in Nat
        BY <1>1, RoundTurns DEF Rounds
      <4> QED
        BY <1>1, <1>2, <4>1, <4>2, RoundGoes DEF Settings
    <3> QED
      BY <1>4, <2>6, <3>1, <3>2, RoundStays DEF At, Idle
  <2> QED
    BY <2>4, <2>5, <2>6
<1> QED
  BY <1>3, <1>4, RoundStays

\* While a competition is in setup its rounds come from one request alone.
LEMMA SetupRoundsStep ==
  ASSUME Typed, OneDraw, SetupRounds, Advancing, FirstFromSetup, Next
  PROVE  SetupRounds'
<1> SUFFICES ASSUME comp'.status = "setup", "discard" \notin late'
             PROVE  /\ Discarding' # {} => comp'.round = 0
                    /\ Discarding' = {} => (HasRows(comp.round))'
                    /\ comp'.round > 0 => \E s \in Requests : (FirstRound(s))'
                    /\ Discarding' = {} =>
                         \A x \in Requests \ crossed' :
                           req'[x].op = "advance" => req'[x].next = 1 \/ \E s \in Requests : (FirstRound(s))'
  BY DEF SetupRounds, Advance
<1>1. Stored /\ Asked /\ comp \in Settings /\ comp.status # "gone" /\ \A r \in Requests : ~Delete(r)
  BY GoneStays DEF Typed, Stored
<1>2. CASE comp.status # "setup"
  <2>1. PICK r \in Requests : DiscardCommit(r) /\ comp.status = "draw-ready"
    BY <1>1, <1>2, StatusGoes, BeginIs DEF RunningStatus
  <2>2. comp'.round = 0
    BY <1>1, <2>1, DiscardIs
  <2>3. ASSUME NEW x \in Requests \ crossed', req'[x].op = "advance", Discarding' = {}
        PROVE  FALSE
    BY <1>1, <2>1, <2>3, NoDiscard
  <2> QED
    BY <2>2, <2>3 DEF HasRows
<1>3. CASE comp.status = "setup"
  <2>1. "discard" \notin late /\ late \subseteq late'
    BY <1>3, LateGoes
  <2>2. /\ Discarding # {} => comp.round = 0
        /\ Discarding = {} => HasRows(comp.round)
        /\ comp.round > 0 => \E s \in Requests : FirstRound(s)
        /\ Discarding = {} =>
             \A r \in Requests \ crossed : Advance(r) => req[r].next = 1 \/ \E s \in Requests : FirstRound(s)
    BY <1>3, <2>1 DEF SetupRounds
  <2>3. (\E s \in Requests : FirstRound(s)) => \E s \in Requests : (FirstRound(s))'
    BY <1>3, FirstRoundStays
  <2>4. ASSUME comp'.round # comp.round
        PROVE  \E r \in Requests \ crossed : /\ AdvanceBump(r) /\ comp'.round = req[r].next /\ Discarding = {}
                                             /\ Advance(r) /\ At(r, "bump") /\ req[r] \in Rounds
    <3>1. PICK r \in Requests : AdvanceBump(r) /\ comp'.round = req[r].next
      BY <1>1, <1>3, <2>4, RoundGoes DEF DrawCommit, Settings
    <3>2. ~Crossed(r)
      BY <3>1, OverlapIs
    <3> QED
      BY <1>1, <3>1, <3>2, RoundTurns DEF Crossed, Rounds, Advance
  <2>5. Discarding' # {} => Discarding # {}
    BY <1>3, DiscardingGoes DEF DiscardCheck
  <2>6. Discarding # {} => comp'.round = 0
    BY <2>2, <2>4
  <2>7. ASSUME Discarding' = {}
        PROVE  (HasRows(comp.round))'
    <3>1. CASE comp'.round = 0
      BY <3>1 DEF HasRows
    <3>2. CASE comp'.round = comp.round /\ comp'.round # 0
      <4>1. Discarding = {} /\ HasRows(comp.round) /\ \E s \in Requests : FirstRound(s)
        BY <1>1, <2>2, <3>2 DEF Settings
      <4>2. \A r \in Requests : ~DiscardFile(r)
        BY <1>1, <4>1, DiscardTurns DEF Discarding
      <4>3. \A r \in Requests : ~DrawMatches(r)
        BY <1>1, <4>1, WriteTurns, OnlyDraw DEF Writings, FirstRound
      <4>4. \A n : OfRound(n) # {} => (OfRound(n))' # {}
        BY <1>1, <4>2, <4>3, RoundsKeep
      <4> QED
        BY <3>2, <4>1, <4>4 DEF HasRows
    <3>3. CASE comp'.round # comp.round
      <4>1. PICK r \in Requests \ crossed : /\ AdvanceBump(r) /\ comp'.round = req[r].next /\ Discarding = {}
                                            /\ Advance(r) /\ At(r, "bump") /\ req[r] \in Rounds
        BY <2>4, <3>3
      <4>2. HasRows(req[r].next - 1) /\ OfRound(req[r].next) # {}
        BY <1>1, <2>1, <4>1 DEF Advancing, At
      <4>3. HasRows(req[r].next)
        BY <4>1, <4>2 DEF HasRows, Rounds
      <4>4. matches' = matches
        BY <4>1 DEF AdvanceBump, files, rows
      <4> QED
        BY <4>1, <4>3, <4>4 DEF HasRows, OfRound
    <3> QED
      BY <3>1, <3>2, <3>3
  <2>8. ASSUME comp'.round > 0
        PROVE  \E s \in Requests : (FirstRound(s))'
    <3>1. CASE comp'.round = comp.round
      BY <2>2, <2>3, <2>8, <3>1
    <3>2. CASE comp'.round # comp.round
      <4>1. PICK r \in Requests \ crossed : /\ AdvanceBump(r) /\ comp'.round = req[r].next /\ Discarding = {}
                                            /\ Advance(r) /\ At(r, "bump") /\ req[r] \in Rounds
        BY <2>4, <3>2
      <4>2. CASE req[r].next = 1
        <5>1. req[r].status = "setup"
          BY <1>3, <4>1, <4>2 DEF FirstFromSetup
        <5>2. req'[r].at = "running" /\ req'[r] # Idle
          BY <1>1, <4>1, <5>1, RoundTurns DEF Idle
        <5>3. (FirstRound(r))'
          BY <1>1, <4>1, <4>2, <5>2, RoundTurns DEF FirstRound, Advance, At
        <5> QED
          BY <5>3
      <4>3. CASE req[r].next # 1
        BY <2>2, <2>3, <4>1, <4>3
      <4> QED
        BY <4>2, <4>3
    <3> QED
      BY <3>1, <3>2
  <2>9. ASSUME Discarding' = {}, NEW x \in Requests \ crossed', req'[x].op = "advance"
        PROVE  req'[x].next = 1 \/ \E s \in Requests : (FirstRound(s))'
    <3>1. Discarding = {} /\ x \notin crossed
      BY <2>9, NoDiscard, <1>1
    <3>2. CASE req'[x].next = comp.round + 1
      BY <1>1, <2>2, <2>3, <3>2 DEF Settings
    <3>3. CASE req[x].op = "advance" /\ req'[x].next = req[x].next
      BY <2>2, <2>3, <3>1, <3>3 DEF Advance
    <3> QED
      BY <2>9, <3>2, <3>3, RoundStays
  <2> QED
    BY <2>5, <2>6, <2>7, <2>8, <2>9
<1> QED
  BY <1>2, <1>3

LEMMA PoolsKept ==
  ASSUME Typed, Next, pools # NoFile
  PROVE  \/ pools' # NoFile
         \/ \E r \in Requests : DiscardFile(r) \/ Delete(r)
<1>1. ASSUME NEW r \in Requests, DrawPools(r)
      PROVE  pools' # NoFile
  BY <1>1 DEF DrawPools, Tag, NoFile
<1>2. ASSUME NEW r \in Requests, ReplaceParticipantInDraw(r)
      PROVE  pools' # NoFile
  <2>1. pools' = pools \/ pools' = Renamed(pools, req[r].names)
    BY <1>2 DEF ReplaceParticipantInDraw, files
  <2>2. req[r].names \in Nat
    BY <1>2, Places DEF ReplaceParticipantInDraw, On, Renames, Typed
  <2>3. pools \in AnyTag \cup {NoFile}
    BY DEF Typed, Stored
  <2> QED
    BY <2>1, <2>2, <2>3, RenamedIs
<1> QED
  BY <1>1, <1>2, PoolsMoves

LEMMA StandingStep ==
  ASSUME Typed, FormatFits, OneDraw, Written, Standing, Lingering, SetupRounds, Advancing, DrawsInSetup, Next
  PROVE  Standing'
<1> SUFFICES ASSUME comp'.status \notin {"setup", "gone"}, "discard" \notin late', Discarding' = {}
             PROVE  Whole'
  BY DEF Standing
<1>1. Stored /\ Asked /\ comp \in Settings /\ comp.status # "gone" /\ \A r \in Requests : ~Delete(r)
  BY GoneStays DEF Typed, Stored
<1>2. comp'.format = comp.format
  BY <1>1, CompIs
<1>3. SUFFICES /\ HasPools => pools' # NoFile
               /\ HasBracket => bracket' # NoFile
               /\ HasMatches => matches' # <<>>
               /\ \A n \in 1 .. comp'.round : (OfRound(n))' # {}
  BY <1>2 DEF Whole, HasPools, HasBracket, HasMatches
<1>4. "discard" \notin late
  BY <1>1, LateGoes, DiscardIs
<1>5. CASE comp.status = "setup"
  <2>1. CASE \E r \in Requests : DrawCommit(r)
    <3>1. PICK r \in Requests : DrawCommit(r)
      BY <2>1
    <3>2. r \notin crossed
      BY <3>1, OverlapIs DEF Crossed
    <3>3. DrawAt(r, {"commit"}) /\ DrawAt(r, {"tree", "commit"}) /\ DrawAt(r, {"rows", "tree", "commit"})
      BY <1>1, <3>1, EndTurns DEF DrawAt, At, Writings
    <3>4. /\ HasPools => pools # NoFile
          /\ HasMatches => matches # <<>> /\ (comp.format = "swiss" => OfRound(1) # {})
          /\ HasBracket => bracket # NoFile
      BY <1>1, <3>2, <3>3 DEF Written
    <3>5. UNCHANGED files
      BY <3>1 DEF DrawCommit
    <3>6. comp'.round = IF comp.format = "swiss" THEN 1 ELSE comp.round
      BY <1>1, <3>1 DEF DrawCommit, Settings
    <3>7. \A n \in 1 .. comp'.round : OfRound(n) # {}
      <4>1. CASE comp.format = "swiss"
        BY <3>4, <3>6, <4>1 DEF HasMatches
      <4>2. CASE comp.format # "swiss"
        BY <3>6, <4>2 DEF FormatFits
      <4> QED
        BY <4>1, <4>2
    <3> QED
      BY <3>4, <3>5, <3>7 DEF files, rows, OfRound
  <2>2. CASE \E r \in Requests : AdvanceRunning(r)
    <3>1. PICK r \in Requests : AdvanceRunning(r)
      BY <2>2
    <3>2. r \notin crossed /\ Discarding = {}
      BY <3>1, OverlapIs DEF Crossed
    <3>3. Advance(r) /\ At(r, "running")
      BY <1>1, <3>1, RoundTurns DEF Advance, Rounds
    <3>4. comp.round > 0 /\ HasRows(comp.round)
      BY <1>1, <1>4, <1>5, <3>2, <3>3 DEF Advancing, SetupRounds
    <3>5. comp.format = "swiss"
      BY <3>3 DEF FormatFits, Advance
    <3>6. OfRound(1) # {}
      BY <1>1, <3>4 DEF HasRows, Settings
    <3>7. matches # <<>>
      BY <3>6 DEF OfRound
    <3>8. UNCHANGED files /\ comp'.round = comp.round
      BY <1>1, <3>1 DEF AdvanceRunning, Settings
    <3> QED
      BY <3>4, <3>5, <3>7, <3>8 DEF HasRows, files, rows, OfRound, HasPools, HasBracket
  <2> QED
    BY <1>1, <1>5, <2>1, <2>2, StatusGoes DEF Running
<1>6. CASE comp.status # "setup"
  <2>1. ~(comp.status = "draw-ready" /\ \E r \in Requests : DiscardCommit(r))
    BY <1>1, DiscardIs
  <2>2. Discarding = {}
    BY <1>1, <1>4, <1>6, <2>1, DiscardingGoes DEF Lingering
  <2>3. Whole
    BY <1>1, <1>4, <1>6, <2>2 DEF Standing
  <2>4. \A r \in Requests : ~DiscardFile(r)
    BY <1>1, <2>2, DiscardTurns DEF Discarding
  <2>5. \A r \in Requests : ~DrawMatches(r)
    BY <1>1, <1>4, <1>6, WriteTurns DEF DrawsInSetup, Writings
  <2>6. /\ \A n : OfRound(n) # {} => (OfRound(n))' # {}
        /\ matches # <<>> => matches' # <<>>
    BY <1>1, <2>4, <2>5, RoundsKeep
  <2>7. ASSUME NEW n \in 1 .. comp'.round
        PROVE  (OfRound(n))' # {}
    <3>1. CASE comp'.round = comp.round
      BY <2>3, <2>6, <2>7, <3>1 DEF Whole
    <3>2. CASE comp'.round # comp.round
      <4>1. PICK r \in Requests : AdvanceBump(r) /\ comp'.round = req[r].next
        BY <1>6, <2>1, <3>2, RoundGoes DEF DrawCommit, CommitMatches
      <4>2. r \notin crossed /\ Advance(r) /\ At(r, "bump") /\ req[r] \in Rounds
        BY <1>1, <4>1, OverlapIs, RoundTurns DEF Crossed, Advance, Rounds
      <4>3. HasRows(req[r].next - 1) /\ OfRound(req[r].next) # {}
        BY <1>1, <1>4, <2>2, <4>2 DEF Advancing, At
      <4>4. n \in 1 .. (req[r].next - 1) \/ n = req[r].next
        BY <2>7, <4>1, <4>2 DEF Rounds
      <4> QED
        BY <2>6, <4>3, <4>4 DEF HasRows
    <3> QED
      BY <3>1, <3>2
  <2> QED
    BY <1>1, <2>3, <2>4, <2>6, <2>7, PoolsKept, TreeKept DEF Whole
<1> QED
  BY <1>5, <1>6

\* A result of a pending draw is recorded, and taken back whole.
LEMMA PendingDoneStep ==
  ASSUME Typed, PendingDone, Next
  PROVE  PendingDone'
<1>1. Stored /\ Asked
  BY DEF Typed
<1>2. \A i \in DOMAIN matches' : matches'[i].pending => matches'[i].done
  <2>1. ASSUME NEW r \in Requests, Score(r) \/ Undo(r)
        PROVE  \A i \in DOMAIN matches' : matches'[i].pending => matches'[i].done
    BY <1>1, <2>1, ScoreIs, UndoIs DEF RowSet, PendingDone
  <2>2. ASSUME NEW r \in Requests, AdvanceAppend(r)
        PROVE  \A i \in DOMAIN matches' : matches'[i].pending => matches'[i].done
    <3>1. ~matches'[Len(matches) + 1].pending
      BY <1>1, <2>2, NewRowIs
    <3>2. ASSUME NEW i \in DOMAIN matches
          PROVE  matches'[i].pending => matches'[i].done
      BY <1>1, <2>2, <3>2, AppendIs DEF PendingDone
    <3>3. DOMAIN matches' = DOMAIN matches \cup {Len(matches) + 1}
      BY <1>1, <2>2, AppendIs
    <3> QED
      BY <3>1, <3>2, <3>3
  <2>3. ASSUME NEW r \in Requests, DrawMatches(r)
        PROVE  \A i \in DOMAIN matches' : matches'[i].pending => matches'[i].done
    BY <2>3, DrawnIs DEF Row
  <2>4. matches' = <<>> => \A i \in DOMAIN matches' : matches'[i].pending => matches'[i].done
    OBVIOUS
  <2> QED
    BY <2>1, <2>2, <2>3, <2>4, MatchesMoves DEF PendingDone, DiscardFile, Delete, rows
<1>3. bracket' # NoFile /\ bracket'.pending => bracket'.done
  <2>1. bracket = NoFile \/ bracket \in Trees
    BY <1>1 DEF Stored
  <2>2. ASSUME NEW r \in Requests, DrawBracket(r)
        PROVE  bracket' = bracket \/ bracket'.pending = FALSE
    BY <2>2, BracketDrawn DEF NewBracket
  <2>3. ASSUME NEW r \in Requests, ScoreBracket(r)
        PROVE  bracket'.done
    BY <2>1, <2>3 DEF ScoreBracket, Trees
  <2>4. ASSUME NEW r \in Requests, PoolPhase(r) \/ ReplaceParticipantInDraw(r), bracket # NoFile
        PROVE  bracket'.done = bracket.done /\ bracket'.pending = bracket.pending
    BY <2>1, <2>4 DEF PoolPhase, ReplaceParticipantInDraw, files, Trees
  <2>5. ASSUME NEW r \in Requests, PoolPhase(r) \/ ReplaceParticipantInDraw(r), bracket = NoFile
        PROVE  bracket' = NoFile
    BY <2>5 DEF PoolPhase, ReplaceParticipantInDraw, files
  <2> QED
    BY <2>2, <2>3, <2>4, <2>5, BracketMoves DEF PendingDone, DiscardFile, Delete
<1> QED
  BY <1>2, <1>3 DEF PendingDone

\* A mixed competition's bracket is seated when its pools are over, so no
\* result of a pending draw is one of the bracket.
LEMMA SeatedLaterStep ==
  ASSUME Typed, FormatFits, SeatedLater, Next
  PROVE  SeatedLater'
<1>1. Stored /\ Asked /\ comp \in Settings /\ comp'.format = comp.format /\ (bracket = NoFile \/ bracket \in Trees)
  BY CompIs DEF Typed, Stored
<1> SUFFICES ASSUME comp.format = "mixed"
             PROVE  /\ bracket' # NoFile => ~bracket'.pending
                    /\ comp'.status \in {"setup", "draw-ready"} =>
                         /\ bracket' # NoFile => ~bracket'.seeded
                         /\ \A x \in Requests : req'[x].at = "phase" => req'[x].status \notin Running
  BY <1>1 DEF SeatedLater, At
<1> DEFINE Before == comp.status \in {"setup", "draw-ready"}
<1>2. comp'.status \in {"setup", "draw-ready"} => Before
  BY <1>1, StatusGoes, BeginIs DEF RunningStatus, Running
<1>3. /\ bracket # NoFile => ~bracket.pending
      /\ Before /\ bracket # NoFile => ~bracket.seeded
      /\ Before => \A x \in Requests : At(x, "phase") => req[x].status \notin Running
  BY DEF SeatedLater
<1>4. ASSUME NEW r \in Requests, DrawBracket(r)
      PROVE  bracket' = bracket \/ (~bracket'.pending /\ ~bracket'.seeded)
  BY <1>4, BracketDrawn DEF NewBracket
<1>5. ASSUME NEW r \in Requests, ScoreBracket(r)
      PROVE  ~bracket'.pending /\ ~Before
  BY <1>1, <1>3, <1>5 DEF ScoreBracket, Trees
<1>6. ASSUME NEW r \in Requests, PoolPhase(r), bracket # NoFile
      PROVE  bracket'.pending = bracket.pending /\ (Before => bracket'.seeded = bracket.seeded)
  <2>1. Advances(r) => req[r].status \in Running /\ At(r, "phase")
    BY <1>6 DEF Advances, Running, PoolPhase, On
  <2> QED
    BY <1>1, <1>3, <1>6, <2>1 DEF PoolPhase, Trees
<1>7. ASSUME NEW r \in Requests, PoolPhase(r), bracket = NoFile
      PROVE  bracket' = NoFile
  BY <1>7 DEF PoolPhase
<1>8. ASSUME NEW r \in Requests, ReplaceParticipantInDraw(r)
      PROVE  \/ bracket' = bracket
             \/ bracket # NoFile /\ bracket'.pending = bracket.pending /\ bracket'.seeded = bracket.seeded
  BY <1>1, <1>8 DEF ReplaceParticipantInDraw, files, Trees
<1>9. ASSUME NEW r \in Requests, DiscardFile(r) \/ Delete(r)
      PROVE  bracket' = bracket \/ bracket' = NoFile
  BY <1>9 DEF DiscardFile, Delete
<1>10. bracket' # NoFile => ~bracket'.pending
  BY <1>3, <1>4, <1>5, <1>6, <1>7, <1>8, <1>9, BracketMoves
<1>11. Before /\ bracket' # NoFile => ~bracket'.seeded
  BY <1>3, <1>4, <1>5, <1>6, <1>7, <1>8, <1>9, BracketMoves
<1>12. ASSUME Before, NEW x \in Requests, req'[x].at = "phase"
       PROVE  req'[x].status \notin Running
  <2>1. CASE req'[x] = req[x]
    BY <1>3, <1>12, <2>1 DEF At
  <2>2. ASSUME NEW r \in Requests, AutoLoad(r) \/ AutoResult(r) \/ AutoReload(r) \/ PoolPhase(r), r # x
        PROVE  req'[x] = req[x]
    BY <1>1, <2>2, OneMoves DEF MatchSteps
  <2>3. CASE AutoLoad(x) \/ AutoResult(x) \/ AutoReload(x)
    <3>1. req[x] \in Checks
      BY <1>1, <2>3, Places DEF AutoLoad, AutoResult, AutoReload, On, At
    <3>2. \/ \E status \in {comp.status, "draw-ready"} :
               req'[x] = [op |-> "score", at |-> "phase", pools |-> req[x].pools, status |-> status]
          \/ req'[x] = [req[x] EXCEPT !.at = "result"] \/ req'[x] = [req[x] EXCEPT !.at = "autostart"]
      BY <1>1, <2>3 DEF AutoLoad, AutoResult, AutoReload, GoWith, Asked
    <3>3. req'[x].status \in {comp.status, "draw-ready"}
      BY <1>12, <3>1, <3>2 DEF Checks
    <3> QED
      BY <1>12, <3>3 DEF Running
  <2>4. CASE PoolPhase(x)
    <3>1. req[x] \in Looks /\ req[x] # Idle
      BY <1>1, <2>4, Places DEF PoolPhase, On, At, Looks, Idle
    <3>2. Go(x, "flip") \/ Go(x, "settle") \/ End(x)
      BY <2>4 DEF PoolPhase
    <3>3. \A at : Go(x, at) => req'[x].at = at
      BY <1>1, <3>1, Going
    <3>4. End(x) => req'[x].at = "idle"
      BY <1>1, Ending DEF Idle
    <3> QED
      BY <1>12, <3>2, <3>3, <3>4
  <2> QED
    BY <1>1, <1>12, <2>1, <2>2, <2>3, <2>4, LooksMove DEF LookAt
<1> QED
  BY <1>2, <1>10, <1>11, <1>12

\* The first result recorded on a pending draw has someone on the way to
\* start the competition until it is started.
LEMMA AnsweredStep ==
  ASSUME Typed, FormatFits, Fresh, PendingDone, SeatedLater, Answered, Next
  PROVE  Answered'
<1>1. Stored /\ Asked /\ comp \in Settings /\ comp'.format = comp.format /\ (bracket = NoFile \/ bracket \in Trees)
  BY CompIs DEF Typed, Stored
<1> SUFFICES ASSUME comp'.status = "draw-ready", SomePending'
             PROVE  \E x \in Requests : (OnTheWay(x))'
  BY DEF Answered, OnTheWay, AfterWrite
<1>2. ASSUME NEW r \in Requests, Score(r) \/ Undo(r) \/ ScoreBracket(r)
      PROVE  (OnTheWay(r))'
  <2>1. \E p \in BOOLEAN : GoWith(r, [op |-> "score", at |-> "auto", pools |-> p])
    BY <1>2 DEF Score, Undo, ScoreBracket
  <2> QED
    BY <1>1, <2>1, GoingWith DEF OnTheWay, AfterWrite
<1>3. ASSUME \A r \in Requests : ~Score(r) /\ ~Undo(r) /\ ~ScoreBracket(r)
      PROVE  SomePending
  <2>1. ASSUME NEW i \in DOMAIN matches', matches'[i].pending
        PROVE  SomePending
    <3>1. ASSUME NEW r \in Requests, AdvanceAppend(r)
          PROVE  i \in DOMAIN matches /\ matches[i].pending
      <4>1. i = Len(matches) + 1 \/ (i \in DOMAIN matches /\ matches'[i] = matches[i])
        BY <1>1, <2>1, <3>1, AppendIs
      <4>2. ~matches'[Len(matches) + 1].pending
        BY <1>1, <3>1, NewRowIs
      <4> QED
        BY <2>1, <4>1, <4>2
    <3>2. ASSUME NEW r \in Requests, DrawMatches(r)
          PROVE  FALSE
      BY <2>1, <3>2, DrawnIs DEF Row
    <3>3. i \in DOMAIN matches /\ matches[i].pending
      BY <1>3, <2>1, <3>1, <3>2, MatchesMoves DEF DiscardFile, Delete, rows
    <3> QED
      BY <3>3 DEF SomePending
  <2>2. ASSUME bracket' # NoFile, bracket'.pending
        PROVE  SomePending
    <3>1. ASSUME NEW r \in Requests, DrawBracket(r)
          PROVE  bracket' = bracket
      BY <2>2, <3>1, BracketDrawn DEF NewBracket
    <3>2. ASSUME NEW r \in Requests, PoolPhase(r) \/ ReplaceParticipantInDraw(r)
          PROVE  bracket # NoFile /\ bracket'.pending = bracket.pending
      BY <1>1, <2>2, <3>2 DEF PoolPhase, ReplaceParticipantInDraw, files, Trees
    <3>3. bracket # NoFile /\ bracket.pending
      BY <1>3, <2>2, <3>1, <3>2, BracketMoves DEF DiscardFile, Delete
    <3> QED
      BY <3>3 DEF SomePending
  <2> QED
    BY <2>1, <2>2 DEF SomePending
<1>4. ASSUME comp.status # "draw-ready"
      PROVE  ~SomePending /\ \A r \in Requests : ~Score(r) /\ ~Undo(r) /\ ~ScoreBracket(r)
  <2>1. PICK r \in Requests : DrawCommit(r)
    BY <1>1, <1>4, StatusGoes, BeginIs DEF RunningStatus
  <2>2. DrawAt(r, {"commit"}) /\ DrawAt(r, {"tree", "commit"})
    BY <1>1, <2>1, EndTurns DEF DrawAt, At, Writings
  <2>3. ~ \E i \in DOMAIN matches : matches[i].pending
    <3>1. CASE HasMatches
      BY <2>2, <3>1 DEF Fresh
    <3>2. CASE ~HasMatches
      BY <3>2 DEF FormatFits
    <3> QED
      BY <3>1, <3>2
  <2>4. ~(bracket # NoFile /\ bracket.pending)
    BY <2>2 DEF Fresh, FormatFits, SeatedLater, HasBracket
  <2>5. comp' # comp
    BY <1>4
  <2>6. \A x \in Requests : ~Score(x) /\ ~Undo(x) /\ ~ScoreBracket(x)
    BY <2>5 DEF Score, Undo, ScoreBracket
  <2> QED
    BY <2>3, <2>4, <2>6 DEF SomePending
<1>5. CASE comp.status = "draw-ready" /\ SomePending
  <2>1. PICK x \in Requests : OnTheWay(x)
    BY <1>5 DEF Answered, OnTheWay, AfterWrite
  <2>2. ASSUME NEW r \in Requests, AutoLoad(r) \/ AutoResult(r) \/ StartIfDrawReady(r), r # x
        PROVE  req'[x] = req[x]
    BY <1>1, <2>2, OneMoves DEF MatchSteps
  <2>3. \A r \in Requests : ~NotFound(r)
    BY GoneStays
  <2>4. req'[x] = req[x] => (OnTheWay(x))'
    BY <2>1 DEF OnTheWay
  <2>5. ASSUME AutoLoad(x) \/ AutoResult(x)
        PROVE  (OnTheWay(x))'
    <3>1. HasRecordedResult
      BY <1>5 DEF SomePending, PendingDone, HasRecordedResult
    <3>2. req[x] \in Checks
      BY <1>1, <2>5, Places DEF AutoLoad, AutoResult, On, At
    <3>3. \E at \in {"result", "autostart"} : GoWith(x, [req[x] EXCEPT !.at = at])
      BY <1>5, <2>5, <3>1 DEF AutoLoad, AutoResult
    <3> QED
      BY <1>1, <3>2, <3>3, GoingWith DEF Checks, OnTheWay, AfterWrite
  <2>6. ~StartIfDrawReady(x)
    BY <1>1, <1>5, BeginIs DEF StartIfDrawReady, RunningStatus
  <2> QED
    BY <1>1, <2>1, <2>2, <2>3, <2>4, <2>5, <2>6, ChecksMove
<1> QED
  BY <1>2, <1>3, <1>4, <1>5

-----------------------------------------------------------------------------
\* The invariant holds at the start, and no step breaks a part of it.

LEMMA LifeInit ==
  ASSUME Init
  PROVE  LifeInv
<1>1. PICK f \in Formats, n \in 1 .. MaxRounds :
           comp = [status |-> "setup", format |-> f, rules |-> 0, round |-> 0,
                   rounds |-> IF f = "swiss" THEN n ELSE 1]
  BY DEF Init
<1>2. comp \in Settings /\ comp.status = "setup" /\ comp.round = 0
  <2>1. n \in Nat /\ f \in {"mixed", "league", "swiss", "knockout"}
    BY DrawsAssumption, CompetitionAssumption
  <2> QED
    BY <1>1, <2>1 DEF Settings, Statuses
<1>3. /\ roster = [entries |-> 0, names |-> 0] /\ pools = NoFile /\ matches = <<>>
      /\ drawn = NoFile /\ bracket = NoFile /\ saves = 0 /\ late = {} /\ crossed = {}
      /\ req = [r \in Requests |-> Idle]
  BY DEF Init
<1>4. /\ \A r \in Requests : req[r].op = "none" /\ req[r].at = "idle"
      /\ Discarding = {} /\ Renaming = {} /\ Drawing = {}
  BY <1>3 DEF Idle, Discarding, Renaming, Drawing
<1>5. Stored /\ Asked
  BY <1>2, <1>3 DEF Stored, Asked, Rosters, Shapes
<1>6. FormatFits
  BY <1>2, <1>3, <1>4 DEF FormatFits, At
<1>7. OneDraw /\ Fresh /\ Written
  BY <1>2, <1>4 DEF OneDraw, Fresh, Written, DrawAt, Draws
<1>8. Current /\ Renamings /\ Standing /\ Lingering
  BY <1>2, <1>4 DEF Current, Renamings, Standing, Lingering
<1>9. SetupRounds /\ Advancing /\ FirstFromSetup /\ DrawsInSetup
  BY <1>2, <1>4 DEF SetupRounds, Advancing, FirstFromSetup, DrawsInSetup, HasRows, Advance, Draws
<1>10. PendingDone /\ SeatedLater /\ Answered
  BY <1>2, <1>3, <1>4 DEF PendingDone, SeatedLater, Answered, At
<1> QED
  BY <1>5, <1>6, <1>7, <1>8, <1>9, <1>10 DEF LifeInv

LEMMA LifeStutters ==
  ASSUME LifeInv, UNCHANGED vars
  PROVE  LifeInv'
<1>1. /\ UNCHANGED <<comp, roster, pools, matches, drawn, bracket, req, saves, late, crossed>>
      /\ HasPools' = HasPools /\ HasBracket' = HasBracket /\ HasMatches' = HasMatches
      /\ Drawing' = Drawing /\ Discarding' = Discarding /\ Renaming' = Renaming
      /\ (\A n : (OfRound(n))' = OfRound(n))
  BY DEF vars, HasPools, HasBracket, HasMatches, Drawing, Discarding, Renaming, OfRound
<1>2. Stored' /\ Asked'
  BY <1>1 DEF LifeInv, Stored, Asked
<1>3. FormatFits'
  BY <1>1 DEF LifeInv, FormatFits, At
<1>4. OneDraw'
  BY <1>1 DEF LifeInv, OneDraw
<1>5. Fresh'
  BY <1>1 DEF LifeInv, Fresh, DrawAt, DrawTag
<1>6. Written'
  BY <1>1 DEF LifeInv, Written, DrawAt
<1>7. Current' /\ Renamings'
  BY <1>1 DEF LifeInv, Current, IsCurrent, Renamings
<1>8. Standing' /\ Lingering'
  BY <1>1 DEF LifeInv, Standing, Whole, Lingering
<1>9. SetupRounds'
  BY <1>1 DEF LifeInv, SetupRounds, HasRows, FirstRound, Advance, At
<1>10. Advancing'
  BY <1>1 DEF LifeInv, Advancing, HasRows, Advance, At
<1>11. FirstFromSetup' /\ DrawsInSetup'
  BY <1>1 DEF LifeInv, FirstFromSetup, DrawsInSetup, Advance
<1>12. PendingDone' /\ SeatedLater'
  BY <1>1 DEF LifeInv, PendingDone, SeatedLater, At
<1>13. Answered'
  BY <1>1 DEF LifeInv, Answered, SomePending
<1> QED
  BY <1>2, <1>3, <1>4, <1>5, <1>6, <1>7, <1>8, <1>9, <1>10, <1>11, <1>12, <1>13 DEF LifeInv

LEMMA LifeStep ==
  ASSUME DrawsAtOnce = 1, LifeInv, [Next]_vars
  PROVE  LifeInv'
<1>1. CASE Next
  <2>1. Typed /\ Typed'
    BY <1>1, TypedStep DEF LifeInv, Typed
  <2>2. FormatFits' /\ OneDraw'
    BY <1>1, <2>1, FormatFitsStep, OneDrawStep DEF LifeInv
  <2>3. Fresh' /\ Written'
    BY <1>1, <2>1, FreshStep, WrittenStep DEF LifeInv
  <2>4. Current' /\ Renamings'
    BY <1>1, <2>1, CurrentStep, RenamingsStep DEF LifeInv
  <2>5. Standing' /\ Lingering'
    BY <1>1, <2>1, StandingStep, LingeringStep DEF LifeInv
  <2>6. SetupRounds' /\ Advancing'
    BY <1>1, <2>1, SetupRoundsStep, AdvancingStep DEF LifeInv
  <2>7. FirstFromSetup' /\ DrawsInSetup'
    BY <1>1, <2>1, FirstFromSetupStep, DrawsInSetupStep DEF LifeInv
  <2>8. PendingDone' /\ SeatedLater' /\ Answered'
    BY <1>1, <2>1, PendingDoneStep, SeatedLaterStep, AnsweredStep DEF LifeInv
  <2> QED
    BY <2>1, <2>2, <2>3, <2>4, <2>5, <2>6, <2>7, <2>8 DEF LifeInv, Typed
<1>2. CASE UNCHANGED vars
  BY <1>2, LifeStutters
<1> QED
  BY <1>1, <1>2

\* The inductive invariant holds in every reachable state: what the files of a
\* competition and the requests in flight know of each other, whatever draws,
\* starts, discards, rounds, results and corrections overlap (one draw in
\* flight at a time: the desk that draws).
THEOREM LifeInvariant ==
  ASSUME DrawsAtOnce = 1
  PROVE  Spec => []LifeInv
<1>1. Init => LifeInv
  BY LifeInit
<1>2. LifeInv /\ [Next]_vars => LifeInv'
  BY LifeStep
<1> QED
  BY <1>1, <1>2, PTL DEF Spec

\* A draw the competition stands on has all its files, and a pending one is of
\* the settings, the entries and the names the competition has now
\* (GenerateDraw's commit check, DiscardDraw, AdvanceSwissRound).
THEOREM DrawsAreSound ==
  ASSUME DrawsAtOnce = 1
  PROVE  Spec => []DrawIsSound
<1>1. LifeInv => DrawIsSound
  <2> SUFFICES ASSUME LifeInv
               PROVE  DrawIsWhole /\ PendingDrawIsCurrent
    BY DEF DrawIsSound
  <2>1. DrawIsWhole
    BY DEF LifeInv, Standing, DrawIsWhole, Running
  <2>2. PendingDrawIsCurrent
    <3> SUFFICES ASSUME comp.status = "draw-ready", NEW tag, IsCurrent(tag) \/
                          \/ HasPools /\ pools # NoFile /\ tag = pools
                          \/ HasMatches /\ drawn # NoFile /\ tag = drawn
                          \/ comp.format = "knockout" /\ bracket # NoFile /\ tag = bracket.of
                 PROVE  IsCurrent(tag)
      BY DEF PendingDrawIsCurrent, IsCurrent
    <3> QED
      BY DEF LifeInv, Current
  <2> QED
    BY <2>1, <2>2
<1>2. Init => LifeInv
  BY LifeInit
<1>3. LifeInv /\ [Next]_vars => LifeInv'
  BY LifeStep
<1> QED
  BY <1>1, <1>2, <1>3, PTL DEF Spec

\* A result starts the competition it was recorded in: with no request in
\* flight, no pending draw holds a result (autoStartOnFirstResult).
THEOREM ScoresStartTheDraw ==
  ASSUME DrawsAtOnce = 1
  PROVE  Spec => []ScoredDrawStarts
<1>1. LifeInv => ScoredDrawStarts
  <2> SUFFICES ASSUME LifeInv, InFlight = {}, comp.status = "draw-ready"
               PROVE  ~SomePending
    BY DEF ScoredDrawStarts, SomePending
  <2>1. \A r \in Requests : req[r].op # "score"
    BY DEF InFlight, Idle
  <2> QED
    BY <2>1 DEF LifeInv, Answered
<1>2. Init => LifeInv
  BY LifeInit
<1>3. LifeInv /\ [Next]_vars => LifeInv'
  BY LifeStep
<1> QED
  BY <1>1, <1>2, <1>3, PTL DEF Spec

LEMMA ForwardStep ==
  ASSUME Typed, FormatFits, Next
  PROVE  /\ comp'.status # comp.status /\ comp'.status # "gone" =>
              <<comp.status, comp'.status>> \in
                  {<<"setup", "draw-ready">>, <<"setup", "pools">>, <<"draw-ready", "setup">>}
                  \cup {<<"draw-ready", RunningStatus(comp.format)>>, <<"pools", "knockout">>}
                  \cup (Running \X Final)
         /\ comp.status # "completed" /\ comp'.status = "completed" =>
              IF HasBracket /\ bracket # NoFile THEN bracket.done
              ELSE AllDone(matches) /\ SwissRoundsToDraw = 0
<1>1. Stored /\ Asked
  BY DEF Typed
<1>2. comp'.status # comp.status /\ comp'.status # "gone" =>
              <<comp.status, comp'.status>> \in
                  {<<"setup", "draw-ready">>, <<"setup", "pools">>, <<"draw-ready", "setup">>}
                  \cup {<<"draw-ready", RunningStatus(comp.format)>>, <<"pools", "knockout">>}
                  \cup (Running \X Final)
  BY <1>1, StatusGoes, BeginIs DEF Running, Final
<1>3. ASSUME comp.status # "completed", comp'.status = "completed"
      PROVE  IF HasBracket /\ bracket # NoFile THEN bracket.done
             ELSE AllDone(matches) /\ SwissRoundsToDraw = 0
  <2>1. CASE \E r \in Requests : SettleLeague(r) /\ AllDone(matches)
    <3>1. comp.format = "league"
      BY <2>1 DEF SettleLeague, On, FormatFits
    <3> QED
      BY <2>1, <3>1 DEF HasBracket, SwissRoundsToDraw
  <2>2. CASE Settled
    BY <2>2 DEF Settled, FormatFits
  <2> QED
    BY <1>1, <1>3, <2>1, <2>2, StatusGoes, BeginIs DEF RunningStatus
<1> QED
  BY <1>2, <1>3

\* A competition goes forward only, a discarded draw excepted, and is
\* completed only when nothing of it is left to play, on what is recorded at
\* that moment: no request moves it on a status or on results it read before
\* another moved it.
THEOREM StatusMovesForward ==
  ASSUME DrawsAtOnce = 1
  PROVE  Spec => MovesForward
<1>1. LifeInv /\ [Next]_vars =>
        [comp'.status # comp.status /\ comp'.status # "gone" =>
          <<comp.status, comp'.status>> \in
              {<<"setup", "draw-ready">>, <<"setup", "pools">>, <<"draw-ready", "setup">>}
              \cup {<<"draw-ready", RunningStatus(comp.format)>>, <<"pools", "knockout">>}
              \cup (Running \X Final)]_vars
  BY ForwardStep DEF LifeInv, Typed
<1>2. LifeInv /\ [Next]_vars =>
        [comp.status # "completed" /\ comp'.status = "completed" =>
          IF HasBracket /\ bracket # NoFile THEN bracket.done
          ELSE AllDone(matches) /\ SwissRoundsToDraw = 0]_vars
  BY ForwardStep DEF LifeInv, Typed
<1>3. Init => LifeInv
  BY LifeInit
<1>4. LifeInv /\ [Next]_vars => LifeInv'
  BY LifeStep
<1> QED
  BY <1>1, <1>2, <1>3, <1>4, PTL DEF Spec, MovesForward, StatusMoves, CompletesSettled

LEMMA ResultStays ==
  ASSUME Typed, DrawsInSetup, Next, NEW i \in DOMAIN matches, matches[i].done, comp.status # "setup",
         saves' = saves, Discarding = {}, comp'.status # "gone", "discard" \notin late
  PROVE  i \in DOMAIN matches' /\ matches'[i].done
<1>1. Stored /\ Asked /\ \A r \in Requests : ~Delete(r)
  BY GoneStays DEF Typed
<1>2. ASSUME NEW r \in Requests, DrawMatches(r)
      PROVE  FALSE
  BY <1>1, <1>2, WriteTurns DEF DrawsInSetup, Writings, DrawMatches, On
<1>3. \A r \in Requests : ~DiscardFile(r)
  BY <1>1, DiscardTurns DEF Discarding
<1>4. ASSUME NEW r \in Requests, Score(r)
      PROVE  i \in DOMAIN matches' /\ matches'[i].done
  BY <1>1, <1>4, ScoreIs DEF RowSet
<1>5. \A r \in Requests : ~Undo(r)
  <2>1. saves \in Nat /\ saves' # saves + 1
    BY <1>1 DEF Stored
  <2> QED
    BY <2>1 DEF Undo, Save
<1>6. ASSUME NEW r \in Requests, AdvanceAppend(r)
      PROVE  i \in DOMAIN matches' /\ matches'[i].done
  BY <1>1, <1>6, AppendIs
<1> QED
  BY <1>1, <1>2, <1>3, <1>4, <1>5, <1>6, MatchesMoves

\* A recorded result stays until it is taken back, discarded or deleted with
\* its competition: a Swiss round appended meanwhile, a draw, a completion and
\* a correction of a name never roll it back (save when a discard overlapped a
\* step of the draw).
THEOREM RecordedResultsStay ==
  ASSUME DrawsAtOnce = 1
  PROVE  Spec => ResultsStay
<1>1. LifeInv /\ [Next]_vars =>
        [\A i \in DOMAIN matches :
          matches[i].done /\ comp.status # "setup" /\ saves' = saves /\ Discarding = {} /\ comp'.status # "gone"
              /\ "discard" \notin late
              => i \in DOMAIN matches' /\ matches'[i].done]_vars
  BY ResultStays DEF LifeInv, Typed
<1>2. Init => LifeInv
  BY LifeInit
<1>3. LifeInv /\ [Next]_vars => LifeInv'
  BY LifeStep
<1> QED
  BY <1>1, <1>2, <1>3, PTL DEF Spec, ResultsStay

=============================================================================
