# A TLA+ model of bracket-creator

bracket-creator runs kendo tournaments: a Go server (`internal/`) keeps one
tournament in a folder of plain files, many devices score matches at once
through a browser client (`web-mobile/js`), and every screen in the venue
follows them over a stream of server-sent events. This folder holds the
specifications of the parts a test hardly reaches: files and caches across
crashes, requests that release a lock between what they read and what they
write, results that arrive in any order and more than once, events across lost
connections, pushes across goroutines.

Modules are checked with TLC on small instances (the `.cfg` files), and the
properties of eight of them are proved with TLAPS for every value of their
constants (`*Proofs.tla`). `PROJECT.json` maps every definition to the lines it
models and lists the runs, the mutants, the theorems and the hazards.

1. [The system](#1-the-system)
2. [Modules](#2-modules)
3. [Runs, bounds, fairness](#3-runs-bounds-fairness)
4. [What is proved](#4-what-is-proved)
5. [What is only model-checked](#5-what-is-only-model-checked)
6. [Observations about the code](#6-observations-about-the-code)
7. [What is not modelled](#7-what-is-not-modelled)
8. [Plan](#8-plan)

## 1. The system

| Component | State | Operations | What is hard | Modelled |
|---|---|---|---|---|
| Write-ahead log (`internal/state/wal`) | `<data>/.wal/<id>.json` | begin, append, commit, apply, done, scan, replay | a crash between any two file writes, and during the replay | `TxStore` |
| Transactions, savers, file caches (`internal/state/store.go`, `transactions.go`, `atomic_write.go`) | a competition's files; a cache per file with an mtime and a version | `WithTransaction`, about forty savers and loaders, invalidation | a write is seen in the cache before it is on disk; aborts; mtime ties | `TxStore` (partly) |
| Event hub (`internal/mobileapp/hub.go`) | `seq`, a ring of 200 events, subscriber channels of 100 | `Broadcast`, `subscribeWithReplay`, `HandleEvents`, `Close` | joining a replay to a live stream; slow clients; restarts forget `seq` | `SSEStream` |
| Shared EventSource and the pages that follow it (`api_client.jsx`, `app.jsx`, `patch.jsx`) | one source, last event id, retry timer, watchdog; the data shown, refetches in flight | connect, watchdog, retry, reconnect, patch, gap, resync, resume, refetch | answers in any order; refetches that fail; teardown and reopen from five places | `SSEStream` (partly) |
| Match push coalescer (`broadcast_coalescer.go`) | an entry per running match: lock, window, held push, timer, generation | `Submit`, `SendNow`, `flushPending`, `Close` | entries dropped while others wait for them; timers that fire late; shutdown | `PushCoalescer` |
| Restore (`internal/state/restore*.go`) | `.restore/<token>/`, `requeue-pending.json` | plan, stage, swap, roll forward, requeue | a folder swap over several renames, interrupted anywhere | `RestoreJournal` (partly) |
| Score log (`score_log.go`, `score_replay.go`) | per match, an append-only list of taps and baselines | append, replay | a match is the replay of its lines by stamp, whatever order they arrive in | `BoutScore`, `ScoreReplay`, `ScoreLog` (partly) |
| Whole writes (`match_merge.go`, `match_groups.go`) | stamps of each group of a match | merge, result lock | a finish made before what another device has sent | `ScoreLog` (partly) |
| Client outbox (`api_client.jsx`) | taps and writes in `localStorage`, shared by the pages of a device | enqueue, coalesce, flush, park, discard, merge of storage events | order per match, lost answers, several pages, passwords, full storage | `OutboxQueue`, `Outbox` (partly) |
| Court exclusivity, lifecycle of a match (`scoring_tx.go`, `court_validation.go`, `result_lock.go`, `court_queue.go`) | courts, statuses, queue times | start, finish, requeue, reopen, swap, court move | gates checked on what another request is about to change; resends | `CourtQueue`, `Courts` (partly) |
| Knockout advancement and corrections (`bracket.go`, `knockout.go`, `pool_requalify.go`, `scoring.go`) | bracket, pools, order of a pool | result, decision, correction, reopen, seating | a correction that reaches what was fought on its result | `Bracket`, `Knockout` (partly) |
| Eligibility (`eligibility.go`, `daihyosen.go`) | rulings by competitor | withdraw, reinstate | bars that outlive their ruling | `Knockout` (partly) |
| Team matches and kachinuki (`kachinuki.go`, `kachinuki_opener.go`) | bout log, lineups in force | record bout and advance, pair by hand, remove, end, reopen | an advance outside the transaction of its write | `Kachinuki` (partly) |
| Team lineups (`lineup_carry.go`, `lineup_in_force.go`) | lineup records by slot and stamp | save, remove, start, carry | changes in any order, each carried lineup following | `Lineups` (partly) |
| Competition lifecycle (`competition.go`, `swiss.go`, handlers) | `config.md`, roster, draw files | draw, start, discard, next round, complete, delete | requests of several lock sections that overlap | `Lifecycle` (partly) |
| Swiss rounds (`swiss.go`) | rounds drawn | advance | a round appended to a list read earlier | `Lifecycle` (partly) |
| Participants and import (`participants.go`, `roster_save.go`) | roster, seeds | add, rename, replace | edits that race a draw | `Lifecycle` (partly) |
| Draw and seeding (`internal/helper`) | none (pure) | seeding, byes, pool distribution | boundaries: odd sizes, clubs, seeds | no |
| Derived caches (`league_standings.go`, `ranking.go`) | caches by file token | compute, invalidate | a token read before the file changes | no |
| Backups (`scheduled_backup.go`, `backup.go`, `write_once.go`) | backup files, last run | snapshot, save, schedule | pending logs, write-once names | no |
| Handlers and validation, exports, web pages, command-line generator | none of their own | parsing, layout, conversion | little control | no |

How they meet. A page queues every write of its operator in the outbox and
sends it until it is answered. A handler takes a competition's lock through
`Store.WithTransaction` (some take the tournament-wide court lock around it),
runs the engine on the transaction's handle, and the transaction's files are
committed through the write-ahead log. The engine folds a match from its score
log, advances the bracket, moves a pool's finishers, and a first result starts
the competition. After it, with no lock held, the handler asks the coalescer
for a push; the push reads the stored match again and broadcasts it; the hub
stamps it, keeps it in the ring and hands it to every channel; `HandleEvents`
writes it to the connection; the shared source passes it to the page, which
patches what it shows and schedules a refetch, and the refetch reads the store
through the caches. A restart loses the hub, the caches and whatever was
between two of these steps.

What makes each part correct: the store is atomic (`AtomicStore`) and a restore
is (`AtomicFolder`); a match is what its log says, with one account of every
mark; a write is kept until it is settled and lands once; a court holds one
match; winners stay where they won and nothing fought is repainted; a
competition goes forward and its recorded results stay; a quiet page is
current.

## 2. Modules

| Module | Models | Checked by | Proofs |
|---|---|---|---|
| `AtomicStore` | what a store of files promises: an update happens in one step, or not at all | through `TxStore` | |
| `TxStore` | `Store.WithTransaction`, savers, caches, write-ahead log, crash, startup; implements `AtomicStore` | `tx_store`, `tx_faults` | `TxStoreProofs` |
| `SSEStream` | hub, streaming handler, shared source, page | `sse_stream` | `SSEStreamProofs` |
| `PushCoalescer` | `matchBroadcastCoalescer` | `push_coalescer` | `PushCoalescerProofs` |
| `AtomicFolder` | what a restore promises of the data folder: all of it in one step | through `RestoreJournal` | |
| `RestoreJournal` (`MCRestoreJournal`) | `Store.Restore`, its journal, the roll forward of a start, the requeue after it; implements `AtomicFolder` | `restore_journal` | `RestoreJournalProofs` |
| `BoutScore` | one bout: marks, fouls, overtime, fusensho, ties, as operators | through `ScoreLog` | |
| `ScoreReplay` | the replay of a score log, as operators | through `ScoreLog` | |
| `ScoreLog` (`MCScoreLog`) | devices, their outboxes, the handlers that log and replay | `score_log` | |
| `Bracket` | an elimination bracket and what one result does to it, as operators | through `Knockout` | |
| `Knockout` (`MCKnockout`) | pools, knockout, corrections, bars, the resolver that seats finishers | `knockout` | |
| `OutboxQueue` | the queue of one page as a value: coalescing, chains, merging | through `Outbox` | `OutboxProofs` |
| `Outbox` (`MCOutbox`) | pages of one device, browser storage, the flush, faults | `outbox` | `OutboxProofs` |
| `Lifecycle` (`MCLifecycle`) | a competition: draw, start, discard, rounds, completion, roster | `lifecycle` | `LifecycleProofs` |
| `Lineups` (`MCLineups`) | a team's lineup records, the carry, the follow | `lineups` | |
| `Kachinuki` (`MCKachinuki`) | a winner-stays-on encounter and its Record bout requests | `kachinuki` | `KachinukiProofs` |
| `CourtQueue` | the order and times of the matches waiting on a court, as operators | through `Courts` | |
| `Courts` (`MCCourts`) | the doors that put a match on a court, their locks, resends, restarts | `courts` | `CourtsProofs` |

### TxStore

One competition. A file holds a set of updates, so that "update t landed in
file f" is `t \in disk[f]`. The competition's write lock is held through a
whole transaction and by every plain saver, so one control variable `pc` says
what its holder does, and only readers run beside it: `Visible(f)` is what
`loadCached` would return, at any moment. The files are of three kinds, as in
the code: with a file cache and staged (`pool-matches.csv`, `bracket.json`,
`config.md`, ...), staged without one (the score log), and written through by
a transaction's handle (`participants.csv`, `pools.csv`, written by
`UpdateParticipant` and `SavePools`, whose comment says they are not atomic
with the rest).

`Begin`, `Stage`, `WriteThrough`, then `Abort`, `EndEmpty` or `Commit` (the
rename of the log, the commit point), one `Apply` for each file, `Restamp`
(refreshCachesAfterWALApply), `Done`. `Save` is a plain saver, `Load` a reader
that fills a cache. `Crash` is possible everywhere; `Start` runs the recovery
of `Store.init`, `Settle` that of `settleCompWALsLocked`: `Recover(w)` takes
the pending logs in the order of their ids, `Rewrite(f)` writes each file,
`Rewritten` drops the caches, `Retire` removes the log. `atomicWriteFile` is
one step because a rename is: a crash precedes it or follows it. `Touch` is a
write's effect on a cache's stamp: the mtime moves, or does not when two
writes fall in one tick of the file system's clock. `Faults` says which disk
operations may fail: the log's write ("commit"), a file's ("apply"), the
log's removal ("done").

`Logical(f)` is the abstraction: the content f has once every pending log is
written. The refinement maps `AtomicStore`'s store to it, so the commit of the
log is the step in which a transaction happens.

### SSEStream

One page, one server. A *write* is one change of the stored tournament, and
sets of writes stand for the stored data, an answer, and what the page shows.
`Save` and `Broadcast` are two steps: the server can die between them. `seq`
and the ring of `HistorySize` slots are the hub's, with the arithmetic of
`snapshotHistorySinceLocked`; `chan` is the page's channel of `Buffer` slots,
`pipe` what has been written to its connection. `stale` counts the channels of
connections the page has left and the server has not noticed, which count
against `MaxClients`. The page's `Drop` happens in `Error` (onerror and the
watchdog), `Break`, `GoOnline` and `Resume`. `Receive` applies `checkSeqGap`,
patches what the event carries (`LiveWrites`, a running match's scoreline) and
schedules a refetch; `Fetch`, `FetchFails` and `Land` are the refetch, whose
answers land in any order and pass `keepNewerMatches`. `ReopenRefetch` is
whether the subscriber refetches when its stream reopens: `app.jsx` does,
`admin.jsx` subscribes without a status callback.

### PushCoalescer

One match. Threads are the writers (a request that saves, then pushes), the
trailing timers, and the goroutine of `Close`. The steps are those between
which another goroutine can run: `Save`; `Get` (LoadOrStore of the entry);
taking its lock, found live or dead; the decision under it (`SendNow`,
`SubmitNow`, `SubmitHeld`, `SubmitArms`, `SubmitClosed`); the read of the store
(`ReadStored`) and the broadcast (`Cast`), which releases the lock. Versions
count the saves. `window` is `hasLast` and `last`: `WindowEnds` is the passage
of 250 ms, after which a timer armed in it may `Fire` at any time. `gen` and
`armedFor` are the generation check. `Close` is `BeginClose` (closed is set),
`CloseRange` (the map is walked), `CloseEntry`, `CloseCast` and `CloseEnds`
(the WaitGroup).

### RestoreJournal

The data folder as paths: competition folders, and `Settings`, the
`tournament.md` file. What distinguishes contents is their author (an
operator's operation or a restore) and, in a competition, whether its one match
of interest runs and who brought it running; the settings hold the password.
On disk are the live paths, a log a transaction may have left (`wal`), each
restore's token folder (`dir`, `new`, `old`, `steps`), the safety copies and
`requeue-pending.json`.

A handler goes through `Stage` (the plan, with no lock, and the staging),
`Lock` or `Refuse` (the plan judged again under the locks, the password staged
again), `Settle`, `SaveCopy`, `WriteRequeuePending`, `WriteJournal` (from here
on the restore happens), `MoveOut` and `MoveIn` for the steps of `JournalFor`,
`RemoveJournal`, `RemoveToken`, and with no lock `List`, `Revert` and
`RemoveRequeuePending`. `WriteFails` is any failure before the journal,
`StepFails` a rename that fails (run once more, then the handler gives up and
the journal stays), `FinishFails` a removal that fails and is only logged. A
start replays the logs, then takes the token folders one by one
(`RemoveStaging`, `RollForward` and the same steps), then resolves the pending
matches as `Startup`, then serves. `Crash` is possible anywhere; a power loss
that keeps a prefix of the renames is a crash at an earlier step, because the
journal is synced before the first of them. Renaming a folder onto a folder
fails, a file onto a file replaces it.

`RolledForward` is the abstraction: the folder once the journals on disk have
been run to their end. The refinement maps `AtomicFolder`'s folder to it, so
the writing of the journal is the step in which the restore happens; the
number of operations and the requests are mapped too, so that a half made swap
cannot pass for an operator's deletion or for a smaller restore.


### BoutScore, ScoreReplay, ScoreLog

`BoutScore` is `internal/domain/score_event.go`: a tap folded into a bout
(`FoldBoutTap`), answering the new score and what became of the tap.
`ScoreReplay` is `score_replay.go`: the lines of a log in stamp order
(`InOrder`), taps folded, baselines set group by group (`ApplyBaseline`), and
the rules that turn a line away: a closed match (`ClosedBefore`), a rival
result (`RivalResult`, `HeldOver`), a tap already in a baseline (`Absorbed`).
Both are pure; neither declares a RECURSIVE operator, so they can be reasoned
about. `ScoreLog` puts them to work: a device makes taps and whole writes with
a stamp above all it has seen (`Tap`, `Finish`, `Correct`, `Decide`), sends the
oldest of its outbox (`Send`), may lose the answer (`SendLost`, so the write
comes again), and takes the server's copy (`Refresh`); the handler logs and
replays (`RecordTap`, `RecordWrite`, with the result lock as `Displaces`);
`Reopen` is the desk's, `StartNext` the match fed by this one being called.

### Bracket, Knockout

`Bracket` is a function from match ids to rows and what the engine does to it:
`Propagate` (seat the winner, walk over a bye), `Retract` and `ForceReopen`
(unwind the chain a winner was carried along), `Chain`, `Reached`. `Knockout`
has the doors, each one transaction: `Start`, `Finish`, `Correct`, `Decide`,
`Requeue`, `Reopen`, `SetRank`, `Reinstate`; a result of a pool leaves the
request owing the seating of that pool's finishers, which it does in two more
steps (`ReadPools`, `SeatPools`), because `ResolveQualifiedPools` reads before
it locks. `bar` is the ruling each competitor is barred by. Shapes are drawn in
`MCKnockout`: two pools, three pools with a bye, a draw of four with a
3rd-place match.

### OutboxQueue, Outbox

`OutboxQueue` holds the queue of a page as a value: `PlaceWrite` (coalescing
into the entry of the same match, or a new one behind it), `WaitsOn`,
`Upstream`, `IsStuckEntry`, `Merge` (what a page makes of the stored copy).
`Outbox` is one device: up to two pages (`tab`), what they share (`stored`,
with `events` each page has yet to hear), the server's password. One step is
one task of the browser's event loop with the microtasks it leaves: `Write`,
`ServerAnswers`, `GivesUp`, `TimerFires`, `OnStoredQueueChanged`,
`DiscardHeldWrite`, `ParkQueueForReauth`, `ResumeAfterAuth`, `ClearQueue`,
`Close`, `Open`, `ResetPassword`, `StorageTurns`. The pass over the queue
(`FlushQueue`, `Begin`, `EndTurn`, `PassEnd`) is part of each of them: a
function from a world (the page, the stored copy, the events it sends) to a
world. The turns of a pass, one for each base it works on, are a set in the
page (`turns`). `Upstream` is the least set closed under `WaitsOn`, so that
nothing here is RECURSIVE and the modules can be proved about.

### Lifecycle

One competition. A file is modelled by what it was generated from (a tag of
settings, entries and names), `pool-matches.csv` as the sequence of its rows.
A request holds the lock for one store call at a time: `req[r]` is what it is,
the call it makes next, and what it read. A draw is `DrawSnapshot`,
`DrawRoster`, `DrawPools`, `DrawMatches`, `DrawBracket`, then `DrawCommit` or
`DrawConflict` (the settings changed since the snapshot); a discard is
`DiscardCheck`, `DiscardFile`, `DiscardCommit`; a Swiss round is `AdvanceLoad`,
`AdvanceCurrent`, `AdvancePair`, `AdvanceAppend`, `AdvanceBump`,
`AdvanceRunning`. A result (`Score`, `Undo`, `ScoreBracket`) is followed by
`AutoLoad`, `AutoResult`, `StartIfDrawReady` and the phase changes
`FlipToKnockout`, `SettleLeague`. `late` and `crossed` are history: the writes
that landed on a draw they were not checked against, and the requests a discard
overlapped. They name the exceptions of the properties and change nothing.

### Lineups

One team. A record of a lineup says when it was removed, when it was copied
from what was in force, when it started (a pin), and its own changes; a
change's value is its stamp. `Save`, `TakeAway`, `StartMatch`, `Record` land in
any order, `Resend` lands one again. `Derived` recomputes every carried lineup
as the code's follow does. `Converges` compares the lineup each match fields
with what it would be had every change arrived in stamp order (`InStampOrder`).

### Kachinuki

One encounter. `Tap` writes a bout's result. A device's Record bout is
`RecordBout` (into its outbox), `ScoreWriteLands` (the transaction),
`AdvanceRead` (no lock), `AdvanceWrite` (locked, checked again against what was
read, up to three times), `Answer`, or `Lose` at any point, after which it is
sent again. `HandPick`, `RemoveBout`, `EndMatch`, `ReopenMatch`,
`RevertMatchToQueue`, `StartMatch` and `SaveLineup` (which renames the opener)
happen between any two of these.

### CourtQueue, Courts

`CourtQueue` gives the times: the bounds of a court's queue, the time a match
is given when it changes court, the push of the knockout past the pools.
`Courts` has handlers at work (`hand`), client writes kept until answered
(`write`), the write ids in the score logs (`logged`) and the move ids the
process remembers (`seen`). A start is `LockStart` (the court lock, and other
competitions read) and `Start` (the competition's transaction); a reopen
`LockReopen`, `Reopen`; a swap `LockSwap`, `RevertBlocker` (the occupant sent
back), `GateSwap`, `Reopen`; a move `EnterMove`, `LockMove`, `Move`. `SendBack`,
`Finish`, `Bar`, `UpdateMatchTime` and `RunUngated` take no court lock.
`Receive` is possible again after a lost answer, while the first copy is still
worked on, and after `Restart`. `late` marks a write older than a newer result,
which the merge by stamps holds back (clients' clocks are taken not to be
skewed).

## 3. Runs, bounds, fairness

A property is an invariant (I), an action property (A: of each step), a
refinement (R) or a liveness property (L). The comment before each states it.
`CHECK_DEADLOCK FALSE` is in every `.cfg` because every system here may stop:
its budgets of operations are spent and nothing is owed. Each property has a
mutant in `PROJECT.json`: a plausible slip in one definition (the operators
marked `Mutant`, or described as faulty in their comment) under which TLC finds
the property violated in the same instance.

| Run | Instance | States | Properties |
|---|---|---|---|
| `tx_store` | one file of each kind, three updates, two crashes, no fault | 1 181 427 | `VisibleIsLogical` (I), `AckedLanded` (I), `ImplementsAtomicStore` (R), `LogsAreSettled` (L) |
| `tx_faults` | the same files, two updates, two crashes, every disk fault | 1 038 046 | `AbortedNeverLands` (I), `StartupEnds` (L) |
| `sse_stream` | three writes, ring of one, channel of one, one client, a restart, a loss, a resume, two fetches | 311 812 | `QuietIsCurrent` (I), `StreamIsWhole` (I), `EveryWriteHeard` (L) |
| `push_coalescer` | three writers, two timers, `Close`, seven entries | 676 362 | `NothingOutlivesClose` (I), `NeverBackwards` (A), `EveryStateSent` (L) |
| `restore_journal` | two competitions and the settings, two restores, one rename that fails, one edit, two crashes, failing writes and removals, a log left behind; symmetric | 2 347 971 | `StartNeverRefused` (I), `ArchiveMatchIsPending` (I), `RestoreIsOneStep` (R) |
| `score_log` | two devices, two stamps, two taps, two writes, one lost answer, one reopen; an individual match at one all and a team match of two bouts | 119 047 | `VerdictMatchesScoreline` (I), `TapsCountOnce` (A), `ReplayIsTheMatch` (A), `FirstResultStands` (A) |
| `knockout` | three shapes of bracket, two requests seating pools | 301 342 | `SeatsAreSound` (I), `BarsFollowRulings` (I), `RoundsKeepTheirSides` (A) |
| `outbox` | twelve cases of one or two pages (chains, losses, taps, passwords, sign-outs, full storage, refusals, leaving) | 885 010 | `KeptUntilSettled` (I), `NobodyWaitsInVain` (I), `InOrder` (A) |
| `lifecycle` | four formats, two requests, one draw at once, two saves, two rounds; symmetric | 2 439 029 | `DrawIsSound` (I), `ScoredDrawStarts` (I), `MovesForward` (A), `ResultsStay` (A) |
| `lineups` | two positions, two matches, five stamps | 417 786 | `Converges` (I), `OwnLineupsStand` (A) |
| `kachinuki` | two tablets; three taps, Record bouts and other events, in four mixes | 316 680 | `WinnerStaysOn` (I), `AdvanceFits` (A), `RemoveUndoesItsRecord` (A), `EveryRecordCloses` (L) |
| `courts` | three matches, two courts, two writes, two handlers, two events | 918 884 | `OneGatedMatchPerCourt` (I), `WritesLandOnce` (I), `NobodyStuck` (I), `SwapIsWhole` (A), `MovedStandsWhereItWas` (A) |

Why the bounds are enough for these questions. Two updates can conflict and
the third comes before or after both; two crashes, so that the second falls in
the recovery from the first. A ring of one rolls over with the second event
and a channel of one is full with the second, so every path of overflow and
replay is met. Two requests race for an entry of the coalescer while a third
has just been saved, and a second timer is armed after the first was cancelled.
The restores asked for replace, create and remove a competition, with and
without the settings and with and without the leave to touch a running match,
and the second crash falls in the roll forward of the first. Two devices make
every order of two lines of a log, with a third from the reopen. Two requests
of a competition are enough for one to change what the other has read. The
attempts of an advance are three: a requeue, a lineup save and a start turn it
away each time, so two other events are enough for it to give up. Larger instances of `courts` (three events: 5 471 152 states;
three writes: 5 038 009) and of `lifecycle` (three Swiss rounds: 18 457 885
states) pass too, and so do the cases of `outbox` with more faults at once (a
request lost among three kinds of write, a sign-out beside a reset and a failed
request, three writes of either kind beside a lineup: 1 678 592 states) and `kachinuki`
with three taps, two Record bouts and two other events at once (702 855); they
take longer than a run should. And what §4 proves holds for every value of the
constants.

Fairness. Only what the code's own scheduling gives:

- `TxStore`: a stopped server is started again and a recovery, once begun,
  runs on. No update or crash is fair.
- `SSEStream`: handlers and timers run, the server notices a dropped connection
  (the 15 s heartbeat), a stopped server is started, an outage ends, an answer
  that was made gets in. Saves, losses and resumes are not fair.
- `PushCoalescer`: `WF_vars(Progress)`, one condition for all threads, which is
  enough because no step of theirs repeats for ever.
- `ScoreLog`: each device sends what it holds and takes the server's copy.
- `Kachinuki`: the outbox of each device sends what it holds and the server
  finishes what it handles. Lost answers are budgeted, not fair.

What the environment is assumed to be: a fetch fails only while the network or
the server is away; the store answers the coalescer's reads; the ids of logs,
which are the wall clock in nanoseconds, increase; clients' clocks are not
skewed; administrators restore one at a time (`Overlap = FALSE`); a competition
whose log was left behind is not written before it is settled; one desk draws
a competition at a time (`DrawsAtOnce = 1`).

Exceptions a property states, because the code has them, are named in its
definition and listed in §6.

## 4. What is proved

`tlapm` checks every leaf; nothing is taken on trust. 36 theorems are listed
in `PROJECT.json`. In each module the state invariant that the run checks is
not inductive, and the work is to find the one that is; each was checked with
TLC on the run's instance before it was proved. A hypothesis on a constant is
stated in the theorem. Those of `OutboxProofs` hold of a part of the run's
cases; the others the run makes too.

**`TxStoreProofs`** — for any files, updates, number of crashes.
`TypeCorrect`, `AbortedUpdatesVanish` (`AbortedNeverLands`) and
`LogsOutliveTheirWrites` (`RetiredOnlyWhenWritten`) hold whatever disk
operations fail. `CachesAreCoherent` (`VisibleIsLogical`), `AckedUpdatesStay`
(`AckedLanded`) and `StoreIsAtomic` (`ImplementsAtomicStore`) are of a disk
that does not fail (`Faults = {}`); with faults they are false, see §6.
`IInv`: at most one log exists, and it adds exactly its own update to each file
it names (`LogShape`, `LogPlace`); what is staged is the logical content and
the open transaction (`StagedShape`); while a log is written out every file
not yet in `todo` has its content; a cache stamped current is what a
transaction would read (`CacheShape`); `Ledger` says whose update is where. For
the refinement each step leaves `Logical` alone or is one step of
`AtomicStore`. With faults many logs can pile up, and two other invariants
carry the argument: `Confined` (an update nobody may see is in no staged file,
log, cache or file; that of the open transaction is in memory alone) with
`Ordered` (of the logs that pile up one is the newest), and `Retiring` (one log
for each id, and the one about to be removed is in its files).

**`PushCoalescerProofs`** — for any requests and timers. `PushInvariant`,
`PushesNeverGoBack` (`NeverBackwards`), `CloseIsTheEnd`
(`NothingOutlivesClose`). The entry not dropped is the map's (`OneAlive`); a
sender holds the lock of such an entry (`Holding`), so there is one sender; and
what it read is stored and not older than the last push (`Fresh`). For `Close`:
the WaitGroup counts the timers under way (`Counted`), an entry that holds a
push has a timer of its generation (`Armed`), and once `Close` has ranged over
the map only the entry it found can hold a push, none after cancelling, and no
timer is armed after `closed` is set (`Closing`).

**`SSEStreamProofs`** — for any writes, ring, channel, restarts, losses and
resumes. `StreamInvariant` and `StreamHolds` (`StreamIsWhole`);
`QuietPagesAreCurrent` (`QuietIsCurrent`), of a page that refetches when its
stream reopens (`ReopenRefetch = TRUE`, `app.jsx`). `StreamInv`: everything on
its way stands for something cast (`Sourced`), the ring holds the events from
the oldest retained on (`Ring`), a connection joins where the replay ends
(`Connected`), numbers rise along the pipe, channel and ring (`Ordered`), one
run of the server gives each event one number (`OneRun`). `Hearing` adds that
a write saved and not heard is on its way, lost with the page told so, coming
with an answer, or will be fetched.

**`RestoreJournalProofs`** — for any competitions, restores, requests, edits
and crashes, with at most one rename the system refuses (`MaxRenameFailures`
in {0, 1}; with two the property is false, see §6). `JournalInvariant` and
`StartsAreServed` (`StartNeverRefused`); and, when no restore swaps while
another's requeue goes on (`Overlap = FALSE`), `RestoreInvariant`,
`ArchivedMatchesArePending` (`ArchiveMatchIsPending`) and `RestoresAreOneStep`
(`RestoreIsOneStep`, the refinement of `AtomicFolder`). The argument: at most
one journal on disk has a move left (`OneOpen`), and until it has been run to
its end nobody else writes what it touches, so that each of its moves can be
made (`Movable`), a start is never refused (`Served`), and the folder it leads
to is settled when it is written. `RestoreInv` adds that one resolver works at
a time (`OneResolver`), that a match an archive brought back running is listed
(`Noted`), and whose change stands in each path (`Signed`).

**`CourtsProofs`** — for any matches, courts, layouts, writes, handlers,
restarts. `CourtInvariant`, `GatesExclude` (`OneGatedMatchPerCourt`),
`ResendsLandOnce` (`WritesLandOnce`), `SwapsAreWhole` (`SwapIsWhole`). Whoever
works under the court lock is the only one who can make a court busier on the
gates' word, so what it found free is free when it writes, or its write has
become too old to land. A write at work past a lock is in no log and not
remembered, and two handlers that move one match exclude each other.

**`LifecycleProofs`** — for any requests, formats, saves and rounds, one draw
in flight at a time (`DrawsAtOnce = 1`; two draws of one competition overwrite
each other's files, §6). `LifeInvariant`, `DrawsAreSound` (`DrawIsSound`),
`ScoresStartTheDraw` (`ScoredDrawStarts`), `StatusMovesForward`
(`MovesForward`), `RecordedResultsStay` (`ResultsStay`). A draw that no discard
overlapped finds its own files when it commits and no one else's (`OneDraw`,
`Written`, `Fresh`); a Swiss round that none overlapped finds the rounds before
it (`Advancing`); so what the competition stands on is whole (`Standing`), a
pending draw is of the present settings, entries and names (`Current`,
`Renamings`), and what an earlier request may still write lands on a draw it
does not touch (`Lingering`, `SeatedLater`, `Answered`).

**`KachinukiProofs`** — for any lineups, pairings by hand, tablets and budgets.
`KachinukiInvariant`, `WinnerStays` (`WinnerStaysOn`), `AdvanceLands`
(`AdvanceFits`), `RemovalUndoes` (`RemoveUndoesItsRecord`). `Inv`: what an
advance is about to write fits the log it read (`PickFits`), and the locked
write compares that log with the stored one, so it fits where it lands; the
history a removal folds says of each row what its advance did, and of places
past the log of a match not finished that nobody put a row there (`Owned`);
every row but an unscored last one cost a tap (`Bounded`, so that `MaxBouts`
is a bound and not a guard: the model never turns an advance away for want of
room); an advance that is to read or write has an attempt left (`Trying`).
`WinnerStaysOn` is inductive with these because a renaming reaches a streak: a
bout that follows a won bout of the streak is of the streak. The facts about
the operators on logs are lemmas (`Renamed`, `Seated`, `Tapped`, `Put`, `Cut`,
`Stripped`, `Fielded`, `PairingFits`). `Foremost` and `StripTrailing` choose an
extreme place of a log; that one exists is the least-number principle
(`Least`, `Greatest`), from the library's well-founded induction instantiated
with a set instead of a predicate.

**`OutboxProofs`** — for any matches, kinds of write, batches, order of
answers, losses, refusals, full storage, resets and sign-ins. Of any number of
pages, no two of which both score or both save lineups (`Apart`; without it
one page's entry may replace another's, see `FinishKept` in §6):
`OutboxInvariant` and `NothingIsLost` (`NothingLost`: a write made and not
given up is with the server, on an open page or in storage). Of a device with
one page (`OnePage`), which closes, opens and may leave a queue behind:
`WritesAreKept` (`KeptUntilSettled`), `NobodyIsLeftWaiting`
(`NobodyWaitsInVain`) and `WritesArriveInOrder` (`InOrder`).

The proof has three layers. In each, a task of a page is a chain of worlds, and
there is a lemma for each function of the model that the chain goes through.
1. `OutboxInv`: of two copies of an entry that pages, requests, storage and
   events hold, the newer carries what the older does, save what is done, that
   is, met or given up (`Agree`); what a page settled is done, and what another
   page made or it took up is done or in storage (`Good`); an event takes out
   only what is done or safe elsewhere (`MailOf`). No function lets a write
   that is not done leave the queue or storage (`Onward`).
2. `AloneInv`: what storage holds is on the page, or settled and still to be
   taken out (`Sealed`). With `OutboxInv` this is `KeptUntilSettled`.
3. `OrderInv`: the queue, the stored copy and every request keep the order the
   writes were made in, and an entry waits only on older writes (`Tidy`,
   `InLine`, `TurnFits`), so no entry waits on itself and a request carries no
   write ahead of one it follows; and a page is never left with something it
   could send and nothing to do (`Up`): a page without a pass has a timer or
   nothing to send; a pass has a request out for each entry that could go, or
   will run again, or will be tried later (`Awake`), also one cut short by a
   sign-out or by parking the queue for a new password (`Severed`).

The invariants of layers 2 and 3 were checked with TLC on the cases with one
page before they were proved. The facts about `OutboxQueue`
(what `PlaceWrite`, `Merge`, `WaitsOn` and `Upstream` return and preserve) are
lemmas; that a chain of waits has a last entry uses the library's induction
theorems, instantiated with sets.

## 5. What is only model-checked

- Liveness: `LogsAreSettled`, `StartupEnds`, `EveryWriteHeard`,
  `EveryStateSent`, `EveryRecordCloses`. The provers do not reason about
  fairness.
- `NobodyStuck` is about `ENABLED`.
- `MovedStandsWhereItWas` compares times given by a function defined by
  recursion over the matches of a court; it needs an induction over data.
- `Converges` and `OwnLineupsStand`: `Lineups` follows carried lineups with
  RECURSIVE operators, so no theorem may rest on it.
- `VerdictMatchesScoreline`, `TapsCountOnce`, `ReplayIsTheMatch`,
  `FirstResultStands`: replay is a fold over a log, and each property
  compares two folds.
- `SeatsAreSound`, `BarsFollowRulings`, `RoundsKeepTheirSides`: not proved
  yet; the walks along a bracket (`Chain`, `Reached`) are recursive functions.
- `KeptUntilSettled`, `NobodyWaitsInVain` and `InOrder` when two pages of a
  device hold the queue: proved for one page (§4); with two, what each page has
  yet to hear of the other's removals and writes would have to be in the
  invariant.

## 6. Observations about the code

Met while modelling; each is a state of the model that a comment or a reader
would not expect. Those that a definition states are named; none is a run, and
the properties of the runs name the exceptions they make for them.

Files and restores.
- A log whose removal failed is written again over newer acknowledged updates
  at the next start (`transactions.go:310-315`); after a failed `wal.Commit`
  readers are given data that was not committed (`transactions.go:80-89`, 280).
- A restore that stopped part way, after which a competition is deleted or
  created, makes the roll forward's rename fail, and the server no longer
  starts (`restore.go:779-780`, `handlers_backup.go:559`). Entries left by a
  restore that died before its journal are not harmless (`restore.go:751-752`).

Events.
- A restarted hub whose numbers have reached a client's last id replays a part
  as the whole (`hub.go:461-465`, 505-516); `app.jsx` is unharmed, because it
  refetches when the stream reopens. The admin page does not
  (`docs/architecture/network-architecture.md:270`, `admin.jsx:699`).
- `QuietIsCurrent` and `EveryWriteHeard` leave out `BlindSpot`: the server
  restarted and the tab resumed, where `onVisibilityChange` reconnects without
  marking the stream lost.

Score log.
- A mark of a side that a decision withdrew, older than the decision, keeps the
  word "applied" after a reopen although it is not on the scoreline
  (`score_replay.go:1199-1233`; `domain/score_event.go:96`).
- A finish from a device that has not heard of a reopen lands with a verdict
  the scoreline contradicts; so may one made where the device's own unsent tap
  had been capped.

Knockout.
- A bye whose feeder is completed without being fought passes on a winner that
  does not exist (`WonByFighting`, `bracket.go:340`); a correction of a
  semifinal repaints the fought 3rd-place match (`FightKeepsItsSides`,
  `scoring.go:3483`); a reopen makes no check for simultaneous matches
  (`kachinuki.go:1162`); a forced correction of a pool sends a semifinal back
  while the final runs; a lifted injury's ruling stays on record;
  `ResolveQualifiedPools` may seat from what it read before a correction.

Outbox.
- An entry behind a parked one is not woken when another page sends or discards
  the parked one. A lineup save joined by a page that has not heard of a later
  write moves behind it (`Overtaken` in `InOrder`). `_heldBy` follows only the
  newest holder. A page that writes its copy back before hearing a removal,
  then closes, leaves a settled write in storage (`left` in
  `IdleMeansStoredEmpty`). `FinishKept` fails with two pages and
  `BlockedIsStale` after a sign-in on one of two.
  Suspected from the failed attempt to prove them for two pages, not shown by a
  run: two pages that each discard one of two parked taps before hearing of the
  other may leave a write that was given up in storage (`IdleMeansStoredEmpty`);
  two pages with two matches may take up entries that wait on each other
  (`NoWaitCycle`).

Lifecycle.
- `NoRoundTwice`: a crash or a second `AdvanceSwissRound` appends a round again
  (`swiss.go`, near 1010). `PendingDrawIsWhole`: two discards at once
  (`competition.go:687-692`). An advance that a discard overlapped leaves setup
  with a round drawn, and a draw still writing its rows may then drop a result
  (the exception of `ResultsStay`). A save of the roster or seeds is checked
  before a draw that it outlives; concurrent draws overwrite each other's
  files; a failed Swiss draw leaves files; a delete checks the status outside
  the lock; artefacts of another format are left after a change of it.

Lineups.
- `NeverReachBack` (`lineup_carry.go:408` against its lines 12-14) and
  `ConvergesAlways` (`kachinuki_opener.go:803` against 800-802) fail.

Kachinuki.
- `OnlyTappedIsRecorded` fails: a Record bout delivered again after its answer
  was lost closes the next bout while it is fought (against the comment at
  `api_client.jsx:3874-3876`). `QueuedStaysQueued` fails: an advance that reads
  again a match sent back to the queue sets it running, past the court gate
  (against `kachinuki.go:779-781`).

Courts.
- The move of a waiting match is logged nowhere, so its resend after a restart
  moves it again (against the comment on `CourtMove.WriteID`, `scoring.go`
  near 3546; the exception of `WritesLandOnce`). The unlocked read that tells a
  correction from a start is safe only because of the stamps. The process
  ending between the two transactions of a swap leaves the occupant sent back.

Draw (read, not modelled): in `draw_perpool.go` one shiaijo with exactly one
oversized pool seats its crossed second in the half of its own winner, against
the comment at 108-116; and 17 occupants with the crossed half on top drop 9
winners, against `draw_perpool_small_test.go:108`.

## 7. What is not modelled

Parts with no module: the draw and seeding (pure functions, large; next in the
plan), derived caches, scheduled and manual backups, legacy upgrade, handlers
and validation (parsing), exports, web pages, the command-line generator.

Left out of the modules above:
- `TxStore`: recreation of a competition under the same id, derived caches, a
  clock set back (ids increase).
- `SSEStream`: several pages sharing one source, viewer pages other than
  `app.jsx` and `admin.jsx`.
- `ScoreLog`: skewed clocks, kachinuki logs, representative bouts, lineups.
- `Knockout`: rival writes and the result lock, tie-breaks and draws in pools,
  pools shorter than their qualifiers, kachinuki reopens, a forced court.
- `Outbox`: re-stamping after clock skew, minted members, queues of older
  builds, sequence numbers of taps, alerts, a request given up that lands late.
- `Lifecycle`: change of format or kind, what else a draw deletes, number
  prefixes, tie-break decisions, quarantine, recreation under the same id.
- `Lineups`: member ids, frozen lineups, clears, whole saves of older builds,
  later rounds, several teams, who may save.
- `Kachinuki`: sides without a lineup, ambiguous names, overtime per bout,
  withdrawals, representative bouts, what a reopen does to the bracket, court
  gates, stamps (arrival order is stamp order), a client that gives up while
  its first request is still handled.
- `Courts`: the guard against removing a court in use (it reads before it
  locks), the 15 minutes a move id is remembered, self-run judging.

## 8. Plan

1. `OutboxProofs` for several pages: `KeptUntilSettled`, the order and the
   wake-ups, with what each page has yet to hear of the others.
2. Lemmas on `ScoreReplay` (a replay depends on the set of lines, not on their
   arrival) and on `Bracket` (what `Propagate` and `Retract` leave alone).
3. The draw as functions, against the golden cases of its tests.
4. Legacy upgrade; the file tokens of the derived caches; backups and
   write-once names.
