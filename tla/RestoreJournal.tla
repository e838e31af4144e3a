--------------------------- MODULE RestoreJournal ---------------------------
(***************************************************************************)
(* Restoring a backup over a folder that is being written to: staging,     *)
(* the locks, the safety copy, the journal and its renames, the roll       *)
(* forward of a start (internal/state/restore.go, restore_journal.go,      *)
(* Store.init), and the running matches that go back to the queue          *)
(* afterwards (internal/mobileapp/handlers_backup.go).                     *)
(*                                                                         *)
(* A path is a competition's folder or the tournament's settings file.     *)
(* Its content says who wrote it (the number of an operator's operation or *)
(* a restore's token) and, for a competition, whether its one match of     *)
(* interest runs: "archive" when a backup brought it back running,         *)
(* "operator" when an operator started it.                                 *)
(***************************************************************************)
EXTENDS Integers, Sequences, SequencesExt

CONSTANTS
    Comps,              \* competition folders
    Settings,           \* tournament.md
    Tokens,             \* restores
    Passwords,
    Requests,           \* what administrators ask for (see Request)
    ArchiveRuns,        \* competitions the backups hold with a running match
    None,
    Startup,            \* the resolver that runs before the server serves
    Faults,             \* which failures happen: "write", "finish", "revert", "wal"
    Overlap,            \* a restore may swap while another one's requeue is going on
    MaxRenameFailures,  \* bound: renames that fail while the server runs
    MaxEdits,           \* bound: operations of the operators
    MaxCrashes          \* bound: crashes, or stops, of the server

ASSUME PathsAssumption ==
    IsFiniteSet(Comps) /\ Settings \notin Comps /\ ArchiveRuns \subseteq Comps
ASSUME BoundsAssumption == MaxRenameFailures \in Nat /\ MaxEdits \in Nat /\ MaxCrashes \in Nat

Paths == Comps \cup {Settings}

VARIABLES
    \* on disk
    live,       \* live[p]: the content of a live path, or None
    wal,        \* wal[p]: what a committed transaction's log would write again, or None
    dir,        \* dir[t]: .restore/<t> is absent ("none"), "staged" or "journaled"
    new, old,   \* new[t][p], old[t][p]: what its folders of those names hold
    steps,      \* steps[t]: the journal
    copies,     \* <<path, author>> held by the safety copies
    pending,    \* requeue-pending.json: competitions, one match each
    \* in memory
    server,     \* "up", "down", "recovering", "requeue" or "refused" (start failed)
    holder,     \* the restore that holds the locks (the one rolled forward, at a start)
    phase,      \* phase[t]: how far the handler of t has come
    req, ids,   \* req[t]: the request; ids[t]: the competitions its plan saw
    at, tries,  \* the journal step to run, and which run of the journal this is
    todo,       \* todo[r][p]: resolver r has p "listed", "reverted" or not ("no")
    \* history and bounds
    edits,      \* operations made; also the author of the last one
    committed,  \* ghost: restores whose journal has been written
    failures, crashes

disk == <<live, wal, dir, new, old, steps, copies, pending>>
staging == <<dir, new, old, steps>>
ghosts == <<edits, committed, failures, crashes>>
vars == <<disk, server, holder, phase, req, ids, at, tries, todo, ghosts>>

Comp == [by : 0 .. MaxEdits \cup Tokens, run : {"no", "archive", "operator"}]
Setting == [by : 0 .. MaxEdits \cup Tokens, pw : Passwords]
\* The paths put in place, the competitions removed, and whether a running
\* match may be replaced.
Request == [puts : SUBSET Paths, removes : SUBSET Comps, allow : BOOLEAN]
Step == [kind : {"out", "in"}, path : Paths]
Resolvers == Tokens \cup {Startup}

ASSUME RequestsAssumption == Requests \subseteq Request /\ \A r \in Requests : r.puts \cap r.removes = {}
ASSUME NoneAssumption ==
    /\ None \notin Comps \cup Tokens \cup {Settings} \cup Comp \cup Setting \cup Request
    /\ Startup \notin Tokens

Folders == {f \in [Paths -> Comp \cup Setting \cup {None}] :
              /\ f[Settings] \in Setting \cup {None}
              /\ \A p \in Comps : f[p] \in Comp \cup {None}}

TypeOK ==
    /\ live \in Folders /\ new \in [Tokens -> Folders] /\ old \in [Tokens -> Folders]
    /\ wal \in [Comps -> Comp \cup {None}]
    /\ dir \in [Tokens -> {"none", "staged", "journaled"}]
    /\ steps \in [Tokens -> Seq(Step)] /\ at \in [Tokens -> Nat \ {0}]
    /\ \A t \in Tokens : at[t] <= Len(steps[t]) + 1
    /\ copies \subseteq Paths \X (0 .. MaxEdits \cup Tokens)
    /\ pending \subseteq Comps
    /\ server \in {"up", "down", "recovering", "requeue", "refused"}
    /\ holder \in Tokens \cup {None}
    /\ phase \in [Tokens -> {"idle", "staged", "locked", "settled", "copied", "noted", "swap",
                             "cleared", "swapped", "resolving", "done"}]
    /\ req \in [Tokens -> Request \cup {None}] /\ ids \in [Tokens -> SUBSET Comps]
    /\ tries \in [Tokens -> 1 .. 2]
    /\ todo \in [Resolvers -> [Comps -> {"no", "listed", "reverted"}]]
    /\ edits \in 0 .. MaxEdits /\ committed \subseteq Tokens
    /\ failures \in 0 .. MaxRenameFailures /\ crashes \in 0 .. MaxCrashes

Nothing == [p \in Paths |-> None]
NothingToDo == [p \in Comps |-> "no"]

Init ==
    /\ \E present \in SUBSET Comps, pw \in Passwords :
         live = [p \in Paths |-> IF p = Settings THEN [by |-> 0, pw |-> pw]
                                 ELSE IF p \in present THEN [by |-> 0, run |-> "no"] ELSE None]
    /\ wal = [p \in Comps |-> None]
    /\ dir = [t \in Tokens |-> "none"]
    /\ new = [t \in Tokens |-> Nothing] /\ old = [t \in Tokens |-> Nothing]
    /\ steps = [t \in Tokens |-> <<>>]
    /\ copies = {} /\ pending = {}
    /\ server = "up" /\ holder = None
    /\ phase = [t \in Tokens |-> "idle"]
    /\ req = [t \in Tokens |-> None] /\ ids = [t \in Tokens |-> {}]
    /\ at = [t \in Tokens |-> 1] /\ tries = [t \in Tokens |-> 1]
    /\ todo = [r \in Resolvers |-> NothingToDo]
    /\ edits = 0 /\ committed = {} /\ failures = 0 /\ crashes = 0

LiveComps == {p \in Comps : live[p] # None}
Touched(t) == req[t].puts \cup req[t].removes
Running(p) == live[p] # None /\ live[p].run # "no"

\* A restore holds the lock of every competition it touches, and s.mu and
\* tournamentMu, which every writer of the settings takes.
Locked(p) == holder # None /\ p \in Touched(holder) \cup {Settings}

(***************************************************************************)
(* The operators.                                                          *)
(***************************************************************************)

Operation(p, content) ==
    /\ server = "up" /\ edits < MaxEdits
    /\ edits' = edits + 1
    /\ live' = [live EXCEPT ![p] = content]
    /\ UNCHANGED <<staging, copies, pending, server, holder, phase, req, ids, at, tries, todo,
                   committed, failures, crashes>>

\* A score, a start or a finish in a competition, as one transaction; its log
\* is left behind when its removal fails.  A competition with a log left is
\* not written again here: what that does is TxStore's subject.
Write(p, run) ==
    /\ live[p] # None /\ ~Locked(p) /\ wal[p] = None
    /\ run \in {"no", IF live[p].run = "no" THEN "operator" ELSE live[p].run}
    /\ Operation(p, [by |-> edits + 1, run |-> run])
    /\ \/ UNCHANGED wal
       \/ /\ "wal" \in Faults /\ p \notin pending
          /\ wal' = [wal EXCEPT ![p] = live'[p]]

\* Creating and deleting take compRenameMu or s.mu as well as the
\* competition's own lock.
Create(p) == /\ live[p] = None /\ holder = None
             /\ Operation(p, [by |-> edits + 1, run |-> "no"]) /\ UNCHANGED wal

Delete(p) == /\ live[p] # None /\ holder = None /\ wal[p] = None
             /\ Operation(p, None) /\ UNCHANGED wal

SaveSettings(pw) ==
    /\ ~Locked(Settings) /\ Operation(Settings, [by |-> edits + 1, pw |-> pw]) /\ UNCHANGED wal

(***************************************************************************)
(* The restore's handler.                                                  *)
(***************************************************************************)

\* What a plan requires of the folder: planRestore and refusal.
Allowed(r) ==
    /\ r.removes \subseteq LiveComps
    /\ r.allow \/ \A p \in (r.puts \cup r.removes) \cap Comps : ~Running(p)
    /\ Settings \in r.puts => live[Settings] # None

\* Mutant: the staged tournament.md carries no password.
ArchivedNoPassword(t, p) == IF p = Settings THEN [by |-> t, pw |-> None]
                            ELSE [by |-> t, run |-> IF p \in ArchiveRuns THEN "archive" ELSE "no"]

Archived(t, p) == IF p = Settings THEN [by |-> t, pw |-> live[Settings].pw]
                  ELSE [by |-> t, run |-> IF p \in ArchiveRuns THEN "archive" ELSE "no"]

\* The plan, with no lock held for longer than the reading, and the staging.
Stage(t, r) ==
    /\ server = "up" /\ phase[t] = "idle" /\ holder = None
    /\ Allowed(r)
    /\ dir' = [dir EXCEPT ![t] = "staged"]
    /\ new' = [new EXCEPT ![t] = [p \in Paths |-> IF p \in r.puts THEN Archived(t, p) ELSE None]]
    /\ phase' = [phase EXCEPT ![t] = "staged"]
    /\ req' = [req EXCEPT ![t] = r] /\ ids' = [ids EXCEPT ![t] = LiveComps]
    /\ UNCHANGED <<live, wal, old, steps, copies, pending, server, holder, at, tries, todo, ghosts>>

\* The deferred removal of a staging folder that got no journal.
GivesUp(t) ==
    /\ dir' = [dir EXCEPT ![t] = "none"] /\ new' = [new EXCEPT ![t] = Nothing]
    /\ phase' = [phase EXCEPT ![t] = "done"] /\ holder' = None
    /\ ids' = [ids EXCEPT ![t] = {}]
    /\ UNCHANGED <<live, wal, old, steps, copies, pending, server, req, at, tries, todo, ghosts>>

Resolving(t) == phase[t] \in {"swapped", "resolving"}

\* Mutant: only the competitions are compared again, not what runs in them.
StillSameComps(t) == LiveComps = ids[t]

\* The plan is judged again under the locks.
StillPlanned(t) == LiveComps = ids[t] /\ Allowed(req[t])

CanLock(t) == /\ server = "up" /\ phase[t] = "staged" /\ holder = None
              /\ Overlap \/ \A u \in Tokens : ~Resolving(u)

Refuse(t) == CanLock(t) /\ ~StillPlanned(t) /\ GivesUp(t)

\* tournament.md is staged again when its password has changed meanwhile.
Lock(t) ==
    /\ CanLock(t) /\ StillPlanned(t)
    /\ holder' = t
    /\ phase' = [phase EXCEPT ![t] = "locked"] /\ ids' = [ids EXCEPT ![t] = {}]
    /\ new' = [new EXCEPT ![t][Settings] =
                 IF Settings \in req[t].puts THEN Archived(t, Settings) ELSE None]
    /\ UNCHANGED <<live, wal, dir, old, steps, copies, pending, server, req, at, tries, todo, ghosts>>

Advance(t, from, to) ==
    /\ server = "up" /\ phase[t] = from /\ phase' = [phase EXCEPT ![t] = to]
    /\ UNCHANGED <<server, holder, req, ids, todo, edits, failures, crashes>>

\* Mutant: the logs are left for the next start.
SettleNothing(t) ==
    /\ Advance(t, "locked", "settled")
    /\ UNCHANGED <<live, wal, staging, copies, pending, at, tries, committed>>

\* The log of every competition the restore touches is applied and removed.
Settle(t) ==
    LET S == {p \in Touched(t) \cap Comps : wal[p] # None} IN
    /\ Advance(t, "locked", "settled")
    /\ live' = [p \in Paths |-> IF p \in S THEN wal[p] ELSE live[p]]
    /\ wal' = [p \in Comps |-> IF p \in S THEN None ELSE wal[p]]
    /\ UNCHANGED <<staging, copies, pending, at, tries, committed>>

Displaced(t) == {p \in Touched(t) : live[p] # None}

\* Mutant: the safety copy leaves out what is removed.
SaveReplaced(t) ==
    /\ Advance(t, "settled", "copied")
    /\ copies' = copies \cup {<<p, live[p].by>> : p \in Displaced(t) \cap req[t].puts}
    /\ UNCHANGED <<live, wal, staging, pending, at, tries, committed>>

SaveCopy(t) ==
    /\ Advance(t, "settled", "copied")
    /\ copies' = copies \cup {<<p, live[p].by>> : p \in Displaced(t)}
    /\ UNCHANGED <<live, wal, staging, pending, at, tries, committed>>

\* Mutant: the file is written anew, without what an earlier restore left.
WriteRequeueAnew(t) ==
    /\ Advance(t, "copied", "noted")
    /\ pending' = req[t].puts \cap ArchiveRuns
    /\ UNCHANGED <<live, wal, staging, copies, at, tries, committed>>

WriteRequeuePending(t) ==
    /\ Advance(t, "copied", "noted")
    /\ pending' = pending \cup (req[t].puts \cap ArchiveRuns)
    /\ UNCHANGED <<live, wal, staging, copies, at, tries, committed>>

\* The competitions in the order of their names, then the settings.
InOrder(S) == SetToSeq(S \cap Comps) \o (IF Settings \in S THEN <<Settings>> ELSE <<>>)
StepsOf(kind, S) == [i \in 1 .. Len(InOrder(S)) |-> [kind |-> kind, path |-> InOrder(S)[i]]]

\* Every move out, then every move in.
JournalFor(t) == StepsOf("out", Displaced(t)) \o StepsOf("in", req[t].puts)

WriteJournal(t) ==
    /\ Advance(t, "noted", "swap")
    /\ dir' = [dir EXCEPT ![t] = "journaled"]
    /\ steps' = [steps EXCEPT ![t] = JournalFor(t)]
    /\ at' = [at EXCEPT ![t] = 1] /\ tries' = [tries EXCEPT ![t] = 1]
    /\ committed' = committed \cup {t}
    /\ UNCHANGED <<live, wal, new, old, copies, pending>>

\* A write under the locks fails before the journal is in place.
WriteFails(t) ==
    /\ "write" \in Faults /\ server = "up"
    /\ phase[t] \in {"locked", "settled", "copied", "noted"}
    /\ GivesUp(t)

(***************************************************************************)
(* The journal, run by the handler under its locks or by a start.  A move  *)
(* out is done once old has the path; a move in once new has not.          *)
(***************************************************************************)

Swapping(t) == phase[t] = "swap" /\ holder = t
AtStep(t, kind) == Swapping(t) /\ at[t] <= Len(steps[t]) /\ steps[t][at[t]].kind = kind
StepPath(t) == steps[t][at[t]].path

OutDone(t) == old[t][StepPath(t)] # None
\* Mutant: a move in is never taken as done.
InNeverDone(t) == FALSE

InDone(t) == new[t][StepPath(t)] = None

\* Renaming a folder onto another one fails; onto a file it replaces the file.
CanMoveOut(t) == live[StepPath(t)] # None
CanMoveIn(t) == live[StepPath(t)] = None \/ StepPath(t) = Settings

NextStep(t) ==
    /\ at' = [at EXCEPT ![t] = @ + 1]
    /\ UNCHANGED <<wal, dir, steps, copies, pending, server, holder, phase, req, ids, tries, todo,
                   ghosts>>

MoveOut(t) ==
    /\ AtStep(t, "out") /\ NextStep(t)
    /\ \/ OutDone(t) /\ UNCHANGED <<live, new, old>>
       \/ /\ ~OutDone(t) /\ CanMoveOut(t)
          /\ old' = [old EXCEPT ![t][StepPath(t)] = live[StepPath(t)]]
          /\ live' = [live EXCEPT ![StepPath(t)] = None]
          /\ UNCHANGED new

MoveIn(t) ==
    /\ AtStep(t, "in") /\ NextStep(t)
    /\ \/ InDone(t) /\ UNCHANGED <<live, new, old>>
       \/ /\ ~InDone(t) /\ CanMoveIn(t)
          /\ live' = [live EXCEPT ![StepPath(t)] = new[t][StepPath(t)]]
          /\ new' = [new EXCEPT ![t][StepPath(t)] = None]
          /\ UNCHANGED old

\* A rename that cannot be made, or that the system refuses while the server
\* runs.
RenameFails(t) ==
    \/ /\ \/ AtStep(t, "out") /\ ~OutDone(t) /\ ~CanMoveOut(t)
          \/ AtStep(t, "in") /\ ~InDone(t) /\ ~CanMoveIn(t)
       /\ UNCHANGED failures
    \/ /\ \/ AtStep(t, "out") /\ ~OutDone(t)
          \/ AtStep(t, "in") /\ ~InDone(t)
       /\ server = "up" /\ failures < MaxRenameFailures
       /\ failures' = failures + 1

\* Mutant: the first failure ends the handler.
StepFailsOnce(t) ==
    /\ RenameFails(t)
    /\ IF server = "up" THEN /\ holder' = None /\ phase' = [phase EXCEPT ![t] = "done"]
                             /\ at' = [at EXCEPT ![t] = 1] /\ UNCHANGED server
       ELSE server' = "refused" /\ UNCHANGED <<holder, phase, at>>
    /\ UNCHANGED <<disk, tries, req, ids, todo, edits, committed, crashes>>

\* The handler runs the journal once more, then answers that the restore
\* stopped part way, its journal left in place; a start gives up.
StepFails(t) ==
    /\ RenameFails(t)
    /\ IF server = "up"
       THEN /\ IF tries[t] = 1 THEN UNCHANGED <<holder, phase>>
               ELSE holder' = None /\ phase' = [phase EXCEPT ![t] = "done"]
            /\ tries' = [tries EXCEPT ![t] = 3 - @] /\ at' = [at EXCEPT ![t] = 1]
            /\ UNCHANGED server
       ELSE server' = "refused" /\ UNCHANGED <<holder, phase, tries, at>>
    /\ UNCHANGED <<disk, req, ids, todo, edits, committed, crashes>>

\* finishRestoreToken: the journal goes first, then the folder with the
\* originals it still holds.
RemoveJournal(t) ==
    /\ Swapping(t) /\ at[t] = Len(steps[t]) + 1
    /\ dir' = [dir EXCEPT ![t] = "staged"] /\ steps' = [steps EXCEPT ![t] = <<>>]
    /\ phase' = [phase EXCEPT ![t] = "cleared"]
    /\ at' = [at EXCEPT ![t] = 1] /\ tries' = [tries EXCEPT ![t] = 1]
    /\ UNCHANGED <<live, wal, new, old, copies, pending, server, holder, req, ids, todo, ghosts>>

Released(t) == phase' = [phase EXCEPT ![t] = IF server = "up" THEN "swapped" ELSE "done"]

RemoveToken(t) ==
    /\ phase[t] = "cleared" /\ holder = t
    /\ dir' = [dir EXCEPT ![t] = "none"]
    /\ new' = [new EXCEPT ![t] = Nothing] /\ old' = [old EXCEPT ![t] = Nothing]
    /\ holder' = None /\ Released(t)
    /\ UNCHANGED <<live, wal, steps, copies, pending, server, req, ids, at, tries, todo, ghosts>>

\* What could not be removed is only logged: the swap is complete.
FinishFails(t) ==
    /\ "finish" \in Faults /\ server = "up" /\ holder = t
    /\ \/ Swapping(t) /\ at[t] = Len(steps[t]) + 1
       \/ phase[t] = "cleared"
    /\ holder' = None /\ Released(t)
    /\ at' = [at EXCEPT ![t] = 1] /\ tries' = [tries EXCEPT ![t] = 1]
    /\ UNCHANGED <<disk, server, req, ids, todo, ghosts>>

(***************************************************************************)
(* The running matches of the backup go back to the queue: by the handler  *)
(* once the locks are released, or before a start serves.                  *)
(***************************************************************************)

Listed(r) == [p \in Comps |-> IF p \in pending THEN "listed" ELSE "no"]

List(t) ==
    /\ server = "up" /\ phase[t] = "swapped" /\ holder = None
    /\ phase' = [phase EXCEPT ![t] = "resolving"]
    /\ todo' = [todo EXCEPT ![t] = Listed(t)]
    /\ UNCHANGED <<disk, server, holder, req, ids, at, tries, ghosts>>

\* A match that is gone or not running is handled as well.
Revert(r, p) ==
    /\ todo[r][p] = "listed" /\ ~Locked(p) /\ \A q \in Comps : todo[r][q] # "reverted"
    /\ live' = IF Running(p) THEN [live EXCEPT ![p].run = "no"] ELSE live
    /\ todo' = [todo EXCEPT ![r][p] = "reverted"]
    /\ UNCHANGED <<wal, staging, copies, pending, server, holder, phase, req, ids, at, tries, ghosts>>

RemoveRequeuePending(r, p) ==
    /\ todo[r][p] = "reverted" /\ holder = None
    /\ pending' = pending \ {p}
    /\ todo' = [todo EXCEPT ![r][p] = "no"]
    /\ UNCHANGED <<live, wal, staging, copies, server, holder, phase, req, ids, at, tries, ghosts>>

Resolver(r) == IF r = Startup THEN server = "requeue" ELSE phase[r] = "resolving"

Resolved(r) ==
    /\ Resolver(r)
    /\ IF r = Startup THEN server' = "up" /\ UNCHANGED phase
       ELSE phase' = [phase EXCEPT ![r] = "done"] /\ UNCHANGED server
    /\ UNCHANGED <<disk, holder, req, ids, at, tries, ghosts>>

RequeueDone(r) == todo[r] = NothingToDo /\ Resolved(r) /\ UNCHANGED todo

\* A send back, or the removal of its entry, fails: the file keeps what was
\* not handled, and a start serves all the same.
RevertFails(r) ==
    /\ "revert" \in Faults /\ todo[r] # NothingToDo
    /\ Resolved(r) /\ todo' = [todo EXCEPT ![r] = NothingToDo]

(***************************************************************************)
(* Stopping and starting.                                                  *)
(***************************************************************************)

Crash ==
    /\ server \in {"up", "recovering", "requeue"} /\ crashes < MaxCrashes
    /\ crashes' = crashes + 1
    /\ server' = "down" /\ holder' = None
    /\ phase' = [t \in Tokens |-> IF phase[t] = "idle" THEN "idle" ELSE "done"]
    /\ todo' = [r \in Resolvers |-> NothingToDo]
    /\ at' = [t \in Tokens |-> 1] /\ tries' = [t \in Tokens |-> 1] /\ ids' = [t \in Tokens |-> {}]
    /\ UNCHANGED <<disk, req, edits, committed, failures>>

\* Store.init replays the logs first.  A log of a folder that is not there
\* cannot be applied and is kept.
Start ==
    LET S == {p \in Comps : wal[p] # None /\ live[p] # None} IN
    /\ server = "down" /\ server' = "recovering"
    /\ live' = [p \in Paths |-> IF p \in S THEN wal[p] ELSE live[p]]
    /\ wal' = [p \in Comps |-> IF p \in S THEN None ELSE wal[p]]
    /\ UNCHANGED <<staging, copies, pending, holder, phase, req, ids, at, tries, todo, ghosts>>

RemoveStaging(t) ==
    /\ server = "recovering" /\ holder = None /\ dir[t] = "staged"
    /\ dir' = [dir EXCEPT ![t] = "none"]
    /\ new' = [new EXCEPT ![t] = Nothing] /\ old' = [old EXCEPT ![t] = Nothing]
    /\ UNCHANGED <<live, wal, steps, copies, pending, server, holder, phase, req, ids, at, tries,
                   todo, ghosts>>

RollForward(t) ==
    /\ server = "recovering" /\ holder = None /\ dir[t] = "journaled"
    /\ holder' = t /\ phase' = [phase EXCEPT ![t] = "swap"]
    /\ at' = [at EXCEPT ![t] = 1]
    /\ UNCHANGED <<disk, server, req, ids, tries, todo, ghosts>>

Recovered ==
    /\ server = "recovering" /\ \A t \in Tokens : dir[t] = "none"
    /\ server' = "requeue" /\ todo' = [todo EXCEPT ![Startup] = Listed(Startup)]
    /\ UNCHANGED <<disk, holder, phase, req, ids, at, tries, ghosts>>

Operators ==
    \/ \E p \in Comps, run \in {"no", "archive", "operator"} : Write(p, run)
    \/ \E p \in Comps : Create(p) \/ Delete(p)
    \/ \E pw \in Passwords : SaveSettings(pw)

Handler(t) ==
    \/ Lock(t) \/ Refuse(t) \/ Settle(t) \/ SaveCopy(t) \/ WriteRequeuePending(t)
    \/ WriteJournal(t) \/ List(t)

Journal(t) == MoveOut(t) \/ MoveIn(t) \/ StepFails(t) \/ RemoveJournal(t) \/ RemoveToken(t)

Requeue(r) == RequeueDone(r) \/ \E p \in Comps : Revert(r, p) \/ RemoveRequeuePending(r, p)

Starting == Start \/ Recovered \/ \E t \in Tokens : RemoveStaging(t) \/ RollForward(t)

Next ==
    \/ Operators
    \/ \E t \in Tokens, r \in Requests : Stage(t, r)
    \/ \E t \in Tokens : Handler(t) \/ WriteFails(t) \/ Journal(t) \/ FinishFails(t)
    \/ \E r \in Resolvers : Requeue(r) \/ RevertFails(r)
    \/ Starting
    \/ Crash

Spec == Init /\ [][Next]_vars

(***************************************************************************)
(* Properties.                                                             *)
(***************************************************************************)

TakesIn(t, p) == /\ dir[t] = "journaled" /\ new[t][p] # None
                 /\ \E i \in DOMAIN steps[t] : steps[t][i] = [kind |-> "in", path |-> p]
TakesOut(t, p) == /\ dir[t] = "journaled" /\ old[t][p] = None
                  /\ \E i \in DOMAIN steps[t] : steps[t][i] = [kind |-> "out", path |-> p]

\* The folder as it is once every journal on disk has been run to its end.
RolledForward ==
    [p \in Paths |->
       IF \E t \in Tokens : TakesIn(t, p) THEN new[CHOOSE t \in Tokens : TakesIn(t, p)][p]
       ELSE IF \E t \in Tokens : TakesOut(t, p) THEN None ELSE live[p]]

Folder == INSTANCE AtomicFolder
    WITH folder <- RolledForward, ops <- edits, asked <- req, restored <- committed

\* The folder, with the journals on disk rolled forward, goes from what it
\* was to what the restore asks for in one step, the writing of the journal;
\* no crash, replayed log, repeated run or leftover folder changes it, and
\* the password it ends with is the one in force under the locks.
RestoreIsOneStep == Folder!Spec

\* Whoever reads while no restore holds the locks sees no swap half done.
ServesWholeFolders == server = "up" /\ holder = None => live = RolledForward

\* What a restore has moved out of the way is in a safety copy.
MovedOutIsCopied ==
    \A t \in Tokens, p \in Paths : old[t][p] # None => <<p, old[t][p].by>> \in copies

\* The roll forward of a start never meets a rename it cannot make.
StartNeverRefused == server # "refused"

\* A match a backup brought back running is in requeue-pending.json until it
\* is back in the queue, whatever crashes or fails in between.
ArchiveMatchIsPending ==
    \A p \in Comps : live[p] # None /\ live[p].run = "archive" => p \in pending

\* A restore that was not given leave to replace a running match moves none
\* out of the way, though one may start after its plan.
RunningMatchNeedsLeave ==
    \A t \in Tokens, p \in Comps :
        old[t][p] # None /\ old[t][p].run # "no" => req[t].allow

\* The entries a restore leaves that never wrote its journal are harmless: a
\* match an operator has running is not sent back to the queue by them.
PendingIsHarmless ==
    [][\A r \in Resolvers, p \in Comps :
         Revert(r, p) => live[p] = None \/ live[p].run # "operator"]_vars
=============================================================================
