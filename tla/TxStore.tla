------------------------------ MODULE TxStore ------------------------------
(***************************************************************************)
(* internal/state: one competition's files under Store.WithTransaction and *)
(* the plain savers, with the write-ahead log of internal/state/wal, the   *)
(* file caches, process crashes and the replay at startup.                 *)
(*                                                                         *)
(* The competition's write lock is held from the start of a transaction to *)
(* its end, and by every plain saver, so at most one of them is under way: *)
(* the control state of the whole component is one variable, pc.  The      *)
(* content of a file is the set of updates it holds.  atomicWriteFile      *)
(* (write a temporary file, fsync, rename) makes one write of one file one *)
(* step, which a crash precedes or follows.                                *)
(***************************************************************************)
EXTENDS Integers

CONSTANTS
    Files,        \* the files of one competition
    CachedFiles,  \* those with a fileCache (config.md, pool-matches.csv, ...)
    DirectFiles,  \* those storeTx writes through, unstaged (participants.csv)
    Txs,          \* identities of updates, each used once
    Faults,       \* disk faults of this environment: "commit", "apply", "done"
    MaxCrashes    \* bound: crashes of the process

ASSUME FilesAssumption == CachedFiles \subseteq Files /\ DirectFiles \subseteq Files
ASSUME FaultsAssumption == Faults \subseteq {"commit", "apply", "done"}

VARIABLES
    disk,     \* disk[f]: what file f holds
    wals,     \* the committed logs in <data>/.wal
    cache,    \* cache[f]: fileCache.data
    body,     \* the files whose fileCache.data is not nil
    stamped,  \* the files whose fileCache.mtime is the file's own mtime
    pc,       \* what the holder of the competition's lock is doing
    who,      \* the open transaction
    txid,     \* its log's id (uniqueWALID: nanoseconds and a counter)
    staged,   \* its intents: the files it staged, each with its new content
    todo,     \* files Apply has still to write
    cursor,   \* id of the last log a recovery visited
    booting,  \* the recovery is the startup's (else settleCompWALsLocked's)
    outcome,  \* ghost: what the caller of each update was told
    wrote,    \* ghost: the files each update wrote
    crashes   \* crashes so far

vars == <<disk, wals, cache, body, stamped, pc, who, txid, staged, todo,
          cursor, booting, outcome, wrote, crashes>>

FileMap == UNION {[F -> SUBSET Txs] : F \in SUBSET Files}
Logs == [id : Nat, who : Txs, data : FileMap]

TxSteps == {"fn", "apply", "done"}
RecoverySteps == {"recover", "rewrite", "retire"}

TypeOK ==
    /\ disk \in [Files -> SUBSET Txs]
    /\ wals \subseteq Logs
    /\ cache \in [Files -> SUBSET Txs]
    /\ body \subseteq CachedFiles /\ stamped \subseteq Files
    /\ pc \in {"down", "idle"} \cup TxSteps \cup RecoverySteps
    /\ who \in Txs
    /\ txid \in Nat /\ cursor \in Nat
    /\ staged \in FileMap
    /\ todo \subseteq DOMAIN staged
    /\ booting \in BOOLEAN
    /\ outcome \in [Txs -> {"new", "open", "ok", "committed", "aborted", "failed", "lost"}]
    /\ wrote \in [Txs -> SUBSET Files]
    /\ crashes \in Nat

NoFiles == [f \in {} |-> {}]

Init ==
    /\ disk = [f \in Files |-> {}] /\ wals = {}
    /\ cache = [f \in Files |-> {}] /\ body = {} /\ stamped = {}
    /\ pc = "idle" /\ who \in Txs /\ txid = 0 /\ staged = NoFiles /\ todo = {}
    /\ cursor = 0 /\ booting = FALSE
    /\ outcome = [t \in Txs |-> "new"] /\ wrote = [t \in Txs |-> {}]
    /\ crashes = 0

\* loadCached: the cached body when its mtime is the file's, else a parse.
Visible(f) == IF f \in body \cap stamped THEN cache[f] ELSE disk[f]

\* storeTx's loaders: the transaction's own staged bytes first (pendingFor).
TxVisible(f) == IF f \in DOMAIN staged THEN staged[f] ELSE Visible(f)

\* A saver publishes what it wrote in the cache, with the mtime of the file
\* as it stands then (for a staged write, still the old file's).
Publish(f, data) ==
    IF f \in CachedFiles
    THEN /\ cache' = [cache EXCEPT ![f] = data]
         /\ body' = body \cup {f} /\ stamped' = stamped \cup {f}
    ELSE UNCHANGED <<cache, body, stamped>>

\* A write of f behind the caches: the file's mtime moves, or stays the same
\* when both writes fall in one tick of the file system's clock.
Touch(f) == stamped' \in {stamped, stamped \ {f}}

\* invalidateCachesForWALIntents
Invalidate(F) ==
    /\ cache' = [f \in Files |-> IF f \in F THEN {} ELSE cache[f]]
    /\ body' = body \ F /\ stamped' = stamped \ F

Begin(t) ==
    /\ pc = "idle" /\ outcome[t] = "new"
    /\ pc' = "fn" /\ who' = t /\ txid' = txid + 1
    /\ outcome' = [outcome EXCEPT ![t] = "open"]
    /\ UNCHANGED <<disk, wals, cache, body, stamped, staged, todo, cursor, booting, wrote, crashes>>

\* Mutant: the saver of a transaction writes the file at once.
StageDirect(f) ==
    LET new == TxVisible(f) \cup {who} IN
    /\ pc = "fn" /\ f \notin DirectFiles /\ f \notin DOMAIN staged
    /\ disk' = [disk EXCEPT ![f] = new]
    /\ staged' = [g \in DOMAIN staged \cup {f} |-> IF g = f THEN new ELSE staged[g]]
    /\ wrote' = [wrote EXCEPT ![who] = @ \cup {f}]
    /\ Publish(f, new)
    /\ UNCHANGED <<wals, pc, who, txid, todo, cursor, booting, outcome, crashes>>

\* A saver called with the transaction's own write function: the bytes go to
\* the log's intents, the cache takes them at once.
Stage(f) ==
    LET new == TxVisible(f) \cup {who} IN
    /\ pc = "fn" /\ f \notin DirectFiles /\ f \notin DOMAIN staged
    /\ staged' = [g \in DOMAIN staged \cup {f} |-> IF g = f THEN new ELSE staged[g]]
    /\ wrote' = [wrote EXCEPT ![who] = @ \cup {f}]
    /\ Publish(f, new)
    /\ UNCHANGED <<disk, wals, pc, who, txid, todo, cursor, booting, outcome, crashes>>

\* storeTx.UpdateParticipant and SavePools: written at once, not staged.
WriteThrough(f) ==
    LET new == Visible(f) \cup {who} IN
    /\ pc = "fn" /\ f \in DirectFiles /\ who \notin Visible(f)
    /\ disk' = [disk EXCEPT ![f] = new]
    /\ wrote' = [wrote EXCEPT ![who] = @ \cup {f}]
    /\ Publish(f, new)
    /\ UNCHANGED <<wals, pc, who, txid, staged, todo, cursor, booting, outcome, crashes>>

\* The handle's intents are out of reach once WithTransaction returns.
EndTx(result) ==
    /\ pc' = "idle" /\ outcome' = [outcome EXCEPT ![who] = result]
    /\ staged' = NoFiles /\ todo' = {}

\* Mutant: an abort leaves the caches alone.
AbortKeepsCache ==
    /\ pc = "fn"
    /\ EndTx("aborted")
    /\ UNCHANGED <<disk, wals, cache, body, stamped, who, txid, cursor, booting, wrote, crashes>>

\* fn returned an error.
Abort ==
    /\ pc = "fn"
    /\ EndTx("aborted") /\ Invalidate(DOMAIN staged)
    /\ UNCHANGED <<disk, wals, who, txid, cursor, booting, wrote, crashes>>

\* fn returned nil and staged nothing.
EndEmpty ==
    /\ pc = "fn" /\ DOMAIN staged = {}
    /\ EndTx("ok")
    /\ UNCHANGED <<disk, wals, cache, body, stamped, who, txid, cursor, booting, wrote, crashes>>

\* Mutant: the staged files are written without a log.
CommitUnlogged ==
    /\ pc = "fn" /\ DOMAIN staged # {}
    /\ pc' = "apply" /\ todo' = DOMAIN staged
    /\ UNCHANGED <<disk, wals, cache, body, stamped, who, txid, staged, cursor, booting, outcome, wrote, crashes>>

\* wal.Commit: the rename of the log file is the commit point.
Commit ==
    /\ pc = "fn" /\ DOMAIN staged # {}
    /\ wals' = wals \cup {[id |-> txid, who |-> who, data |-> staged]}
    /\ pc' = "apply" /\ todo' = DOMAIN staged
    /\ UNCHANGED <<disk, cache, body, stamped, who, txid, staged, cursor, booting, outcome, wrote, crashes>>

\* wal.Commit fails: before the rename, or at the folder's sync after it.
\* WithTransaction returns the error; the caches keep what the savers put there.
CommitFails ==
    /\ pc = "fn" /\ DOMAIN staged # {} /\ "commit" \in Faults
    /\ wals' \in {wals, wals \cup {[id |-> txid, who |-> who, data |-> staged]}}
    /\ EndTx("failed")
    /\ UNCHANGED <<disk, cache, body, stamped, who, txid, cursor, booting, wrote, crashes>>

\* One write of wal.Apply.
Apply(f) ==
    /\ pc = "apply" /\ f \in todo
    /\ disk' = [disk EXCEPT ![f] = staged[f]] /\ Touch(f)
    /\ todo' = todo \ {f}
    /\ UNCHANGED <<wals, cache, body, pc, who, txid, staged, cursor, booting, outcome, wrote, crashes>>

\* Mutant: the log is removed whether or not Apply succeeded.
ApplyFailsDone ==
    /\ pc = "apply" /\ todo # {} /\ "apply" \in Faults
    /\ wals' = {w \in wals : w.id # txid}
    /\ EndTx("committed")
    /\ UNCHANGED <<disk, cache, body, stamped, who, txid, cursor, booting, wrote, crashes>>

\* Apply stops at its first error: ErrTxCommitted, the log stays.
ApplyFails ==
    /\ pc = "apply" /\ todo # {} /\ "apply" \in Faults
    /\ EndTx("committed")
    /\ UNCHANGED <<disk, wals, cache, body, stamped, who, txid, cursor, booting, wrote, crashes>>

\* Mutant: Apply returns before its last write.
RestampEarly ==
    /\ pc = "apply"
    /\ stamped' = stamped \cup (DOMAIN staged \cap body)
    /\ pc' = "done"
    /\ UNCHANGED <<disk, wals, cache, body, who, txid, staged, todo, cursor, booting, outcome, wrote, crashes>>

\* refreshCachesAfterWALApply
Restamp ==
    /\ pc = "apply" /\ todo = {}
    /\ stamped' = stamped \cup (DOMAIN staged \cap body)
    /\ pc' = "done"
    /\ UNCHANGED <<disk, wals, cache, body, who, txid, staged, todo, cursor, booting, outcome, wrote, crashes>>

\* wal.Done removes the log; the transaction is answered.
Done ==
    /\ pc = "done"
    /\ wals' = {w \in wals : w.id # txid}
    /\ EndTx("ok")
    /\ UNCHANGED <<disk, cache, body, stamped, who, txid, cursor, booting, wrote, crashes>>

\* A failed Done is logged and the transaction answered all the same.
DoneFails ==
    /\ pc = "done" /\ "done" \in Faults
    /\ EndTx("ok")
    /\ UNCHANGED <<disk, wals, cache, body, stamped, who, txid, cursor, booting, wrote, crashes>>

\* A plain saver: load, change and write one file under the lock.
Save(t, f) ==
    LET new == Visible(f) \cup {t} IN
    /\ pc = "idle" /\ outcome[t] = "new"
    /\ disk' = [disk EXCEPT ![f] = new]
    /\ outcome' = [outcome EXCEPT ![t] = "ok"]
    /\ wrote' = [wrote EXCEPT ![t] = {f}]
    /\ Publish(f, new)
    /\ UNCHANGED <<wals, pc, who, txid, staged, todo, cursor, booting, crashes>>

\* A reader fills the cache (loadCached's miss).
Load(f) ==
    /\ pc = "idle" /\ f \in CachedFiles /\ f \notin body \cap stamped
    /\ Publish(f, disk[f])
    /\ UNCHANGED <<disk, wals, pc, who, txid, staged, todo, cursor, booting, outcome, wrote, crashes>>

\* The process dies: memory is gone, the disk is as the last rename left it.
Crash ==
    /\ pc # "down" /\ crashes < MaxCrashes
    /\ pc' = "down" /\ crashes' = crashes + 1
    /\ Invalidate(Files) /\ staged' = NoFiles /\ todo' = {}
    /\ cursor' = 0 /\ booting' = FALSE
    /\ outcome' = IF pc \in TxSteps THEN [outcome EXCEPT ![who] = "lost"] ELSE outcome
    /\ UNCHANGED <<disk, wals, who, txid, wrote>>

\* NewStore: init scans the log folder.
Start ==
    /\ pc = "down"
    /\ pc' = "recover" /\ cursor' = 0 /\ booting' = TRUE
    /\ UNCHANGED <<disk, wals, cache, body, stamped, who, txid, staged, todo, outcome, wrote, crashes>>

\* Restore and the snapshot of a backup settle the competition's pending
\* logs first (settleCompWALsLocked).
Settle ==
    /\ pc = "idle" /\ wals # {}
    /\ pc' = "recover" /\ cursor' = 0 /\ booting' = FALSE
    /\ UNCHANGED <<disk, wals, cache, body, stamped, who, txid, staged, todo, outcome, wrote, crashes>>

\* Mutant: the scan starts over after a log that failed.
AheadOfAll == wals

\* Scan's order: the logs this recovery has not visited yet.
Ahead == {w \in wals : w.id > cursor}
NextLog(w) == w \in Ahead /\ \A v \in Ahead : w.id <= v.id

\* Mutant: a recovery writes files its log does not name.
RecoverAll(w) ==
    /\ pc = "recover" /\ NextLog(w)
    /\ pc' = "rewrite" /\ cursor' = w.id
    /\ staged' = w.data /\ todo' = Files
    /\ UNCHANGED <<disk, wals, cache, body, stamped, who, txid, booting, outcome, wrote, crashes>>

\* The next log, in id order: its intents are to be written again.
Recover(w) ==
    /\ pc = "recover" /\ NextLog(w)
    /\ pc' = "rewrite" /\ cursor' = w.id
    /\ staged' = w.data /\ todo' = DOMAIN w.data
    /\ UNCHANGED <<disk, wals, cache, body, stamped, who, txid, booting, outcome, wrote, crashes>>

Recovered ==
    /\ pc = "recover" /\ Ahead = {}
    /\ pc' = "idle" /\ cursor' = 0 /\ booting' = FALSE
    /\ UNCHANGED <<disk, wals, cache, body, stamped, who, txid, staged, todo, outcome, wrote, crashes>>

Rewrite(f) ==
    /\ pc = "rewrite" /\ f \in todo
    /\ disk' = [disk EXCEPT ![f] = staged[f]] /\ Touch(f)
    /\ todo' = todo \ {f}
    /\ UNCHANGED <<wals, cache, body, pc, who, txid, staged, cursor, booting, outcome, wrote, crashes>>

\* The startup keeps the log for the next start and goes on; a settle stops.
GiveUp == IF booting THEN "recover" ELSE "idle"

RewriteFails ==
    /\ pc = "rewrite" /\ todo # {} /\ "apply" \in Faults
    /\ pc' = GiveUp /\ staged' = NoFiles /\ todo' = {}
    /\ UNCHANGED <<disk, wals, cache, body, stamped, who, txid, cursor, booting, outcome, wrote, crashes>>

\* Mutant: the replay of a log ends before its last write.
RewrittenEarly ==
    /\ pc = "rewrite"
    /\ pc' = "retire" /\ Invalidate(DOMAIN staged)
    /\ UNCHANGED <<disk, wals, who, txid, staged, todo, cursor, booting, outcome, wrote, crashes>>

\* Every write of the log is done: its files' caches are dropped.
Rewritten ==
    /\ pc = "rewrite" /\ todo = {}
    /\ pc' = "retire" /\ Invalidate(DOMAIN staged)
    /\ UNCHANGED <<disk, wals, who, txid, staged, todo, cursor, booting, outcome, wrote, crashes>>

\* Mutant: a replayed log is not removed.
RetireKeepsLog ==
    /\ pc = "retire"
    /\ wals' = wals /\ pc' = "recover" /\ staged' = NoFiles /\ todo' = {}
    /\ UNCHANGED <<disk, cache, body, stamped, who, txid, cursor, booting, outcome, wrote, crashes>>

\* Done of a replayed log.
Retire ==
    /\ pc = "retire"
    /\ wals' = {w \in wals : w.id # cursor} /\ pc' = "recover" /\ staged' = NoFiles /\ todo' = {}
    /\ UNCHANGED <<disk, cache, body, stamped, who, txid, cursor, booting, outcome, wrote, crashes>>

RetireFails ==
    /\ pc = "retire" /\ "done" \in Faults
    /\ pc' = GiveUp /\ staged' = NoFiles /\ todo' = {}
    /\ UNCHANGED <<disk, wals, cache, body, stamped, who, txid, cursor, booting, outcome, wrote, crashes>>

Transaction ==
    \/ \E t \in Txs : Begin(t)
    \/ \E f \in Files : Stage(f) \/ WriteThrough(f) \/ Apply(f)
    \/ Abort \/ EndEmpty \/ Commit \/ CommitFails \/ ApplyFails
    \/ Restamp \/ Done \/ DoneFails

Recovery ==
    \/ Start \/ Settle \/ Recovered \/ Rewritten \/ Retire
    \/ RewriteFails \/ RetireFails
    \/ \E w \in wals : Recover(w)
    \/ \E f \in Files : Rewrite(f)

Next ==
    \/ Transaction \/ Recovery \/ Crash
    \/ \E f \in Files : Load(f) \/ \E t \in Txs : Save(t, f)

Spec == Init /\ [][Next]_vars

\* A stopped server is started again, and a started recovery runs to its end.
Fairness == WF_vars(Start \/ Recovered \/ Rewritten \/ Retire
                    \/ (\E w \in wals : Recover(w)) \/ (\E f \in Files : Rewrite(f)))

FairSpec == Spec /\ Fairness

-----------------------------------------------------------------------------
\* What file f holds once every committed log is written: the content of the
\* newest log naming it, else the file's.
Naming(f) == {w \in wals : f \in DOMAIN w.data}
Newest(f) == CHOOSE w \in Naming(f) : \A v \in Naming(f) : v.id <= w.id
Logical(f) == IF Naming(f) = {} THEN disk[f] ELSE Newest(f).data[f]

Staging == Files \ DirectFiles

\* Whenever the lock is free, a reader sees exactly the updates that landed:
\* no aborted update published early in a cache, no stale body restamped as
\* current (loadCached, invalidateCachesForWALIntents, refreshCachesAfterWALApply).
VisibleIsLogical == pc = "idle" => \A f \in Files : Visible(f) = Logical(f)

\* An update whose caller was told it succeeded is in every file it wrote, for
\* good: no crash, replay or later writer takes it back.
AckedLanded == \A t \in Txs : outcome[t] = "ok" => \A f \in wrote[t] : t \in Logical(f)

\* The same as its readers see it: whenever the lock is free, what a caller was
\* told it saved is read back.
AckedReadable ==
    pc = "idle" => \A t \in Txs : outcome[t] = "ok" => \A f \in wrote[t] : t \in Visible(f)

Nowhere(t) == \A f \in Staging : t \notin Logical(f) /\ (pc = "idle" => t \notin Visible(f))

\* An update whose transaction body returned an error is in no staged file: not
\* on disk, not in a log, not in what a reader is served from a cache.
AbortedNeverLands == \A t \in Txs : outcome[t] = "aborted" => Nowhere(t)

\* "Every other WithTransaction error means nothing was committed": the same of
\* a transaction whose wal.Commit returned an error.
FailedNeverLands == \A t \in Txs : outcome[t] = "failed" => Nowhere(t)

\* A log leaves the folder only once each of its files holds what it says.
RetiredOnlyWhenWritten ==
    [][\A w \in wals \ wals' : \A f \in DOMAIN w.data : disk[f] = w.data[f]]_vars

\* A log that cannot be written does not keep the server from starting.
StartupEnds == (pc = "down") ~> (pc = "idle")

\* Every log a crash leaves behind is written out and removed.
LogsAreSettled == (pc = "down") ~> (pc = "idle" /\ wals = {})

Promise == INSTANCE AtomicStore WITH Updates <- Txs, store <- [f \in Files |-> Logical(f)]
ImplementsAtomicStore == Promise!Spec
=============================================================================
