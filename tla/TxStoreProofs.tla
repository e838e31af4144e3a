--------------------------- MODULE TxStoreProofs ---------------------------
(***************************************************************************)
(* What TxStore's runs check on a small instance, for every set of files,  *)
(* of updates and every number of crashes.  Types, that an aborted update  *)
(* is never seen and that a log outlives its writes hold whatever the disk *)
(* refuses.  The rest is proved of a disk that refuses nothing (Faults =   *)
(* {}), where crashes, replays and readers meet: its inductive invariant   *)
(* says that at most one log exists, that it adds exactly its own update   *)
(* to each file it names, and how the caches stand to both.                *)
(***************************************************************************)
EXTENDS TxStore, TLAPS

\* A log, once committed, adds its own update and nothing else to its files:
\* writing it again changes nothing but that.
LogShape ==
    /\ \A v, w \in wals : v = w
    /\ \A w \in wals : /\ DOMAIN w.data \subseteq Staging
                       /\ w.id > 0
                       /\ outcome[w.who] \in {"open", "lost"}
                       /\ \A f \in DOMAIN w.data : w.data[f] = disk[f] \cup {w.who}

\* Which log there is, by what the holder of the lock is doing.
LogPlace ==
    /\ pc \in {"idle", "fn"} => wals = {}
    /\ pc \in {"apply", "done"} => wals = {[id |-> txid, who |-> who, data |-> staged]}
    /\ pc = "recover" => \A w \in wals : w.id > cursor
    /\ pc \in {"rewrite", "retire"} => \E w \in wals : w.id = cursor /\ w.data = staged

\* What the open transaction or recovery has staged and has written.
StagedShape ==
    /\ pc \in {"idle", "down", "recover"} => DOMAIN staged = {}
    /\ pc = "fn" => \A f \in DOMAIN staged : f \in Staging /\ staged[f] = disk[f] \cup {who}
    /\ pc \in {"apply", "rewrite"} => \A f \in DOMAIN staged \ todo : disk[f] = staged[f]
    /\ pc \in {"done", "retire"} => \A f \in DOMAIN staged : disk[f] = staged[f]

CacheShape ==
    /\ \A f \in (body \cap stamped) \ DOMAIN staged : cache[f] = disk[f]
    /\ pc \in TxSteps => \A f \in DOMAIN staged \cap body : cache[f] = staged[f]
    /\ pc \in {"down"} \cup RecoverySteps => body = {}

\* Whose updates are where.
Ledger ==
    /\ pc \in TxSteps =>
         /\ outcome[who] = "open" /\ txid > 0
         /\ \A f \in wrote[who] : f \in DOMAIN staged \/ who \in disk[f]
    /\ pc = "fn" => \A f \in Staging : who \notin disk[f]
    /\ \A t \in Txs : outcome[t] = "ok" => \A f \in wrote[t] : t \in disk[f]
    /\ \A t \in Txs : outcome[t] = "new" => wrote[t] = {}
    /\ \A t \in Txs : outcome[t] \in {"new", "aborted"} => \A f \in Staging : t \notin disk[f]

IInv == TypeOK /\ LogShape /\ LogPlace /\ StagedShape /\ CacheShape /\ Ledger

-----------------------------------------------------------------------------
\* A member of FileMap is a function from some of the files to contents.
LEMMA FileMapIs == \A s : s \in FileMap <=> DOMAIN s \subseteq Files /\ s \in [DOMAIN s -> SUBSET Txs]
  BY DEF FileMap

\* The server starts with values of their types (NewStore).
LEMMA InitTyped == Init => TypeOK
<1>1. NoFiles \in FileMap /\ DOMAIN NoFiles = {}
  BY FileMapIs DEF NoFiles
<1> SUFFICES ASSUME Init PROVE TypeOK
  OBVIOUS
<1>2. staged \in FileMap /\ todo \subseteq DOMAIN staged
  BY <1>1 DEF Init
<1>3. /\ disk \in [Files -> SUBSET Txs] /\ cache \in [Files -> SUBSET Txs]
      /\ wrote \in [Txs -> SUBSET Files]
  BY DEF Init
<1>4. outcome \in [Txs -> {"new", "open", "ok", "committed", "aborted", "failed", "lost"}]
  BY DEF Init
<1> QED BY <1>2, <1>3, <1>4 DEF Init, TypeOK

\* Every value the component can hold has its type, whatever the disk refuses:
\* in particular Apply and a replay only ever write files their log names.
THEOREM TypeCorrect == Spec => []TypeOK
<1>1. Init => TypeOK
  BY InitTyped
<1>2. TypeOK /\ [Next]_vars => TypeOK'
  <2> SUFFICES ASSUME TypeOK, [Next]_vars PROVE TypeOK'
    OBVIOUS
  <2> USE DEF TypeOK, TxSteps, RecoverySteps
  <2>0. NoFiles \in FileMap /\ DOMAIN NoFiles = {}
    BY FileMapIs DEF NoFiles
  <2>1. ASSUME NEW t \in Txs, Begin(t) PROVE TypeOK'
    BY <2>1 DEF Begin
  <2>2. ASSUME NEW f \in Files, Stage(f) PROVE TypeOK'
    <3> DEFINE new == TxVisible(f) \cup {who}
    <3>1. new \in SUBSET Txs
      BY FileMapIs DEF TxVisible, Visible
    <3>2. staged' \in FileMap /\ DOMAIN staged' = DOMAIN staged \cup {f}
      BY <2>2, <3>1, FileMapIs DEF Stage
    <3>3. cache' \in [Files -> SUBSET Txs] /\ body' \subseteq CachedFiles /\ stamped' \subseteq Files
      BY <2>2, <3>1 DEF Stage, Publish
    <3> QED BY <2>2, <3>2, <3>3 DEF Stage
  <2>3. ASSUME NEW f \in Files, WriteThrough(f) PROVE TypeOK'
    <3>1. Visible(f) \cup {who} \in SUBSET Txs
      BY DEF Visible
    <3> QED BY <2>3, <3>1 DEF WriteThrough, Publish
  <2>4. ASSUME NEW f \in Files, Apply(f) \/ Rewrite(f) PROVE TypeOK'
    <3>1. f \in DOMAIN staged /\ staged[f] \in SUBSET Txs
      BY <2>4, FileMapIs DEF Apply, Rewrite
    <3> QED BY <2>4, <3>1 DEF Apply, Rewrite, Touch
  <2>5. CASE Abort
    BY <2>0, <2>5 DEF Abort, EndTx, Invalidate
  <2>6. CASE EndEmpty \/ ApplyFails \/ DoneFails
    BY <2>0, <2>6 DEF EndEmpty, ApplyFails, DoneFails, EndTx
  <2>7. CASE Commit \/ CommitFails
    BY <2>0, <2>7 DEF Commit, CommitFails, EndTx, Logs
  <2>8. CASE Restamp
    BY FilesAssumption, <2>8 DEF Restamp
  <2>9. CASE Done
    BY <2>0, <2>9 DEF Done, EndTx
  <2>10. CASE Start \/ Settle \/ Recovered
    <3>1. CASE Start
      BY <3>1 DEF Start
    <3>2. CASE Settle
      BY <3>2 DEF Settle
    <3>3. CASE Recovered
      BY <3>3 DEF Recovered
    <3> QED BY <2>10, <3>1, <3>2, <3>3
  <2>11. ASSUME NEW w \in wals, Recover(w) PROVE TypeOK'
    BY <2>11 DEF Recover, Logs
  <2>12. CASE Rewritten
    BY <2>12 DEF Rewritten, Invalidate
  <2>13. CASE Retire
    <3>1. todo = {} \/ todo # {}
      OBVIOUS
    <3> QED BY <2>0, <2>13 DEF Retire
  <2>14. CASE RewriteFails
    BY <2>0, <2>14 DEF RewriteFails, GiveUp
  <2>15. CASE RetireFails
    BY <2>0, <2>15 DEF RetireFails, GiveUp
  <2>16. CASE Crash
    <3>1. outcome' \in [Txs -> {"new", "open", "ok", "committed", "aborted", "failed", "lost"}]
      BY <2>16 DEF Crash
    <3>2. cache' \in [Files -> SUBSET Txs] /\ body' \subseteq CachedFiles /\ stamped' \subseteq Files
      BY <2>16 DEF Crash, Invalidate
    <3>3. crashes' \in Nat /\ staged' \in FileMap /\ todo' \subseteq DOMAIN staged'
      BY <2>0, <2>16 DEF Crash
    <3>4. pc' \in {"down", "idle"} /\ cursor' \in Nat /\ booting' \in BOOLEAN
      BY <2>16 DEF Crash
    <3> QED BY <2>16, <3>1, <3>2, <3>3, <3>4 DEF Crash
  <2>17. ASSUME NEW f \in Files, Load(f) PROVE TypeOK'
    BY <2>17 DEF Load, Publish
  <2>18. ASSUME NEW t \in Txs, NEW f \in Files, Save(t, f) PROVE TypeOK'
    <3>1. Visible(f) \cup {t} \in SUBSET Txs
      BY DEF Visible
    <3> QED BY <2>18, <3>1 DEF Save, Publish
  <2>19. CASE UNCHANGED vars
    BY <2>19 DEF vars
  <2> QED
    BY <2>1, <2>2, <2>3, <2>4, <2>5, <2>6, <2>7, <2>8, <2>9, <2>10, <2>11, <2>12, <2>13,
       <2>14, <2>15, <2>16, <2>17, <2>18, <2>19 DEF Next, Transaction, Recovery
<1> QED BY <1>1, <1>2, PTL DEF Spec
-----------------------------------------------------------------------------
\* Every step keeps the inductive invariant, when no write is refused.
LEMMA InvStep == ASSUME Faults = {}, IInv, TypeOK', Next PROVE IInv'
<1> USE DEF IInv, TypeOK, TxSteps, RecoverySteps, Logs
<1>0. DOMAIN staged \subseteq Files /\ staged \in [DOMAIN staged -> SUBSET Txs]
  BY FileMapIs
<1>1. ASSUME NEW t \in Txs, Begin(t) PROVE IInv'
  <2>1. LogShape'
    BY <1>0, <1>1 DEF Begin, LogShape
  <2>2. LogPlace'
    BY <1>0, <1>1 DEF Begin, LogPlace
  <2>3. StagedShape'
    BY <1>0, <1>1 DEF Begin, StagedShape
  <2>4. CacheShape'
    BY <1>0, <1>1 DEF Begin, StagedShape, CacheShape
  <2>5. Ledger'
    BY <1>0, <1>1 DEF Begin, Ledger
  <2> QED BY <2>1, <2>2, <2>3, <2>4, <2>5
<1>2. ASSUME NEW f \in Files, Stage(f) PROVE IInv'
  <2>1. LogShape'
    BY <1>0, <1>2 DEF Stage, Publish, TxVisible, Visible, LogShape
  <2>2. LogPlace'
    BY <1>0, <1>2 DEF Stage, Publish, TxVisible, Visible, LogPlace
  <2>3. StagedShape'
    BY <1>0, <1>2 DEF Stage, Publish, TxVisible, Visible, StagedShape, CacheShape, Staging
  <2>4. CacheShape'
    <3>1. CASE f \in CachedFiles
      <4>1. cache' = [cache EXCEPT ![f] = TxVisible(f) \cup {who}] /\ body' = body \cup {f} /\ stamped' = stamped \cup {f}
        BY <1>2, <3>1 DEF Stage, Publish
      <4>2. f \in Files /\ cache'[f] = TxVisible(f) \cup {who} /\ \A g \in Files \ {f} : cache'[g] = cache[g]
        BY <4>1
      <4> QED BY <1>0, <1>2, <4>1, <4>2 DEF Stage, CacheShape, StagedShape
    <3>2. CASE f \notin CachedFiles
      <4>1. UNCHANGED <<cache, body, stamped>>
        BY <1>2, <3>2 DEF Stage, Publish
      <4> QED BY <1>0, <1>2, <3>2, <4>1 DEF Stage, CacheShape, StagedShape
    <3> QED BY <3>1, <3>2
  <2>5. Ledger'
    BY <1>0, <1>2 DEF Stage, Publish, TxVisible, Visible, Ledger
  <2> QED BY <2>1, <2>2, <2>3, <2>4, <2>5
<1>3. ASSUME NEW f \in Files, WriteThrough(f) PROVE IInv'
  <2>1. LogShape'
    BY <1>0, <1>3 DEF WriteThrough, Publish, Visible, LogShape, Staging
  <2>2. LogPlace'
    BY <1>0, <1>3 DEF WriteThrough, Publish, Visible, LogPlace
  <2>3. StagedShape'
    BY <1>0, <1>3 DEF WriteThrough, Publish, Visible, StagedShape, Staging
  <2>4. CacheShape'
    <3>1. CASE f \in CachedFiles
      <4>1. cache' = [cache EXCEPT ![f] = Visible(f) \cup {who}] /\ body' = body \cup {f} /\ stamped' = stamped \cup {f}
        BY <1>3, <3>1 DEF WriteThrough, Publish
      <4>2. f \in Files /\ cache'[f] = Visible(f) \cup {who} /\ \A g \in Files \ {f} : cache'[g] = cache[g]
        BY <4>1
      <4> QED BY <1>0, <1>3, <4>1, <4>2 DEF WriteThrough, Staging, CacheShape, StagedShape
    <3>2. CASE f \notin CachedFiles
      <4>1. UNCHANGED <<cache, body, stamped>>
        BY <1>3, <3>2 DEF WriteThrough, Publish
      <4> QED BY <1>0, <1>3, <3>2, <4>1 DEF WriteThrough, Staging, CacheShape, StagedShape
    <3> QED BY <3>1, <3>2
  <2>5. Ledger'
    BY <1>0, <1>3 DEF WriteThrough, Publish, Visible, StagedShape, CacheShape, Ledger, Staging
  <2> QED BY <2>1, <2>2, <2>3, <2>4, <2>5
<1>4. ASSUME Abort PROVE IInv'
  <2>1. LogShape'
    BY <1>0, <1>4 DEF Abort, EndTx, Invalidate, NoFiles, LogShape, LogPlace
  <2>2. LogPlace'
    BY <1>0, <1>4 DEF Abort, EndTx, Invalidate, NoFiles, LogPlace
  <2>3. StagedShape'
    BY <1>0, <1>4 DEF Abort, EndTx, Invalidate, NoFiles, StagedShape
  <2>4. CacheShape'
    BY <1>0, <1>4 DEF Abort, EndTx, Invalidate, NoFiles, CacheShape
  <2>5. Ledger'
    BY <1>0, <1>4 DEF Abort, EndTx, Invalidate, NoFiles, Ledger
  <2> QED BY <2>1, <2>2, <2>3, <2>4, <2>5
<1>5. ASSUME EndEmpty PROVE IInv'
  <2>1. LogShape'
    BY <1>0, <1>5 DEF EndEmpty, EndTx, NoFiles, LogShape, LogPlace
  <2>2. LogPlace'
    BY <1>0, <1>5 DEF EndEmpty, EndTx, NoFiles, LogPlace
  <2>3. StagedShape'
    BY <1>0, <1>5 DEF EndEmpty, EndTx, NoFiles, StagedShape
  <2>4. CacheShape'
    BY <1>0, <1>5 DEF EndEmpty, EndTx, NoFiles, CacheShape
  <2>5. Ledger'
    BY <1>0, <1>5 DEF EndEmpty, EndTx, NoFiles, Ledger
  <2> QED BY <2>1, <2>2, <2>3, <2>4, <2>5
<1>6. ASSUME Commit PROVE IInv'
  <2>1. LogShape'
    BY <1>0, <1>6 DEF Commit, LogShape, LogPlace, StagedShape, Ledger
  <2>2. LogPlace'
    BY <1>0, <1>6 DEF Commit, LogPlace
  <2>3. StagedShape'
    BY <1>0, <1>6 DEF Commit, StagedShape
  <2>4. CacheShape'
    BY <1>0, <1>6 DEF Commit, CacheShape
  <2>5. Ledger'
    BY <1>0, <1>6 DEF Commit, Ledger
  <2> QED BY <2>1, <2>2, <2>3, <2>4, <2>5
<1>7. ASSUME NEW f \in Files, Apply(f) PROVE IInv'
  <2>1. LogShape'
    BY <1>0, <1>7 DEF Apply, Touch, LogShape, LogPlace
  <2>2. LogPlace'
    BY <1>0, <1>7 DEF Apply, Touch, LogPlace
  <2>3. StagedShape'
    BY <1>0, <1>7 DEF Apply, Touch, StagedShape
  <2>4. CacheShape'
    BY <1>0, <1>7 DEF Apply, Touch, CacheShape
  <2>5. Ledger'
    <3>0. \A g \in DOMAIN staged : g \in Staging /\ staged[g] = disk[g] \cup {who}
      <4> DEFINE w == [id |-> txid, who |-> who, data |-> staged]
      <4>1. w \in wals
        BY <1>7 DEF Apply, LogPlace
      <4>2. DOMAIN w.data \subseteq Staging /\ \A g \in DOMAIN w.data : w.data[g] = disk[g] \cup {w.who}
        BY <4>1 DEF LogShape
      <4> QED BY <4>2
    <3>1. f \in DOMAIN staged /\ f \in Staging /\ disk' = [disk EXCEPT ![f] = disk[f] \cup {who}]
      BY <1>0, <3>0, <1>7 DEF Apply
    <3>2. \A g \in Files : disk[g] \subseteq disk'[g] /\ \A t \in disk'[g] : t \in disk[g] \/ t = who
      BY <3>1
    <3> QED BY <1>0, <1>7, <3>2 DEF Apply, Ledger, Staging
  <2> QED BY <2>1, <2>2, <2>3, <2>4, <2>5
<1>8. ASSUME Restamp PROVE IInv'
  <2>1. LogShape'
    BY <1>0, <1>8 DEF Restamp, LogShape
  <2>2. LogPlace'
    BY <1>0, <1>8 DEF Restamp, LogPlace
  <2>3. StagedShape'
    BY <1>0, <1>8 DEF Restamp, StagedShape
  <2>4. CacheShape'
    BY <1>0, <1>8 DEF Restamp, CacheShape
  <2>5. Ledger'
    BY <1>0, <1>8 DEF Restamp, Ledger
  <2> QED BY <2>1, <2>2, <2>3, <2>4, <2>5
<1>9. ASSUME Done PROVE IInv'
  <2>1. LogShape'
    BY <1>0, <1>9 DEF Done, EndTx, NoFiles, LogShape, LogPlace
  <2>2. LogPlace'
    BY <1>0, <1>9 DEF Done, EndTx, NoFiles, LogPlace
  <2>3. StagedShape'
    BY <1>0, <1>9 DEF Done, EndTx, NoFiles, StagedShape
  <2>4. CacheShape'
    BY <1>0, <1>9 DEF Done, EndTx, NoFiles, StagedShape, CacheShape
  <2>5. Ledger'
    <3>0. \A g \in DOMAIN staged : g \in Staging /\ staged[g] = disk[g] \cup {who}
      <4> DEFINE w == [id |-> txid, who |-> who, data |-> staged]
      <4>1. w \in wals
        BY <1>9 DEF Done, LogPlace
      <4>2. DOMAIN w.data \subseteq Staging /\ \A g \in DOMAIN w.data : w.data[g] = disk[g] \cup {w.who}
        BY <4>1 DEF LogShape
      <4> QED BY <4>2
    <3>1. \A g \in wrote[who] : who \in disk[g]
      BY <1>0, <3>0, <1>9 DEF Done, Ledger, StagedShape
    <3>2. outcome' = [outcome EXCEPT ![who] = "ok"] /\ pc' = "idle"
      BY <1>9 DEF Done, EndTx
    <3> QED BY <1>9, <3>1, <3>2 DEF Done, Ledger, Staging
  <2> QED BY <2>1, <2>2, <2>3, <2>4, <2>5
<1>10. ASSUME NEW t \in Txs, NEW f \in Files, Save(t, f) PROVE IInv'
  <2>1. LogShape'
    BY <1>0, <1>10 DEF Save, Publish, Visible, LogShape, LogPlace
  <2>2. LogPlace'
    BY <1>0, <1>10 DEF Save, Publish, Visible, LogPlace
  <2>3. StagedShape'
    BY <1>0, <1>10 DEF Save, Publish, Visible, StagedShape
  <2>4. CacheShape'
    <3>1. CASE f \in CachedFiles
      <4>1. cache' = [cache EXCEPT ![f] = Visible(f) \cup {t}] /\ body' = body \cup {f} /\ stamped' = stamped \cup {f}
        BY <1>10, <3>1 DEF Save, Publish
      <4>2. f \in Files /\ cache'[f] = Visible(f) \cup {t} /\ \A g \in Files \ {f} : cache'[g] = cache[g]
        BY <4>1
      <4> QED BY <1>0, <1>10, <4>1, <4>2 DEF Save, CacheShape, StagedShape
    <3>2. CASE f \notin CachedFiles
      <4>1. UNCHANGED <<cache, body, stamped>>
        BY <1>10, <3>2 DEF Save, Publish
      <4> QED BY <1>0, <1>10, <3>2, <4>1 DEF Save, CacheShape, StagedShape
    <3> QED BY <3>1, <3>2
  <2>5. Ledger'
    BY <1>0, <1>10 DEF Save, Publish, Visible, StagedShape, CacheShape, Ledger
  <2> QED BY <2>1, <2>2, <2>3, <2>4, <2>5
<1>11. ASSUME NEW f \in Files, Load(f) PROVE IInv'
  <2>1. LogShape'
    BY <1>0, <1>11 DEF Load, Publish, LogShape
  <2>2. LogPlace'
    BY <1>0, <1>11 DEF Load, Publish, LogPlace
  <2>3. StagedShape'
    BY <1>0, <1>11 DEF Load, Publish, StagedShape
  <2>4. CacheShape'
    BY <1>0, <1>11 DEF Load, Publish, CacheShape
  <2>5. Ledger'
    BY <1>0, <1>11 DEF Load, Publish, Ledger
  <2> QED BY <2>1, <2>2, <2>3, <2>4, <2>5
<1>12. ASSUME Crash PROVE IInv'
  <2>1. LogShape'
    BY <1>0, <1>12 DEF Crash, Invalidate, NoFiles, LogShape
  <2>2. LogPlace'
    BY <1>0, <1>12 DEF Crash, Invalidate, NoFiles, LogPlace
  <2>3. StagedShape'
    BY <1>0, <1>12 DEF Crash, Invalidate, NoFiles, StagedShape
  <2>4. CacheShape'
    <3>1. body' = body \ Files /\ body \subseteq Files /\ staged' = NoFiles /\ pc' = "down"
      BY FilesAssumption, <1>12 DEF Crash, Invalidate
    <3> QED BY <3>1 DEF CacheShape, NoFiles
  <2>5. Ledger'
    BY <1>0, <1>12 DEF Crash, Invalidate, NoFiles, Ledger
  <2> QED BY <2>1, <2>2, <2>3, <2>4, <2>5
<1>13. ASSUME Start PROVE IInv'
  <2>1. LogShape'
    BY <1>0, <1>13 DEF Start, LogShape
  <2>2. LogPlace'
    BY <1>0, <1>13 DEF Start, LogShape, LogPlace
  <2>3. StagedShape'
    BY <1>0, <1>13 DEF Start, StagedShape
  <2>4. CacheShape'
    BY <1>0, <1>13 DEF Start, CacheShape
  <2>5. Ledger'
    BY <1>0, <1>13 DEF Start, Ledger
  <2> QED BY <2>1, <2>2, <2>3, <2>4, <2>5
<1>14. ASSUME NEW w \in wals, Recover(w) PROVE IInv'
  <2>1. LogShape'
    BY <1>0, <1>14 DEF Recover, Ahead, NextLog, LogShape
  <2>2. LogPlace'
    BY <1>0, <1>14 DEF Recover, Ahead, NextLog, LogPlace
  <2>3. StagedShape'
    BY <1>0, <1>14 DEF Recover, Ahead, NextLog, StagedShape
  <2>4. CacheShape'
    BY <1>0, <1>14 DEF Recover, Ahead, NextLog, CacheShape
  <2>5. Ledger'
    BY <1>0, <1>14 DEF Recover, Ahead, NextLog, Ledger
  <2> QED BY <2>1, <2>2, <2>3, <2>4, <2>5
<1>15. ASSUME Recovered PROVE IInv'
  <2>1. LogShape'
    BY <1>0, <1>15 DEF Recovered, Ahead, LogShape
  <2>2. LogPlace'
    BY <1>0, <1>15 DEF Recovered, Ahead, LogPlace
  <2>3. StagedShape'
    BY <1>0, <1>15 DEF Recovered, Ahead, StagedShape
  <2>4. CacheShape'
    BY <1>0, <1>15 DEF Recovered, Ahead, CacheShape
  <2>5. Ledger'
    BY <1>0, <1>15 DEF Recovered, Ahead, Ledger
  <2> QED BY <2>1, <2>2, <2>3, <2>4, <2>5
<1>16. ASSUME NEW f \in Files, Rewrite(f) PROVE IInv'
  <2>1. LogShape'
    BY <1>0, <1>16 DEF Rewrite, Touch, LogShape, LogPlace
  <2>2. LogPlace'
    BY <1>0, <1>16 DEF Rewrite, Touch, LogPlace
  <2>3. StagedShape'
    BY <1>0, <1>16 DEF Rewrite, Touch, StagedShape
  <2>4. CacheShape'
    BY <1>0, <1>16 DEF Rewrite, Touch, CacheShape
  <2>5. Ledger'
    BY <1>0, <1>16 DEF Rewrite, Touch, LogShape, LogPlace, Ledger
  <2> QED BY <2>1, <2>2, <2>3, <2>4, <2>5
<1>17. ASSUME Rewritten PROVE IInv'
  <2>1. LogShape'
    BY <1>0, <1>17 DEF Rewritten, Invalidate, LogShape
  <2>2. LogPlace'
    BY <1>0, <1>17 DEF Rewritten, Invalidate, LogPlace
  <2>3. StagedShape'
    BY <1>0, <1>17 DEF Rewritten, Invalidate, StagedShape
  <2>4. CacheShape'
    BY <1>0, <1>17 DEF Rewritten, Invalidate, CacheShape
  <2>5. Ledger'
    BY <1>0, <1>17 DEF Rewritten, Invalidate, Ledger
  <2> QED BY <2>1, <2>2, <2>3, <2>4, <2>5
<1>18. ASSUME Retire PROVE IInv'
  <2>1. LogShape'
    BY <1>0, <1>18 DEF Retire, NoFiles, LogShape
  <2>2. LogPlace'
    BY <1>0, <1>18 DEF Retire, NoFiles, LogShape, LogPlace
  <2>3. StagedShape'
    BY <1>0, <1>18 DEF Retire, NoFiles, StagedShape
  <2>4. CacheShape'
    BY <1>0, <1>18 DEF Retire, NoFiles, CacheShape
  <2>5. Ledger'
    BY <1>0, <1>18 DEF Retire, NoFiles, Ledger
  <2> QED BY <2>1, <2>2, <2>3, <2>4, <2>5
<1>19. ~(CommitFails \/ ApplyFails \/ DoneFails \/ RewriteFails \/ RetireFails \/ Settle)
  BY DEF CommitFails, ApplyFails, DoneFails, RewriteFails, RetireFails, Settle, LogPlace
<1> QED BY <1>1, <1>2, <1>3, <1>4, <1>5, <1>6, <1>7, <1>8, <1>9, <1>10, <1>11, <1>12, <1>13, <1>14, <1>15, <1>16, <1>17, <1>18, <1>19 DEF Next, Transaction, Recovery
\* Of a disk that refuses nothing, the inductive invariant holds: crashes and
\* replays leave at most one log, whose rewriting is idempotent.
THEOREM InductiveInvariant == ASSUME Faults = {} PROVE Spec => []IInv
<1>1. Init => IInv
  <2> SUFFICES ASSUME Init PROVE LogShape /\ LogPlace /\ StagedShape /\ CacheShape /\ Ledger
    BY InitTyped DEF IInv
  <2>1. wals = {} /\ body = {} /\ pc = "idle" /\ DOMAIN staged = {}
    BY DEF Init, NoFiles
  <2>2. \A t \in Txs : outcome[t] = "new" /\ wrote[t] = {}
    BY DEF Init
  <2>3. \A f \in Files : disk[f] = {}
    BY DEF Init
  <2> QED BY <2>1, <2>2, <2>3 DEF LogShape, LogPlace, StagedShape, CacheShape, Ledger, TxSteps, RecoverySteps, Staging
<1>2. IInv /\ TypeOK' /\ [Next]_vars => IInv'
  <2> SUFFICES ASSUME IInv, TypeOK', [Next]_vars PROVE IInv'
    OBVIOUS
  <2>1. CASE Next
    BY <2>1, InvStep
  <2>2. CASE UNCHANGED vars
    BY <2>2 DEF vars, IInv, TypeOK, LogShape, LogPlace, StagedShape, CacheShape, Ledger
  <2> QED BY <2>1, <2>2
<1> QED BY <1>1, <1>2, TypeCorrect, PTL DEF Spec

-----------------------------------------------------------------------------
\* What the logical content of a file is under the invariant: the file's, and
\* the update of the log that names it.
LEMMA LogicalIs ==
  ASSUME IInv, NEW f \in Files
  PROVE  /\ \A w \in Naming(f) : Logical(f) = disk[f] \cup {w.who}
         /\ Naming(f) = {} => Logical(f) = disk[f]
<1>1. ASSUME NEW w \in Naming(f) PROVE Logical(f) = disk[f] \cup {w.who}
  <2>1. \A v \in Naming(f) : v = w
    BY <1>1 DEF IInv, LogShape, Naming
  <2>2. w.id <= w.id
    BY <1>1 DEF IInv, TypeOK, Logs, Naming
  <2>3. Newest(f) = w
    BY <1>1, <2>1, <2>2 DEF Newest
  <2> QED BY <1>1, <2>3 DEF Logical, IInv, LogShape, Naming
<1> QED BY <1>1 DEF Logical

\* With no log in the folder no log names a file (the common case of a load).
LEMMA NoLogNoNaming == ASSUME wals = {} PROVE \A f : Naming(f) = {}
  BY DEF Naming

\* A file read through a cache is the file, when the lock is free.
LEMMA IdleIsDisk ==
  ASSUME IInv, pc = "idle", NEW f \in Files
  PROVE  Visible(f) = disk[f] /\ Logical(f) = disk[f]
<1>1. wals = {} /\ DOMAIN staged = {}
  BY DEF IInv, LogPlace, StagedShape
<1>2. Logical(f) = disk[f]
  BY <1>1, LogicalIs, NoLogNoNaming
<1> QED BY <1>1, <1>2 DEF Visible, IInv, CacheShape

\* Readers are never served an update that did not land, nor an old copy: of
\* the caches WithTransaction fills before the write, drops and restamps.
THEOREM CachesAreCoherent == ASSUME Faults = {} PROVE Spec => []VisibleIsLogical
<1>1. IInv => VisibleIsLogical
  BY IdleIsDisk DEF VisibleIsLogical
<1> QED BY <1>1, InductiveInvariant, PTL

\* An acknowledged update is never lost to a crash, a replay or a later writer.
THEOREM AckedUpdatesStay == ASSUME Faults = {} PROVE Spec => []AckedLanded
<1>1. ASSUME IInv PROVE AckedLanded
  <2> SUFFICES ASSUME NEW t \in Txs, outcome[t] = "ok", NEW f \in wrote[t] PROVE t \in Logical(f)
    BY DEF AckedLanded
  <2>1. f \in Files /\ t \in disk[f]
    BY <1>1 DEF IInv, TypeOK, Ledger
  <2>2. disk[f] \subseteq Logical(f)
    BY <1>1, <2>1, LogicalIs
  <2> QED BY <2>1, <2>2
<1> QED BY <1>1, InductiveInvariant, PTL

-----------------------------------------------------------------------------
\* The updates no reader may see: not made yet, or made by a transaction whose
\* body returned an error.
Away == {t \in Txs : outcome[t] \in {"new", "aborted"}}

\* Update t is in no staged file and in no log.
OffDisk(t) == \A f \in Staging : /\ t \notin disk[f]
                                 /\ \A w \in wals : f \in DOMAIN w.data => t \notin w.data[f]

\* Whatever the disk refuses: an update nobody may see is nowhere, and that of
\* the open transaction is in memory alone, in the files it has staged.
Confined ==
    /\ \A t \in Away : /\ OffDisk(t)
                       /\ \A f \in Staging : /\ f \in body => t \notin cache[f]
                                             /\ f \in DOMAIN staged => t \notin staged[f]
    /\ pc = "fn" => /\ outcome[who] = "open" /\ OffDisk(who)
                    /\ \A f \in Staging \ DOMAIN staged : f \in body => who \notin cache[f]

\* Logs that piled up still have a newest one, among those of any file.
Newer == \A W \in SUBSET wals : W # {} => \E w \in W : \A v \in W : v.id <= w.id
Ordered == (\A w \in wals : w.id <= txid) /\ Newer

\* A log gets an id no other log exceeds, and removing logs leaves a newest.
LEMMA OrderedStep == ASSUME TypeOK, Ordered, [Next]_vars PROVE Ordered'
<1> USE DEF Ordered
<1>1. txid \in Nat /\ txid' \in Nat /\ txid <= txid' /\ \A w \in wals : w.id \in Nat
  <2>1. txid' \in {txid, txid + 1}
    BY DEF Next, Transaction, Recovery, vars, Begin, Stage, WriteThrough, Abort, EndEmpty, Commit, CommitFails, Apply,
       ApplyFails, Restamp, Done, DoneFails, Save, Load, Crash, Start, Settle, Recover, Recovered, Rewrite, RewriteFails,
       Rewritten, Retire, RetireFails
  <2> QED BY <2>1 DEF TypeOK, Logs
<1>2. CASE wals' \subseteq wals
  BY <1>1, <1>2 DEF Newer
<1>3. ASSUME Commit \/ CommitFails, ~(wals' \subseteq wals) PROVE Ordered'
  <2> DEFINE log == [id |-> txid, who |-> who, data |-> staged]
  <2>1. wals' = wals \cup {log} /\ txid' = txid
    BY <1>3 DEF Commit, CommitFails
  <2>2. log.id = txid
    OBVIOUS
  <2> HIDE DEF log
  <2>3. \A w \in wals' : w.id <= txid'
    BY <1>1, <2>1, <2>2
  <2>4. ASSUME NEW W \in SUBSET wals', W # {} PROVE \E w \in W : \A v \in W : v.id <= w.id
    <3>1. CASE log \in W
      BY <2>1, <2>2, <2>3, <3>1
    <3>2. CASE log \notin W
      <4>1. W \in SUBSET wals
        BY <2>1, <2>4, <3>2
      <4> QED BY <2>4, <4>1 DEF Newer
    <3> QED BY <3>1, <3>2
  <2>5. Newer'
    BY <2>4 DEF Newer
  <2> QED BY <2>3, <2>5
<1>4. (wals' \subseteq wals) \/ Commit \/ CommitFails
  BY DEF Next, Transaction, Recovery, vars, Begin, Stage, WriteThrough, Abort, EndEmpty, Apply,
     ApplyFails, Restamp, Done, DoneFails, Save, Load, Crash, Start, Settle, Recover, Recovered, Rewrite, RewriteFails,
     Rewritten, Retire, RetireFails
<1> QED BY <1>2, <1>3, <1>4

\* No step, failed or not, takes such an update out of where it is confined.
LEMMA ConfinedStep == ASSUME TypeOK, Confined, [Next]_vars PROVE Confined'
<1> USE DEF TxSteps, RecoverySteps
<1>0. /\ DOMAIN staged \subseteq Files /\ staged \in [DOMAIN staged -> SUBSET Txs] /\ who \in Txs
      /\ disk \in [Files -> SUBSET Txs] /\ cache \in [Files -> SUBSET Txs] /\ body \subseteq CachedFiles
      /\ outcome \in [Txs -> {"new", "open", "ok", "committed", "aborted", "failed", "lost"}]
      /\ \A w \in wals : DOMAIN w.data \subseteq Files
      /\ todo \subseteq DOMAIN staged
      /\ CachedFiles \subseteq Files /\ Staging \subseteq Files
  BY FileMapIs, FilesAssumption DEF TypeOK, Logs, Staging
<1>1. ASSUME NEW t \in Txs, Begin(t) PROVE Confined'
  BY <1>0, <1>1 DEF Begin, Confined, Away, OffDisk
<1>2. ASSUME NEW f \in Files, Stage(f) PROVE Confined'
  <2> DEFINE new == TxVisible(f) \cup {who}
  <2>1. /\ UNCHANGED <<disk, wals, pc, who, outcome>> /\ pc = "fn" /\ f \notin DOMAIN staged /\ f \in Staging
        /\ DOMAIN staged' = DOMAIN staged \cup {f} /\ staged'[f] = new /\ \A g \in DOMAIN staged : staged'[g] = staged[g]
    BY <1>2 DEF Stage, Staging
  <2>2. /\ \A g \in Files \ {f} : cache'[g] = cache[g] /\ (g \in body' <=> g \in body)
        /\ f \in body' => cache'[f] = new
    BY <1>0, <1>2 DEF Stage, Publish
  <2>3. \A t \in Away : t # who /\ t \notin new
    BY <1>0, <2>1 DEF Confined, Away, OffDisk, TxVisible, Visible
  <2> HIDE DEF new
  <2> QED BY <1>0, <2>1, <2>2, <2>3 DEF Confined, Away, OffDisk
<1>3. ASSUME NEW f \in Files, WriteThrough(f) PROVE Confined'
  <2>1. /\ UNCHANGED <<wals, pc, who, outcome, staged>> /\ pc = "fn" /\ f \notin Staging
        /\ \A g \in Files \ {f} : disk'[g] = disk[g] /\ cache'[g] = cache[g] /\ (g \in body' <=> g \in body)
    BY <1>0, <1>3 DEF WriteThrough, Staging, Publish
  <2> QED BY <1>0, <2>1 DEF Confined, Away, OffDisk
<1>4. ASSUME NEW t \in Txs, NEW f \in Files, Save(t, f) PROVE Confined'
  <2> DEFINE new == Visible(f) \cup {t}
  <2>1. /\ UNCHANGED <<wals, pc, who, staged>> /\ pc = "idle" /\ outcome' = [outcome EXCEPT ![t] = "ok"]
        /\ \A g \in Files \ {f} : disk'[g] = disk[g] /\ cache'[g] = cache[g] /\ (g \in body' <=> g \in body)
        /\ disk'[f] = new /\ (f \in body' => cache'[f] = new)
    BY <1>0, <1>4 DEF Save, Publish
  <2>2. Away' = Away \ {t}
    BY <1>0, <2>1 DEF Away
  <2>3. ASSUME NEW s \in Away, s # t, f \in Staging PROVE s \notin new
    BY <2>3 DEF Confined, OffDisk, Visible
  <2> HIDE DEF new
  <2> QED BY <1>0, <2>1, <2>2, <2>3 DEF Confined, OffDisk
<1>5. CASE Abort
  <2>1. /\ UNCHANGED <<disk, wals, who>> /\ pc = "fn" /\ pc' = "idle" /\ DOMAIN staged' = {}
        /\ body' = body \ DOMAIN staged /\ \A f \in Files \ DOMAIN staged : cache'[f] = cache[f]
        /\ outcome' = [outcome EXCEPT ![who] = "aborted"]
    BY <1>5 DEF Abort, EndTx, Invalidate, NoFiles
  <2>2. Away' = Away \cup {who}
    BY <1>0, <2>1 DEF Away
  <2>3. \A t \in Away' : OffDisk(t) /\ \A f \in Staging : f \in body' => t \notin cache[f]
    BY <1>0, <2>1, <2>2 DEF Confined
  <2> QED BY <1>0, <2>1, <2>3 DEF Confined, OffDisk
<1>6. CASE EndEmpty \/ ApplyFails \/ DoneFails
  <2>1. /\ UNCHANGED <<disk, wals, cache, body, who>> /\ pc' = "idle" /\ DOMAIN staged' = {}
        /\ \E r \in {"ok", "committed"} : outcome' = [outcome EXCEPT ![who] = r]
    BY <1>6 DEF EndEmpty, ApplyFails, DoneFails, EndTx, NoFiles
  <2>2. Away' \subseteq Away
    BY <1>0, <2>1 DEF Away
  <2> QED BY <2>1, <2>2 DEF Confined, OffDisk
<1>7. CASE Commit \/ CommitFails
  <2> DEFINE log == [id |-> txid, who |-> who, data |-> staged]
  <2>1. /\ UNCHANGED <<disk, cache, body, who>> /\ pc = "fn" /\ pc' \in {"apply", "idle"}
        /\ wals' \subseteq wals \cup {log}
        /\ (UNCHANGED <<outcome, staged>>
             \/ (DOMAIN staged' = {} /\ outcome' = [outcome EXCEPT ![who] = "failed"]))
    BY <1>7 DEF Commit, CommitFails, EndTx, NoFiles
  <2>2. log.data = staged
    OBVIOUS
  <2>3. Away' \subseteq Away
    BY <1>0, <2>1 DEF Away
  <2> HIDE DEF log
  <2> QED BY <2>1, <2>2, <2>3 DEF Confined, OffDisk
<1>8. ASSUME NEW f \in Files, Apply(f) \/ Rewrite(f) PROVE Confined'
  <2>1. /\ UNCHANGED <<wals, cache, body, who, pc, staged, outcome>> /\ pc # "fn" /\ f \in DOMAIN staged
        /\ \A g \in Files : disk'[g] = IF g = f THEN staged[f] ELSE disk[g]
    BY <1>0, <1>8 DEF Apply, Rewrite
  <2>2. Away' = Away
    BY <2>1 DEF Away
  <2> QED BY <1>0, <2>1, <2>2 DEF Confined, OffDisk
<1>9. CASE Done
  <2>1. /\ UNCHANGED <<disk, cache, body, who>> /\ pc' = "idle" /\ DOMAIN staged' = {} /\ wals' \subseteq wals
        /\ outcome' = [outcome EXCEPT ![who] = "ok"]
    BY <1>9 DEF Done, EndTx, NoFiles
  <2>2. Away' \subseteq Away
    BY <1>0, <2>1 DEF Away
  <2> QED BY <2>1, <2>2 DEF Confined, OffDisk
<1>10. CASE Crash
  <2>1. /\ UNCHANGED <<disk, wals, who>> /\ pc' = "down" /\ DOMAIN staged' = {} /\ body' = {}
        /\ (UNCHANGED outcome \/ outcome' = [outcome EXCEPT ![who] = "lost"])
    BY <1>0, <1>10 DEF Crash, Invalidate, NoFiles
  <2>2. Away' \subseteq Away
    BY <1>0, <2>1 DEF Away
  <2> QED BY <2>1, <2>2 DEF Confined, OffDisk
<1>11. CASE Retire \/ RewriteFails \/ RetireFails
  <2>1. /\ UNCHANGED <<disk, cache, body, who, outcome>> /\ pc' # "fn" /\ DOMAIN staged' = {} /\ wals' \subseteq wals
    BY <1>11 DEF Retire, RewriteFails, RetireFails, GiveUp, NoFiles
  <2> QED BY <2>1 DEF Confined, Away, OffDisk
<1>12. CASE Start \/ Settle \/ Recovered \/ Restamp
  <2>1. UNCHANGED <<disk, wals, cache, body, who, outcome, staged>> /\ pc' # "fn"
    BY <1>12 DEF Start, Settle, Recovered, Restamp
  <2> QED BY <2>1 DEF Confined, Away, OffDisk
<1>13. ASSUME NEW w \in wals, Recover(w) PROVE Confined'
  <2>1. UNCHANGED <<disk, wals, cache, body, who, outcome>> /\ pc' # "fn" /\ staged' = w.data
    BY <1>13 DEF Recover
  <2> QED BY <2>1 DEF Confined, Away, OffDisk
<1>14. CASE Rewritten
  <2>1. /\ UNCHANGED <<disk, wals, who, outcome, staged>> /\ pc' # "fn"
        /\ body' \subseteq body /\ \A f \in body' : cache'[f] = cache[f]
    BY <1>0, <1>14 DEF Rewritten, Invalidate
  <2> QED BY <2>1 DEF Confined, Away, OffDisk
<1>15. ASSUME NEW f \in Files, Load(f) PROVE Confined'
  <2>1. /\ UNCHANGED <<disk, wals, who, outcome, staged, pc>> /\ pc # "fn" /\ body' = body \cup {f}
        /\ \A g \in Files : cache'[g] = IF g = f THEN disk[f] ELSE cache[g]
    BY <1>0, <1>15 DEF Load, Publish
  <2> QED BY <1>0, <2>1 DEF Confined, Away, OffDisk
<1>16. CASE UNCHANGED vars
  BY <1>16 DEF vars, Confined, Away, OffDisk
<1> QED BY <1>1, <1>2, <1>3, <1>4, <1>5, <1>6, <1>7, <1>8, <1>9, <1>10, <1>11, <1>12, <1>13, <1>14, <1>15, <1>16
        DEF Next, Transaction, Recovery

\* The update of a transaction whose body returned an error is in no staged
\* file, no log and no cache a reader is served from: whatever writes fail,
\* and however many logs pile up (WithTransaction's abort path).
THEOREM AbortedUpdatesVanish == Spec => []AbortedNeverLands
<1>1. Init => Confined /\ Ordered
  <2> SUFFICES ASSUME Init PROVE Confined /\ Ordered
    OBVIOUS
  <2>1. wals = {} /\ body = {} /\ pc = "idle" /\ DOMAIN staged = {} /\ \A f \in Files : disk[f] = {}
    BY DEF Init, NoFiles
  <2> QED BY <2>1 DEF Confined, OffDisk, Ordered, Newer, Staging
<1>2. TypeOK /\ Confined /\ Ordered /\ [Next]_vars => (Confined /\ Ordered)'
  BY ConfinedStep, OrderedStep
<1>3. TypeOK /\ Confined /\ Ordered => AbortedNeverLands
  <2> SUFFICES ASSUME TypeOK, Confined, Ordered, NEW t \in Txs, outcome[t] = "aborted", NEW f \in Staging
               PROVE  t \notin Logical(f) /\ (pc = "idle" => t \notin Visible(f))
    BY DEF AbortedNeverLands, Nowhere
  <2>1. OffDisk(t) /\ (f \in body => t \notin cache[f])
    BY DEF Confined, Away
  <2>2. ASSUME Naming(f) # {} PROVE Newest(f) \in Naming(f)
    <3>1. Naming(f) \in SUBSET wals
      BY DEF Naming
    <3>2. \E w \in Naming(f) : \A v \in Naming(f) : v.id <= w.id
      BY <2>2, <3>1 DEF Ordered, Newer
    <3> QED BY <3>2 DEF Newest
  <2>3. t \notin Logical(f)
    BY <2>1, <2>2 DEF Logical, Naming, OffDisk
  <2> QED BY <2>1, <2>3 DEF Visible, OffDisk
<1> QED BY <1>1, <1>2, <1>3, TypeCorrect, PTL DEF Spec

-----------------------------------------------------------------------------
\* What is about to be removed: one log has each id, the open transaction's is
\* its own, the recovery's is the one it has staged, and what is staged and not
\* left to do is in the files.
Retiring ==
    /\ \A v, w \in wals : v.id = w.id => v = w
    /\ \A w \in wals : w.id <= txid
    /\ pc = "fn" => \A w \in wals : w.id < txid
    /\ pc \in {"apply", "done"} => \A w \in wals : w.id = txid => w.data = staged
    /\ pc \in {"rewrite", "retire"} => \A w \in wals : w.id = cursor => w.data = staged
    /\ pc \in {"apply", "rewrite"} => \A f \in DOMAIN staged \ todo : disk[f] = staged[f]
    /\ pc \in {"done", "retire"} => \A f \in DOMAIN staged : disk[f] = staged[f]

\* Every step keeps it, a write, a replay or a removal that fails included.
LEMMA RetiringStep == ASSUME TypeOK, Retiring, [Next]_vars PROVE Retiring'
<1>0. /\ txid \in Nat /\ cursor \in Nat /\ \A w \in wals : w.id \in Nat
      /\ disk \in [Files -> SUBSET Txs] /\ todo \subseteq DOMAIN staged /\ DOMAIN staged \subseteq Files
  BY FileMapIs DEF TypeOK, Logs
<1>1. ASSUME NEW t \in Txs, Begin(t) PROVE Retiring'
  BY <1>0, <1>1 DEF Begin, Retiring
<1>2. ASSUME NEW f \in Files, Stage(f) \/ WriteThrough(f) PROVE Retiring'
  <2>1. UNCHANGED <<wals, pc, txid>> /\ pc = "fn"
    BY <1>2 DEF Stage, WriteThrough
  <2> QED BY <2>1 DEF Retiring
<1>3. CASE Commit \/ CommitFails
  <2> DEFINE log == [id |-> txid, who |-> who, data |-> staged]
  <2>1. /\ UNCHANGED <<disk, txid>> /\ pc = "fn" /\ wals' \subseteq wals \cup {log}
        /\ pc' = "idle" \/ (pc' = "apply" /\ UNCHANGED staged /\ todo' = DOMAIN staged)
    BY <1>3 DEF Commit, CommitFails, EndTx
  <2>2. log.data = staged /\ log.id = txid
    OBVIOUS
  <2> HIDE DEF log
  <2> QED BY <1>0, <2>1, <2>2 DEF Retiring
<1>4. ASSUME NEW f \in Files, Apply(f) \/ Rewrite(f) PROVE Retiring'
  <2>1. /\ UNCHANGED <<wals, pc, txid, cursor, staged>> /\ pc \in {"apply", "rewrite"} /\ todo' = todo \ {f}
        /\ \A g \in Files : disk'[g] = IF g = f THEN staged[f] ELSE disk[g]
    BY <1>0, <1>4 DEF Apply, Rewrite
  <2> QED BY <1>0, <2>1 DEF Retiring
<1>5. CASE Restamp \/ Rewritten
  <2>1. /\ UNCHANGED <<wals, disk, txid, cursor, staged>> /\ todo = {}
        /\ (pc = "apply" /\ pc' = "done") \/ (pc = "rewrite" /\ pc' = "retire")
    BY <1>5 DEF Restamp, Rewritten
  <2> QED BY <2>1 DEF Retiring
<1>6. CASE \/ Abort \/ EndEmpty \/ ApplyFails \/ Done \/ DoneFails \/ Crash \/ Start \/ Settle
           \/ Recovered \/ Retire \/ RewriteFails \/ RetireFails
  <2>1. wals' \subseteq wals /\ txid' = txid /\ pc' \in {"idle", "down", "recover"}
    BY <1>6 DEF Abort, EndEmpty, ApplyFails, Done, DoneFails, Crash, Start, Settle, Recovered, Retire,
       RewriteFails, RetireFails, GiveUp, EndTx
  <2> QED BY <2>1 DEF Retiring
<1>7. ASSUME NEW f \in Files, Load(f) \/ (\E t \in Txs : Save(t, f)) PROVE Retiring'
  <2>1. UNCHANGED <<wals, txid, pc>> /\ pc = "idle"
    BY <1>7 DEF Save, Load
  <2> QED BY <2>1 DEF Retiring
<1>8. ASSUME NEW w \in wals, Recover(w) PROVE Retiring'
  BY <1>8 DEF Recover, Retiring
<1>9. CASE UNCHANGED vars
  BY <1>9 DEF vars, Retiring
<1> QED BY <1>1, <1>2, <1>3, <1>4, <1>5, <1>6, <1>7, <1>8, <1>9 DEF Next, Transaction, Recovery

\* A log is removed only when its files hold what it says, whatever the disk
\* refuses: wal.Done comes after a whole Apply, a replay's after a whole replay.
THEOREM LogsOutliveTheirWrites == Spec => RetiredOnlyWhenWritten
<1> DEFINE Kept == \A w \in wals \ wals' : \A f \in DOMAIN w.data : disk[f] = w.data[f]
<1>1. Init => Retiring
  BY DEF Init, Retiring
<1>2. TypeOK /\ Retiring /\ [Next]_vars => Retiring'
  BY RetiringStep
<1>3. TypeOK /\ Retiring /\ [Next]_vars => [Kept]_vars
  <2> SUFFICES ASSUME TypeOK, Retiring, [Next]_vars PROVE Kept
    OBVIOUS
  <2>1. CASE Done
    BY <2>1 DEF Done, Retiring
  <2>2. CASE Retire
    BY <2>2 DEF Retire, Retiring
  <2>3. CASE ~Done /\ ~Retire
    <3>1. wals \subseteq wals'
      BY <2>3 DEF Next, Transaction, Recovery, vars, Begin, Stage, WriteThrough, Abort, EndEmpty,
         Commit, CommitFails, Apply, ApplyFails, Restamp, DoneFails, Save, Load, Crash, Start, Settle,
         Recover, Recovered, Rewrite, RewriteFails, Rewritten, RetireFails
    <3> QED BY <3>1
  <2> QED BY <2>1, <2>2, <2>3
<1> HIDE DEF Kept
<1>4. Spec => [][Kept]_vars
  BY <1>1, <1>2, <1>3, TypeCorrect, PTL DEF Spec
<1> QED BY <1>4 DEF Kept, RetiredOnlyWhenWritten
-----------------------------------------------------------------------------
\* The content of a file, without choosing a log: the file's updates and those
\* of the logs that name it.
Content(f) == disk[f] \cup {w.who : w \in Naming(f)}

\* Under the invariant that is the logical content, so a replay adds one update.
LEMMA LogicalIsContent == IInv => \A f \in Files : Logical(f) = Content(f)
<1> SUFFICES ASSUME IInv, NEW f \in Files PROVE Logical(f) = Content(f)
  OBVIOUS
<1>1. CASE Naming(f) = {}
  BY <1>1, LogicalIs DEF Content
<1>2. ASSUME NEW w \in Naming(f) PROVE Logical(f) = Content(f)
  <2>1. \A v \in Naming(f) : v = w
    BY DEF IInv, LogShape, Naming
  <2> QED BY <1>2, <2>1, LogicalIs DEF Content
<1> QED BY <1>1, <1>2

\* The same after a step.
LEMMA LogicalIsContentNext == IInv' => \A f \in Files : Logical(f)' = Content(f)'
<1>1. (IInv => \A f \in Files : Logical(f) = Content(f))'
  BY LogicalIsContent, PTL
<1> QED BY <1>1

\* The four steps that land an update are AtomicStore's; every other step, the
\* writes of Apply and of a replay among them, changes no file's content.
LEMMA StepLands == ASSUME Faults = {}, IInv, IInv', Next
                   PROVE  \/ \A f \in Files : Content(f)' = Content(f)
                          \/ \E t \in Txs, F \in (SUBSET Files) \ {{}} :
                               /\ F \subseteq Staging \/ \E f \in Files : F = {f}
                               /\ \A f \in Staging : t \notin Content(f)
                               /\ \A f \in Files : Content(f)' = IF f \in F THEN Content(f) \cup {t} ELSE Content(f)
<1> USE DEF IInv
<1>0. DOMAIN staged \subseteq Files /\ staged \in [DOMAIN staged -> SUBSET Txs]
  BY FileMapIs DEF TypeOK
<1> DEFINE Lands(t, F) == \A f \in Files : Content(f)' = IF f \in F THEN Content(f) \cup {t} ELSE Content(f)
<1>1. ASSUME UNCHANGED <<disk, wals>> PROVE \A f \in Files : Content(f)' = Content(f)
  BY <1>1 DEF Content, Naming
<1>2. ASSUME NEW f \in Files, WriteThrough(f) PROVE Lands(who, {f}) /\ \A g \in Staging : who \notin Content(g)
  <2>1. wals = {} /\ wals' = {} /\ f \notin DOMAIN staged
    BY <1>2 DEF WriteThrough, LogPlace, StagedShape, Staging
  <2>2. \A g \in Files : Content(g) = disk[g] /\ Content(g)' = disk'[g]
    BY <2>1 DEF Content, Naming
  <2>3. disk' = [disk EXCEPT ![f] = disk[f] \cup {who}]
    BY <1>2, <2>1 DEF WriteThrough, Visible, CacheShape
  <2> QED BY <1>2, <2>2, <2>3 DEF WriteThrough, Ledger, TypeOK, Staging, TxSteps
<1>3. ASSUME NEW t \in Txs, NEW f \in Files, Save(t, f) PROVE Lands(t, {f}) /\ \A g \in Staging : t \notin Content(g)
  <2>1. wals = {} /\ wals' = {} /\ f \notin DOMAIN staged
    BY <1>3 DEF Save, LogPlace, StagedShape
  <2>2. \A g \in Files : Content(g) = disk[g] /\ Content(g)' = disk'[g]
    BY <2>1 DEF Content, Naming
  <2>3. disk' = [disk EXCEPT ![f] = disk[f] \cup {t}]
    BY <1>3, <2>1 DEF Save, Visible, CacheShape
  <2> QED BY <1>3, <2>2, <2>3 DEF Save, Ledger, TypeOK, Staging
<1>4. ASSUME Commit PROVE /\ DOMAIN staged \in (SUBSET Files) \ {{}} /\ DOMAIN staged \subseteq Staging
                           /\ Lands(who, DOMAIN staged) /\ \A g \in Staging : who \notin Content(g)
  <2>1. wals = {} /\ wals' = {[id |-> txid, who |-> who, data |-> staged]} /\ disk' = disk
    BY <1>4 DEF Commit, LogPlace
  <2>2. \A g \in Files : Content(g) = disk[g] /\ Content(g)' = IF g \in DOMAIN staged THEN disk[g] \cup {who} ELSE disk[g]
    <3> DEFINE log == [id |-> txid, who |-> who, data |-> staged]
    <3>1. \A g : Naming(g) = {} /\ Naming(g)' = IF g \in DOMAIN staged THEN {log} ELSE {}
      BY <2>1 DEF Naming
    <3>2. log.who = who
      OBVIOUS
    <3> HIDE DEF log
    <3> QED BY <2>1, <3>1, <3>2 DEF Content
  <2>3. DOMAIN staged \subseteq Staging /\ DOMAIN staged # {}
    BY <1>4 DEF Commit, StagedShape
  <2>4. Lands(who, DOMAIN staged) /\ \A g \in Staging : who \notin Content(g)
    BY <1>4, <2>2 DEF Commit, Ledger, Staging
  <2> QED BY <1>0, <2>3, <2>4
<1>5. ASSUME NEW f \in Files, Apply(f) \/ Rewrite(f) PROVE \A g \in Files : Content(g)' = Content(g)
  <2>1. PICK w \in wals : w.data = staged
    BY <1>5 DEF Apply, Rewrite, LogPlace
  <2>2. wals = {w} /\ wals' = wals /\ f \in DOMAIN staged
    BY <1>5, <2>1 DEF Apply, Rewrite, LogShape, TypeOK
  <2>3. disk' = [disk EXCEPT ![f] = disk[f] \cup {w.who}]
    BY <1>5, <2>1, <2>2 DEF Apply, Rewrite, LogShape
  <2>4. \A g \in Files : Content(g) = disk[g] \cup (IF g \in DOMAIN staged THEN {w.who} ELSE {})
    BY <2>1, <2>2 DEF Content, Naming
  <2>5. \A g \in Files : Content(g)' = disk'[g] \cup (IF g \in DOMAIN staged THEN {w.who} ELSE {})
    BY <2>1, <2>2 DEF Content, Naming
  <2>6. f \in Files /\ \A g \in Files : disk'[g] = IF g = f THEN disk[g] \cup {w.who} ELSE disk[g]
    BY <1>5, <2>3 DEF TypeOK
  <2> QED BY <2>2, <2>4, <2>5, <2>6
<1>6. CASE Done \/ Retire
  <2>1. PICK w \in wals : w.data = staged /\ w.id = (IF Done THEN txid ELSE cursor)
    BY <1>6 DEF Done, Retire, LogPlace
  <2>2. wals = {w} /\ wals' = {} /\ disk' = disk
    BY <1>6, <2>1 DEF Done, Retire, LogShape
  <2>3. \A f \in DOMAIN staged : w.who \in disk[f]
    BY <1>6, <2>1 DEF Done, Retire, LogShape, StagedShape
  <2>4. \A f \in Files : Content(f)' = disk[f]
    BY <2>2 DEF Content, Naming
  <2>5. \A f \in Files : Content(f) = disk[f]
    BY <2>1, <2>2, <2>3 DEF Content, Naming
  <2> QED BY <2>4, <2>5
<1>7. ~(CommitFails \/ ApplyFails \/ DoneFails \/ RewriteFails \/ RetireFails)
  BY DEF CommitFails, ApplyFails, DoneFails, RewriteFails, RetireFails
<1>8. CASE UNCHANGED <<disk, wals>>
  BY <1>1, <1>8
<1>9. CASE \/ \E t \in Txs : Begin(t)
           \/ \E f \in Files : Stage(f) \/ Load(f)
           \/ Abort \/ EndEmpty \/ Restamp \/ Start \/ Settle \/ Recovered \/ Rewritten \/ Crash
           \/ \E w \in wals : Recover(w)
  BY <1>8, <1>9 DEF Begin, Stage, Load, Abort, EndEmpty, Restamp, Start, Settle, Recovered, Rewritten, Crash, Recover
<1>10. ASSUME NEW t \in Txs, NEW F \in (SUBSET Files) \ {{}}, F \subseteq Staging \/ \E f \in Files : F = {f},
              Lands(t, F), \A g \in Staging : t \notin Content(g)
       PROVE  \E u \in Txs, G \in (SUBSET Files) \ {{}} :
                /\ G \subseteq Staging \/ \E f \in Files : G = {f}
                /\ \A f \in Staging : u \notin Content(f)
                /\ \A f \in Files : Content(f)' = IF f \in G THEN Content(f) \cup {u} ELSE Content(f)
  BY <1>10
<1> HIDE DEF Lands
<1>11. CASE \E f \in Files : WriteThrough(f)
  <2>1. PICK f \in Files : WriteThrough(f)
    BY <1>11
  <2>2. who \in Txs /\ {f} \in (SUBSET Files) \ {{}}
    BY DEF TypeOK
  <2>3. Lands(who, {f}) /\ \A g \in Staging : who \notin Content(g)
    BY <1>2, <2>1
  <2> QED BY <1>10, <2>2, <2>3
<1>12. CASE \E t \in Txs, f \in Files : Save(t, f)
  <2>1. PICK t \in Txs, f \in Files : Save(t, f)
    BY <1>12
  <2> QED BY <1>3, <1>10, <2>1
<1>13. CASE Commit
  BY <1>4, <1>10, <1>13 DEF TypeOK
<1>14. CASE (\E f \in Files : Apply(f) \/ Rewrite(f)) \/ Done \/ Retire
  BY <1>5, <1>6, <1>14
<1> QED
  BY <1>7, <1>9, <1>11, <1>12, <1>13, <1>14 DEF Next, Transaction, Recovery

\* Of a disk that refuses nothing, the store with its log, its caches and its
\* restarts is the atomic store: a transaction lands whole or not at all, at
\* the rename of its log, and what landed stays.
THEOREM StoreIsAtomic == ASSUME Faults = {} PROVE Spec => ImplementsAtomicStore
<1> DEFINE store == [f \in Files |-> Logical(f)]
<1>1. Init => Promise!Init
  <2> SUFFICES ASSUME Init PROVE store = [f \in Files |-> {}]
    BY DEF Promise!Init
  <2>1. \A f \in Files : disk[f] = {} /\ Naming(f) = {}
    BY DEF Init, Naming
  <2> QED BY <2>1 DEF Logical
<1>2. ASSUME IInv, IInv', [Next]_vars PROVE [Promise!Next]_store
  <2>1. \A f \in Files : Logical(f) = Content(f) /\ Logical(f)' = Content(f)'
    BY <1>2, LogicalIsContent, LogicalIsContentNext
  <2>2. CASE UNCHANGED vars
    BY <2>2 DEF vars, Logical, Naming, Newest
  <2>3. CASE \A f \in Files : Content(f)' = Content(f)
    BY <2>1, <2>3
  <2>4. ASSUME NEW t \in Txs, NEW F \in (SUBSET Files) \ {{}},
               F \subseteq Staging \/ \E f \in Files : F = {f},
               \A f \in Staging : t \notin Content(f),
               \A f \in Files : Content(f)' = IF f \in F THEN Content(f) \cup {t} ELSE Content(f)
        PROVE  Promise!Next
    <3>1. t \notin Promise!Landed
      BY <2>1, <2>4 DEF Promise!Landed, Staging
    <3>2. store' = [f \in Files |-> IF f \in F THEN store[f] \cup {t} ELSE store[f]]
      BY <2>1, <2>4
    <3>3. Promise!Update(t, F)
      BY <3>1, <3>2 DEF Promise!Update
    <3> QED BY <2>4, <3>3 DEF Promise!Next, Staging
  <2> QED BY <1>2, <2>2, <2>3, <2>4, StepLands
<1> QED BY <1>1, <1>2, InductiveInvariant, PTL DEF Spec, ImplementsAtomicStore, Promise!Spec
=============================================================================
