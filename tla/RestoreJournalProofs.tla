------------------------ MODULE RestoreJournalProofs ------------------------
(***************************************************************************)
(* A restore is one step of the data folder, for any competitions,         *)
(* restores, requests and operators, however often the server stops and    *)
(* whichever writes fail, when the system refuses at most one rename of a  *)
(* running server. The argument: at most one journal on disk has a move    *)
(* left, and until it has been run to its end nobody else writes what it   *)
(* touches; so each of its moves can be made, and the folder it leads to   *)
(* is settled when it is written.                                          *)
(***************************************************************************)
EXTENDS RestoreJournal, FiniteSetTheorems, SequenceTheorems, TLAPS

Asking == {"staged", "locked", "settled", "copied", "noted"}    \* no journal yet
Holding == {"locked", "settled", "copied", "noted", "swap", "cleared"}
Stopped == {"idle", "done"}

Journaled(t) == dir[t] = "journaled"
StepDone(t, i) ==
  IF steps[t][i].kind = "out" THEN old[t][steps[t][i].path] # None
  ELSE new[t][steps[t][i].path] = None
Open(t) == Journaled(t) /\ \E i \in DOMAIN steps[t] : ~StepDone(t, i)

MovesOut(t, p) == \E i \in DOMAIN steps[t] : steps[t][i] = [kind |-> "out", path |-> p]
MovesIn(t, p) == \E i \in DOMAIN steps[t] : steps[t][i] = [kind |-> "in", path |-> p]

\* Where a restore's handler is, and what its folder is then.
StagedAt(t) ==
  /\ phase[t] = "idle" => /\ dir[t] = "none" /\ req[t] = None /\ t \notin committed
                          /\ \A p \in Paths : old[t][p] = None
  /\ phase[t] # "idle" => req[t] \in Requests
  /\ phase[t] \in Asking => /\ dir[t] = "staged" /\ t \notin committed
                            /\ \A p \in Paths : old[t][p] = None
                            /\ \A p \in req[t].puts : new[t][p] # None
  /\ phase[t] = "swap" => Journaled(t)
  /\ phase[t] = "cleared" => dir[t] = "staged"
  /\ Journaled(t) => phase[t] \in {"swap", "swapped", "resolving", "done"}
  /\ \A p \in Paths : new[t][p] # None => phase[t] # "idle" /\ p \in req[t].puts
Staged == \A t \in Tokens : StagedAt(t)

\* Who holds the locks, and what runs while the server does not serve.
Served ==
  /\ \A t \in Tokens : phase[t] \in Holding <=> holder = t
  /\ holder # None => server \in {"up", "recovering"}
  /\ server # "up" => \A t \in Tokens : phase[t] \in Stopped \cup {"swap", "cleared"}
  /\ server = "requeue" => \A t \in Tokens : dir[t] = "none"
  /\ server # "refused"

\* A journal moves out before it moves in, and what is left of it can be made.
OutsFirst(t) ==
  \A i, j \in DOMAIN steps[t] : steps[t][i].kind = "in" /\ steps[t][j].kind = "out" => j < i
MovableAt(t) ==
  /\ OutsFirst(t)
  /\ \A p \in Paths : MovesIn(t, p) <=> p \in req[t].puts
  /\ \A p \in Paths : MovesOut(t, p) => /\ p \in Touched(t)
                                        /\ old[t][p] # None \/ live[p] # None
  /\ \A p \in req[t].puts :
       new[t][p] # None /\ (~MovesOut(t, p) \/ old[t][p] # None) => live[p] = None
  /\ phase[t] = "swap" => \A i \in 1 .. at[t] - 1 : StepDone(t, i)
Movable == \A t \in Tokens : Journaled(t) => MovableAt(t)

\* One journal at most has a move left, nobody is served what it touches, and
\* no log is left to write it again.
OneOpen ==
  /\ \A t, u \in Tokens : Open(t) /\ Open(u) => t = u
  /\ \A t \in Tokens : Open(t) =>
       /\ holder = t \/ server \in {"down", "recovering"}
       /\ \A p \in Touched(t) \cap Comps : wal[p] = None
  /\ \A t \in Tokens : phase[t] \in {"settled", "copied", "noted"} =>
       \A p \in Touched(t) \cap Comps : wal[p] = None

\* The handler runs its journal once more after its first failure.
Retried == \A t \in Tokens : tries[t] = 2 => failures >= 1

MoveInv == TypeOK /\ Staged /\ Served /\ Movable /\ OneOpen /\ Retried

-----------------------------------------------------------------------------
\* What is archived running, or left to a log, is known to the files beside it.

IsArchive(content) == content # None /\ content.run = "archive"

\* One resolver at a time, and no restore while it works.
OneResolver ==
  /\ \A t, u \in Tokens : Resolving(t) /\ Resolving(u) => t = u
  /\ \A t \in Tokens : Resolving(t) => holder = None
  /\ \A t \in Tokens : todo[t] # NothingToDo => phase[t] = "resolving"
  /\ todo[Startup] # NothingToDo => server = "requeue"

Noted ==
  /\ \A p \in Comps : IsArchive(live[p]) => p \in pending
  /\ \A t \in Tokens, p \in Comps : IsArchive(new[t][p]) => p \in ArchiveRuns
  /\ \A t \in Tokens, p \in Comps :
       IsArchive(new[t][p]) /\ (Journaled(t) \/ phase[t] = "noted") => p \in pending
  /\ \A r \in Resolvers, p \in Comps : todo[r][p] = "reverted" => ~IsArchive(live[p])
  /\ \A r \in Resolvers, p \in Comps : todo[r][p] = "listed" => p \in pending
  /\ \A p \in Comps : wal[p] # None => live[p] = wal[p] /\ p \notin pending

\* What is staged bears the restore's name, and the password in force.
Signed ==
  \A t \in Tokens :
    /\ phase[t] \in Asking => \A p \in req[t].puts : new[t][p].by = t
    /\ phase[t] \in Asking \ {"staged"} /\ Settings \in req[t].puts =>
         live[Settings] # None /\ new[t][Settings].pw = live[Settings].pw

RestoreInv == MoveInv /\ OneResolver /\ Noted /\ Signed

-----------------------------------------------------------------------------
(***************************************************************************)
(* The journal a restore writes: every path it displaces is moved out,     *)
(* then every path it puts in place is moved in.                           *)
(***************************************************************************)

LEMMA SequenceOfASet ==
  ASSUME NEW S, IsFiniteSet(S)
  PROVE  /\ SetToSeq(S) \in Seq(S)
         /\ \A x \in S : \E i \in 1 .. Len(SetToSeq(S)) : SetToSeq(S)[i] = x
<1> DEFINE n == Cardinality(S)
<1>1. n \in Nat /\ ExistsBijection(1 .. n, S)
  BY FS_CardinalityType
<1>2. PICK g \in [1 .. n -> S] : IsInjective(g)
  <2>1. PICK g \in Bijection(1 .. n, S) : TRUE
    BY <1>1 DEF ExistsBijection
  <2>2. g \in [1 .. n -> S] /\ IsInjective(g)
    BY <2>1 DEF Bijection, Injection, IsInjective
  <2> QED
    BY <2>2
<1>3. SetToSeq(S) \in [1 .. n -> S] /\ IsInjective(SetToSeq(S))
  BY <1>2 DEF SetToSeq
<1>4. SetToSeq(S) \in Injection(1 .. n, S)
  BY <1>3 DEF Injection, IsInjective
<1>5. IsFiniteSet(1 .. n) /\ Cardinality(1 .. n) = n
  BY <1>1, FS_Interval
<1>6. SetToSeq(S) \in Surjection(1 .. n, S)
  BY <1>4, <1>5, FS_Injection
<1>7. SetToSeq(S) \in Seq(S) /\ Len(SetToSeq(S)) = n
  BY <1>1, <1>3
<1> QED
  BY <1>6, <1>7 DEF Surjection

LEMMA OrderedPaths ==
  ASSUME NEW S \in SUBSET Paths
  PROVE  /\ InOrder(S) \in Seq(Paths)
         /\ \A p : p \in S <=> \E i \in 1 .. Len(InOrder(S)) : InOrder(S)[i] = p
<1> DEFINE A == SetToSeq(S \cap Comps)
           B == IF Settings \in S THEN <<Settings>> ELSE <<>>
<1>1. IsFiniteSet(S \cap Comps)
  BY PathsAssumption, FS_Subset
<1>2. /\ A \in Seq(S \cap Comps)
      /\ \A x \in S \cap Comps : \E i \in 1 .. Len(A) : A[i] = x
  BY <1>1, SequenceOfASet
<1>3. A \in Seq(S) /\ B \in Seq(S)
  BY <1>2
<1>4. InOrder(S) = A \o B
  BY DEF InOrder
<1> HIDE DEF A, B
<1>5. /\ A \o B \in Seq(S) /\ Len(A \o B) = Len(A) + Len(B)
      /\ \A i \in 1 .. Len(A) + Len(B) : (A \o B)[i] = IF i <= Len(A) THEN A[i] ELSE B[i - Len(A)]
  BY <1>3, ConcatProperties
<1>6. ASSUME NEW p \in S PROVE \E i \in 1 .. Len(A) + Len(B) : (A \o B)[i] = p
  <2>1. CASE p \in Comps
    <3>1. PICK i \in 1 .. Len(A) : A[i] = p
      BY <1>2, <1>6, <2>1
    <3>2. Len(A) \in Nat /\ Len(B) \in Nat
      BY <1>3
    <3> QED
      BY <1>5, <3>1, <3>2
  <2>2. CASE p = Settings
    <3>1. B = <<p>>
      BY <2>2, <1>6 DEF B
    <3>2. Len(B) = 1 /\ B[1] = p /\ Len(A) \in Nat
      BY <3>1, <1>3
    <3>3. Len(A) + 1 \in 1 .. Len(A) + Len(B) /\ (A \o B)[Len(A) + 1] = p
      BY <1>5, <3>2
    <3> QED
      BY <3>3
  <2> QED
    BY <2>1, <2>2, <1>6 DEF Paths
<1>7. InOrder(S) \in Seq(S) /\ \A i \in 1 .. Len(InOrder(S)) : InOrder(S)[i] \in S
  BY <1>4, <1>5
<1>8. InOrder(S) \in Seq(Paths)
  BY <1>7
<1> QED
  BY <1>4, <1>5, <1>6, <1>7, <1>8

LEMMA MovesOfASet ==
  ASSUME NEW S \in SUBSET Paths, NEW kind \in {"out", "in"}
  PROVE  /\ StepsOf(kind, S) \in Seq(Step)
         /\ \A i \in 1 .. Len(StepsOf(kind, S)) : StepsOf(kind, S)[i].kind = kind
         /\ \A p : p \in S <=> \E i \in 1 .. Len(StepsOf(kind, S)) :
                                  StepsOf(kind, S)[i] = [kind |-> kind, path |-> p]
<1> DEFINE F == InOrder(S)
<1>1. /\ F \in Seq(Paths)
      /\ \A p : p \in S <=> \E i \in 1 .. Len(F) : F[i] = p
  BY OrderedPaths
<1>2. StepsOf(kind, S) = [i \in 1 .. Len(F) |-> [kind |-> kind, path |-> F[i]]]
  BY DEF StepsOf
<1> HIDE DEF F
<1>3. \A i \in 1 .. Len(F) : [kind |-> kind, path |-> F[i]] \in Step
  BY <1>1 DEF Step
<1> DEFINE J == StepsOf(kind, S)
<1>4. J \in Seq(Step) /\ Len(J) = Len(F) /\ Len(F) \in Nat
  BY <1>1, <1>2, <1>3
<1>5. \A i \in 1 .. Len(J) : J[i] = [kind |-> kind, path |-> F[i]]
  BY <1>2, <1>4
<1> HIDE DEF J
<1>6. ASSUME NEW i \in 1 .. Len(J) PROVE J[i].kind = kind /\ J[i].path = F[i]
  <2>1. J[i] = [kind |-> kind, path |-> F[i]]
    BY <1>5
  <2> QED
    BY <2>1
<1>7. ASSUME NEW p
      PROVE  (\E i \in 1 .. Len(F) : F[i] = p) <=>
               \E i \in 1 .. Len(J) : J[i] = [kind |-> kind, path |-> p]
  BY <1>4, <1>5, <1>6
<1> QED
  BY <1>1, <1>4, <1>6, <1>7 DEF J

\* What the three facts a proof needs of a journal say.
LEMMA JournalIs ==
  ASSUME NEW t \in Tokens, req[t] \in Request
  PROVE  /\ JournalFor(t) \in Seq(Step)
         /\ \A p : (\E i \in 1 .. Len(JournalFor(t)) :
                       JournalFor(t)[i] = [kind |-> "out", path |-> p]) <=> p \in Displaced(t)
         /\ \A p : (\E i \in 1 .. Len(JournalFor(t)) :
                       JournalFor(t)[i] = [kind |-> "in", path |-> p]) <=> p \in req[t].puts
         /\ \A i, j \in 1 .. Len(JournalFor(t)) :
              JournalFor(t)[i].kind = "in" /\ JournalFor(t)[j].kind = "out" => j < i
<1> DEFINE A == StepsOf("out", Displaced(t))
           B == StepsOf("in", req[t].puts)
<1>1. Displaced(t) \in SUBSET Paths /\ req[t].puts \in SUBSET Paths
  BY DEF Displaced, Touched, Request, Paths
<1>2. /\ A \in Seq(Step) /\ \A i \in 1 .. Len(A) : A[i].kind = "out"
      /\ \A p : p \in Displaced(t) <=> \E i \in 1 .. Len(A) : A[i] = [kind |-> "out", path |-> p]
  BY <1>1, MovesOfASet
<1>3. /\ B \in Seq(Step) /\ \A i \in 1 .. Len(B) : B[i].kind = "in"
      /\ \A p : p \in req[t].puts <=> \E i \in 1 .. Len(B) : B[i] = [kind |-> "in", path |-> p]
  BY <1>1, MovesOfASet
<1>4. JournalFor(t) = A \o B
  BY DEF JournalFor
<1> HIDE DEF A, B
<1>5. /\ A \o B \in Seq(Step) /\ Len(A \o B) = Len(A) + Len(B)
      /\ \A i \in 1 .. Len(A) + Len(B) : (A \o B)[i] = IF i <= Len(A) THEN A[i] ELSE B[i - Len(A)]
  BY <1>2, <1>3, ConcatProperties
<1>6. Len(A) \in Nat /\ Len(B) \in Nat
  BY <1>2, <1>3
<1>7. /\ \A i \in 1 .. Len(A) : i \in 1 .. Len(A) + Len(B) /\ (A \o B)[i] = A[i]
      /\ \A i \in 1 .. Len(B) : /\ Len(A) + i \in 1 .. Len(A) + Len(B)
                                /\ (A \o B)[Len(A) + i] = B[i]
      /\ \A i \in 1 .. Len(A) + Len(B) :
           i \in 1 .. Len(A) \/ (i - Len(A) \in 1 .. Len(B) /\ (A \o B)[i] = B[i - Len(A)])
  BY <1>5, <1>6
<1>8. \A i \in 1 .. Len(A) + Len(B) :
        /\ (A \o B)[i].kind = "out" => i \in 1 .. Len(A)
        /\ (A \o B)[i].kind = "in" => i - Len(A) \in 1 .. Len(B)
  BY <1>2, <1>3, <1>7
<1>9. ASSUME NEW p
      PROVE  (\E i \in 1 .. Len(A \o B) : (A \o B)[i] = [kind |-> "out", path |-> p])
               <=> p \in Displaced(t)
  <2> DEFINE move == [kind |-> "out", path |-> p]
  <2>1. move.kind = "out"
    OBVIOUS
  <2> HIDE DEF move
  <2>2. (\E i \in 1 .. Len(A \o B) : (A \o B)[i] = move) <=> \E i \in 1 .. Len(A) : A[i] = move
    BY <1>5, <1>7, <1>8, <2>1
  <2> QED
    BY <1>2, <2>2 DEF move
<1>11. ASSUME NEW p
       PROVE  (\E i \in 1 .. Len(A \o B) : (A \o B)[i] = [kind |-> "in", path |-> p])
                <=> p \in req[t].puts
  <2> DEFINE move == [kind |-> "in", path |-> p]
  <2>1. move.kind = "in"
    OBVIOUS
  <2> HIDE DEF move
  <2>2. ASSUME NEW i \in 1 .. Len(B), B[i] = move
        PROVE  \E k \in 1 .. Len(A \o B) : (A \o B)[k] = move
    BY <1>5, <1>7, <2>2
  <2>3. ASSUME NEW i \in 1 .. Len(A \o B), (A \o B)[i] = move
        PROVE  \E k \in 1 .. Len(B) : B[k] = move
    <3>1. i - Len(A) \in 1 .. Len(B)
      BY <1>5, <1>8, <2>1, <2>3
    <3>2. ~(i <= Len(A))
      BY <1>6, <3>1
    <3>3. (A \o B)[i] = B[i - Len(A)]
      BY <1>5, <3>2, <2>3
    <3> QED
      BY <2>3, <3>1, <3>3
  <2> QED
    BY <1>3, <2>2, <2>3 DEF move
<1>10. ASSUME NEW i \in 1 .. Len(A \o B), NEW j \in 1 .. Len(A \o B),
              (A \o B)[i].kind = "in", (A \o B)[j].kind = "out"
       PROVE  j < i
  BY <1>5, <1>6, <1>8, <1>10
<1> QED
  BY <1>4, <1>5, <1>9, <1>10, <1>11

-----------------------------------------------------------------------------
\* Who writes each variable.

LEMMA LiveWriters ==
  ASSUME Next
  PROVE  \/ live' = live
         \/ \E p \in Comps, run \in {"no", "archive", "operator"} : Write(p, run)
         \/ \E p \in Comps : Create(p) \/ Delete(p)
         \/ \E pw \in Passwords : SaveSettings(pw)
         \/ \E t \in Tokens : Settle(t) \/ MoveOut(t) \/ MoveIn(t)
         \/ \E r \in Resolvers, p \in Comps : Revert(r, p)
         \/ Start
BY DEF Next, Operators, Handler, Journal, Requeue, Starting, Stage, Lock, Refuse,
     SaveCopy, WriteRequeuePending, WriteJournal, List, WriteFails, StepFails,
     RemoveJournal, RemoveToken, FinishFails, RemoveStaging, RollForward, RequeueDone,
     RevertFails, RemoveRequeuePending, Recovered, Crash, Operation, GivesUp, Advance,
     NextStep, Resolved, disk, staging, ghosts

LEMMA WalWriters ==
  ASSUME Next
  PROVE  \/ wal' = wal
         \/ \E p \in Comps, run \in {"no", "archive", "operator"} : Write(p, run)
         \/ \E t \in Tokens : Settle(t)
         \/ Start
BY DEF Next, Operators, Handler, Journal, Requeue, Starting, Create, Delete, SaveSettings,
     Stage, Lock, Refuse, SaveCopy, WriteRequeuePending, WriteJournal, List, WriteFails,
     MoveOut, MoveIn, StepFails, RemoveJournal, RemoveToken, FinishFails, RemoveStaging,
     RollForward, RequeueDone, RevertFails, Revert, RemoveRequeuePending, Recovered,
     Crash, Operation, GivesUp, Advance, NextStep, Resolved, disk, staging, ghosts

LEMMA DirWriters ==
  ASSUME Next
  PROVE  \/ dir' = dir
         \/ \E t \in Tokens, r \in Requests : Stage(t, r)
         \/ \E t \in Tokens :
              \/ Refuse(t) \/ WriteJournal(t) \/ WriteFails(t) \/ RemoveJournal(t)
              \/ RemoveToken(t) \/ RemoveStaging(t)
BY DEF Next, Operators, Handler, Journal, Requeue, Starting, Write, Create, Delete,
     SaveSettings, Lock, Settle, SaveCopy, WriteRequeuePending, List, MoveOut, MoveIn,
     StepFails, FinishFails, RollForward, RequeueDone, RevertFails, Revert,
     RemoveRequeuePending, Start, Recovered, Crash, Operation, GivesUp, Advance,
     NextStep, Resolved, disk, staging, ghosts

LEMMA NewWriters ==
  ASSUME Next
  PROVE  \/ new' = new
         \/ \E t \in Tokens, r \in Requests : Stage(t, r)
         \/ \E t \in Tokens :
              \/ Lock(t) \/ Refuse(t) \/ WriteFails(t) \/ MoveIn(t) \/ RemoveToken(t)
              \/ RemoveStaging(t)
BY DEF Next, Operators, Handler, Journal, Requeue, Starting, Write, Create, Delete,
     SaveSettings, Settle, SaveCopy, WriteRequeuePending, WriteJournal, List, MoveOut,
     StepFails, RemoveJournal, FinishFails, RollForward, RequeueDone, RevertFails,
     Revert, RemoveRequeuePending, Start, Recovered, Crash, Operation, GivesUp, Advance,
     NextStep, Resolved, disk, staging, ghosts

LEMMA OldWriters ==
  ASSUME Next
  PROVE  \/ old' = old
         \/ \E t \in Tokens : MoveOut(t) \/ RemoveToken(t) \/ RemoveStaging(t)
BY DEF Next, Operators, Handler, Journal, Requeue, Starting, Write, Create, Delete,
     SaveSettings, Stage, Lock, Refuse, Settle, SaveCopy, WriteRequeuePending,
     WriteJournal, List, WriteFails, MoveIn, StepFails, RemoveJournal, FinishFails,
     RollForward, RequeueDone, RevertFails, Revert, RemoveRequeuePending, Start,
     Recovered, Crash, Operation, GivesUp, Advance, NextStep, Resolved, disk, staging,
     ghosts

LEMMA StepsWriters ==
  ASSUME Next
  PROVE  \/ steps' = steps
         \/ \E t \in Tokens : WriteJournal(t) \/ RemoveJournal(t)
BY DEF Next, Operators, Handler, Journal, Requeue, Starting, Write, Create, Delete,
     SaveSettings, Stage, Lock, Refuse, Settle, SaveCopy, WriteRequeuePending, List,
     WriteFails, MoveOut, MoveIn, StepFails, RemoveToken, FinishFails, RemoveStaging,
     RollForward, RequeueDone, RevertFails, Revert, RemoveRequeuePending, Start,
     Recovered, Crash, Operation, GivesUp, Advance, NextStep, Resolved, disk, staging,
     ghosts

LEMMA CopiesWriters ==
  ASSUME Next
  PROVE  \/ copies' = copies
         \/ \E t \in Tokens : SaveCopy(t)
BY DEF Next, Operators, Handler, Journal, Requeue, Starting, Write, Create, Delete,
     SaveSettings, Stage, Lock, Refuse, Settle, WriteRequeuePending, WriteJournal, List,
     WriteFails, MoveOut, MoveIn, StepFails, RemoveJournal, RemoveToken, FinishFails,
     RemoveStaging, RollForward, RequeueDone, RevertFails, Revert, RemoveRequeuePending,
     Start, Recovered, Crash, Operation, GivesUp, Advance, NextStep, Resolved, disk,
     staging, ghosts

LEMMA PendingWriters ==
  ASSUME Next
  PROVE  \/ pending' = pending
         \/ \E t \in Tokens : WriteRequeuePending(t)
         \/ \E r \in Resolvers, p \in Comps : RemoveRequeuePending(r, p)
BY DEF Next, Operators, Handler, Journal, Requeue, Starting, Write, Create, Delete,
     SaveSettings, Stage, Lock, Refuse, Settle, SaveCopy, WriteJournal, List,
     WriteFails, MoveOut, MoveIn, StepFails, RemoveJournal, RemoveToken, FinishFails,
     RemoveStaging, RollForward, RequeueDone, RevertFails, Revert, Start, Recovered,
     Crash, Operation, GivesUp, Advance, NextStep, Resolved, disk, staging, ghosts

LEMMA ServerWriters ==
  ASSUME Next
  PROVE  \/ server' = server
         \/ \E t \in Tokens : StepFails(t)
         \/ \E r \in Resolvers : RequeueDone(r) \/ RevertFails(r)
         \/ Start \/ Recovered \/ Crash
BY DEF Next, Operators, Handler, Journal, Requeue, Starting, Write, Create, Delete,
     SaveSettings, Stage, Lock, Refuse, Settle, SaveCopy, WriteRequeuePending,
     WriteJournal, List, WriteFails, MoveOut, MoveIn, RemoveJournal, RemoveToken,
     FinishFails, RemoveStaging, RollForward, Revert, RemoveRequeuePending, Operation,
     GivesUp, Advance, NextStep, Resolved, disk, staging, ghosts

LEMMA HolderWriters ==
  ASSUME Next
  PROVE  \/ holder' = holder
         \/ \E t \in Tokens :
              \/ Lock(t) \/ Refuse(t) \/ WriteFails(t) \/ StepFails(t) \/ RemoveToken(t)
              \/ FinishFails(t) \/ RollForward(t)
         \/ Crash
BY DEF Next, Operators, Handler, Journal, Requeue, Starting, Write, Create, Delete,
     SaveSettings, Stage, Settle, SaveCopy, WriteRequeuePending, WriteJournal, List,
     MoveOut, MoveIn, RemoveJournal, RemoveStaging, RequeueDone, RevertFails, Revert,
     RemoveRequeuePending, Start, Recovered, Operation, GivesUp, Advance, NextStep,
     Resolved, disk, staging, ghosts

LEMMA PhaseWriters ==
  ASSUME Next
  PROVE  \/ phase' = phase
         \/ \E t \in Tokens, r \in Requests : Stage(t, r)
         \/ \E t \in Tokens :
              \/ Lock(t) \/ Refuse(t) \/ Settle(t) \/ SaveCopy(t) \/ WriteRequeuePending(t)
              \/ WriteJournal(t) \/ List(t) \/ WriteFails(t) \/ StepFails(t) \/ RemoveJournal(t)
              \/ RemoveToken(t) \/ FinishFails(t) \/ RollForward(t)
         \/ \E r \in Resolvers : RequeueDone(r) \/ RevertFails(r)
         \/ Crash
BY DEF Next, Operators, Handler, Journal, Requeue, Starting, Write, Create, Delete,
     SaveSettings, MoveOut, MoveIn, RemoveStaging, Revert, RemoveRequeuePending, Start,
     Recovered, Operation, GivesUp, Advance, NextStep, Resolved, disk, staging, ghosts

LEMMA ReqWriters ==
  ASSUME Next
  PROVE  \/ req' = req
         \/ \E t \in Tokens, r \in Requests : Stage(t, r)
BY DEF Next, Operators, Handler, Journal, Requeue, Starting, Write, Create, Delete,
     SaveSettings, Lock, Refuse, Settle, SaveCopy, WriteRequeuePending, WriteJournal,
     List, WriteFails, MoveOut, MoveIn, StepFails, RemoveJournal, RemoveToken,
     FinishFails, RemoveStaging, RollForward, RequeueDone, RevertFails, Revert,
     RemoveRequeuePending, Start, Recovered, Crash, Operation, GivesUp, Advance,
     NextStep, Resolved, disk, staging, ghosts

LEMMA IdsWriters ==
  ASSUME Next
  PROVE  \/ ids' = ids
         \/ \E t \in Tokens, r \in Requests : Stage(t, r)
         \/ \E t \in Tokens : Lock(t) \/ Refuse(t) \/ WriteFails(t)
         \/ Crash
BY DEF Next, Operators, Handler, Journal, Requeue, Starting, Write, Create, Delete,
     SaveSettings, Settle, SaveCopy, WriteRequeuePending, WriteJournal, List, MoveOut,
     MoveIn, StepFails, RemoveJournal, RemoveToken, FinishFails, RemoveStaging,
     RollForward, RequeueDone, RevertFails, Revert, RemoveRequeuePending, Start,
     Recovered, Operation, GivesUp, Advance, NextStep, Resolved, disk, staging, ghosts

LEMMA AtWriters ==
  ASSUME Next
  PROVE  \/ at' = at
         \/ \E t \in Tokens :
              \/ WriteJournal(t) \/ MoveOut(t) \/ MoveIn(t) \/ StepFails(t) \/ RemoveJournal(t)
              \/ FinishFails(t) \/ RollForward(t)
         \/ Crash
BY DEF Next, Operators, Handler, Journal, Requeue, Starting, Write, Create, Delete,
     SaveSettings, Stage, Lock, Refuse, Settle, SaveCopy, WriteRequeuePending, List,
     WriteFails, RemoveToken, RemoveStaging, RequeueDone, RevertFails, Revert,
     RemoveRequeuePending, Start, Recovered, Operation, GivesUp, Advance, NextStep,
     Resolved, disk, staging, ghosts

LEMMA TriesWriters ==
  ASSUME Next
  PROVE  \/ tries' = tries
         \/ \E t \in Tokens :
              \/ WriteJournal(t) \/ StepFails(t) \/ RemoveJournal(t) \/ FinishFails(t)
         \/ Crash
BY DEF Next, Operators, Handler, Journal, Requeue, Starting, Write, Create, Delete,
     SaveSettings, Stage, Lock, Refuse, Settle, SaveCopy, WriteRequeuePending, List,
     WriteFails, MoveOut, MoveIn, RemoveToken, RemoveStaging, RollForward, RequeueDone,
     RevertFails, Revert, RemoveRequeuePending, Start, Recovered, Operation, GivesUp,
     Advance, NextStep, Resolved, disk, staging, ghosts

LEMMA TodoWriters ==
  ASSUME Next
  PROVE  \/ todo' = todo
         \/ \E t \in Tokens : List(t)
         \/ \E r \in Resolvers : RevertFails(r)
         \/ \E r \in Resolvers, p \in Comps : Revert(r, p) \/ RemoveRequeuePending(r, p)
         \/ Recovered \/ Crash
BY DEF Next, Operators, Handler, Journal, Requeue, Starting, Write, Create, Delete,
     SaveSettings, Stage, Lock, Refuse, Settle, SaveCopy, WriteRequeuePending,
     WriteJournal, WriteFails, MoveOut, MoveIn, StepFails, RemoveJournal, RemoveToken,
     FinishFails, RemoveStaging, RollForward, RequeueDone, Start, Operation, GivesUp,
     Advance, NextStep, Resolved, disk, staging, ghosts

LEMMA EditsWriters ==
  ASSUME Next
  PROVE  \/ edits' = edits
         \/ \E p \in Comps, run \in {"no", "archive", "operator"} : Write(p, run)
         \/ \E p \in Comps : Create(p) \/ Delete(p)
         \/ \E pw \in Passwords : SaveSettings(pw)
BY DEF Next, Operators, Handler, Journal, Requeue, Starting, Stage, Lock, Refuse, Settle,
     SaveCopy, WriteRequeuePending, WriteJournal, List, WriteFails, MoveOut, MoveIn,
     StepFails, RemoveJournal, RemoveToken, FinishFails, RemoveStaging, RollForward,
     RequeueDone, RevertFails, Revert, RemoveRequeuePending, Start, Recovered, Crash,
     Operation, GivesUp, Advance, NextStep, Resolved, disk, staging, ghosts

LEMMA CommittedWriters ==
  ASSUME Next
  PROVE  \/ committed' = committed
         \/ \E t \in Tokens : WriteJournal(t)
BY DEF Next, Operators, Handler, Journal, Requeue, Starting, Write, Create, Delete,
     SaveSettings, Stage, Lock, Refuse, Settle, SaveCopy, WriteRequeuePending, List,
     WriteFails, MoveOut, MoveIn, StepFails, RemoveJournal, RemoveToken, FinishFails,
     RemoveStaging, RollForward, RequeueDone, RevertFails, Revert, RemoveRequeuePending,
     Start, Recovered, Crash, Operation, GivesUp, Advance, NextStep, Resolved, disk,
     staging, ghosts

LEMMA FailuresWriters ==
  ASSUME Next
  PROVE  \/ failures' = failures
         \/ \E t \in Tokens : StepFails(t)
BY DEF Next, Operators, Handler, Journal, Requeue, Starting, Write, Create, Delete,
     SaveSettings, Stage, Lock, Refuse, Settle, SaveCopy, WriteRequeuePending,
     WriteJournal, List, WriteFails, MoveOut, MoveIn, RemoveJournal, RemoveToken,
     FinishFails, RemoveStaging, RollForward, RequeueDone, RevertFails, Revert,
     RemoveRequeuePending, Start, Recovered, Crash, Operation, GivesUp, Advance,
     NextStep, Resolved, disk, staging, ghosts

LEMMA CrashesWriters ==
  ASSUME Next
  PROVE  \/ crashes' = crashes
         \/ Crash
BY DEF Next, Operators, Handler, Journal, Requeue, Starting, Write, Create, Delete,
     SaveSettings, Stage, Lock, Refuse, Settle, SaveCopy, WriteRequeuePending,
     WriteJournal, List, WriteFails, MoveOut, MoveIn, StepFails, RemoveJournal,
     RemoveToken, FinishFails, RemoveStaging, RollForward, RequeueDone, RevertFails,
     Revert, RemoveRequeuePending, Start, Recovered, Operation, GivesUp, Advance,
     NextStep, Resolved, disk, staging, ghosts


-----------------------------------------------------------------------------
(***************************************************************************)
(* Types.                                                                  *)
(***************************************************************************)

Content(p) == (IF p = Settings THEN Setting ELSE Comp) \cup {None}

LEMMA FolderHolds ==
  ASSUME NEW f
  PROVE  f \in Folders <=> /\ f \in [Paths -> Comp \cup Setting \cup {None}]
                           /\ \A p \in Paths : f[p] \in Content(p)
BY PathsAssumption DEF Folders, Content, Paths

LEMMA FolderPut ==
  ASSUME NEW f \in Folders, NEW p \in Paths, NEW c \in Content(p)
  PROVE  [f EXCEPT ![p] = c] \in Folders
<1>1. f \in [Paths -> Comp \cup Setting \cup {None}] /\ \A q \in Paths : f[q] \in Content(q)
  BY FolderHolds
<1>2. c \in Comp \cup Setting \cup {None}
  BY DEF Content
<1> DEFINE g == [f EXCEPT ![p] = c]
<1>3. g \in [Paths -> Comp \cup Setting \cup {None}]
  BY <1>1, <1>2
<1>4. \A q \in Paths : g[q] \in Content(q)
  BY <1>1
<1> QED
  BY <1>3, <1>4, FolderHolds

LEMMA EmptyFolder == Nothing \in Folders /\ \A p \in Paths : Nothing[p] = None
BY FolderHolds DEF Nothing, Content

LEMMA ContentIsSomething ==
  ASSUME NEW p \in Paths, NEW c \in Comp \cup Setting
  PROVE  c # None
BY NoneAssumption

LEMMA ArchivedContent ==
  ASSUME TypeOK, NEW t \in Tokens, NEW p \in Paths, p = Settings => live[Settings] # None
  PROVE  /\ Archived(t, p) \in Content(p) /\ Archived(t, p) # None
         /\ Archived(t, p).by = t
         /\ p # Settings => (Archived(t, p).run = "archive" => p \in ArchiveRuns)
         /\ p = Settings => Archived(t, p).pw = live[Settings].pw
<1>1. live[Settings] \in Content(Settings)
  BY FolderHolds DEF TypeOK, Paths
<1>2. CASE p = Settings
  <2>1. live[Settings] \in Setting
    BY <1>1, <1>2 DEF Content
  <2>2. Archived(t, p) = [by |-> t, pw |-> live[Settings].pw]
    BY <1>2 DEF Archived
  <2>3. Archived(t, p) \in Setting
    BY <2>1, <2>2 DEF Setting
  <2> QED
    BY <1>2, <2>2, <2>3, ContentIsSomething DEF Content
<1>3. CASE p # Settings
  <2>1. Archived(t, p) = [by |-> t, run |-> IF p \in ArchiveRuns THEN "archive" ELSE "no"]
    BY <1>3 DEF Archived
  <2>2. Archived(t, p) \in Comp
    BY <2>1 DEF Comp
  <2> QED
    BY <1>3, <2>1, <2>2, ContentIsSomething DEF Content
<1> QED
  BY <1>2, <1>3

LEMMA StepIs ==
  ASSUME TypeOK, NEW t \in Tokens, at[t] <= Len(steps[t])
  PROVE  /\ at[t] \in DOMAIN steps[t] /\ steps[t][at[t]] \in Step /\ StepPath(t) \in Paths
         /\ steps[t][at[t]] = [kind |-> steps[t][at[t]].kind, path |-> StepPath(t)]
<1>1. steps[t] \in Seq(Step) /\ at[t] \in Nat \ {0}
  BY DEF TypeOK
<1>2. at[t] \in 1 .. Len(steps[t])
  BY <1>1
<1>3. steps[t][at[t]] \in Step
  BY <1>1, <1>2
<1> QED
  BY <1>1, <1>2, <1>3 DEF Step, StepPath

LEMMA TypesOf ==
  ASSUME TypeOK
  PROVE  /\ live \in Folders /\ new \in [Tokens -> Folders] /\ old \in [Tokens -> Folders]
         /\ wal \in [Comps -> Comp \cup {None}]
         /\ edits \in 0 .. MaxEdits /\ MaxEdits \in Nat
         /\ req \in [Tokens -> Request \cup {None}]
BY BoundsAssumption DEF TypeOK

LEMMA LiveType ==
  ASSUME TypeOK, Next
  PROVE  live' \in Folders
<1>1. ASSUME NEW p \in Comps, NEW run \in {"no", "archive", "operator"}, Write(p, run)
      PROVE  live' \in Folders
  <2>1. live' = [live EXCEPT ![p] = [by |-> edits + 1, run |-> run]] /\ edits < MaxEdits
    BY <1>1 DEF Write, Operation
  <2>2. [by |-> edits + 1, run |-> run] \in Comp
    BY <2>1, TypesOf DEF Comp
  <2> QED
    BY <2>1, <2>2, TypesOf, FolderPut, PathsAssumption DEF Content, Paths
<1>2. ASSUME NEW p \in Comps, Create(p)
      PROVE  live' \in Folders
  <2>1. live' = [live EXCEPT ![p] = [by |-> edits + 1, run |-> "no"]] /\ edits < MaxEdits
    BY <1>2 DEF Create, Operation
  <2>2. [by |-> edits + 1, run |-> "no"] \in Comp
    BY <2>1, TypesOf DEF Comp
  <2> QED
    BY <2>1, <2>2, TypesOf, FolderPut, PathsAssumption DEF Content, Paths
<1>3. ASSUME NEW p \in Comps, Delete(p)
      PROVE  live' \in Folders
  <2>1. live' = [live EXCEPT ![p] = None]
    BY <1>3 DEF Delete, Operation
  <2> QED
    BY <2>1, TypesOf, FolderPut DEF Content, Paths
<1>4. ASSUME NEW pw \in Passwords, SaveSettings(pw)
      PROVE  live' \in Folders
  <2>1. live' = [live EXCEPT ![Settings] = [by |-> edits + 1, pw |-> pw]] /\ edits < MaxEdits
    BY <1>4 DEF SaveSettings, Operation
  <2>2. [by |-> edits + 1, pw |-> pw] \in Setting
    BY <2>1, TypesOf DEF Setting
  <2> QED
    BY <2>1, <2>2, TypesOf, FolderPut DEF Content, Paths
<1>5. ASSUME NEW S \in SUBSET Comps, live' = [p \in Paths |-> IF p \in S THEN wal[p] ELSE live[p]]
      PROVE  live' \in Folders
  <2>1. \A p \in Paths : live[p] \in Content(p)
    BY TypesOf, FolderHolds
  <2>2. \A p \in S : wal[p] \in Content(p)
    BY TypesOf, PathsAssumption DEF Content
  <2>3. \A p \in Paths : live'[p] \in Content(p)
    BY <1>5, <2>1, <2>2
  <2>4. live' \in [Paths -> Comp \cup Setting \cup {None}]
    BY <1>5, <2>1, <2>2 DEF Content
  <2> QED
    BY <2>3, <2>4, FolderHolds
<1>6. ASSUME NEW t \in Tokens, Settle(t)
      PROVE  live' \in Folders
  <2> DEFINE S == {p \in Touched(t) \cap Comps : wal[p] # None}
  <2>1. live' = [p \in Paths |-> IF p \in S THEN wal[p] ELSE live[p]]
    BY <1>6 DEF Settle
  <2> HIDE DEF S
  <2>2. S \in SUBSET Comps
    BY DEF S
  <2> QED
    BY <1>5, <2>1, <2>2
<1>7. CASE Start
  <2> DEFINE S == {p \in Comps : wal[p] # None /\ live[p] # None}
  <2>1. live' = [p \in Paths |-> IF p \in S THEN wal[p] ELSE live[p]]
    BY <1>7 DEF Start
  <2> HIDE DEF S
  <2>2. S \in SUBSET Comps
    BY DEF S
  <2> QED
    BY <1>5, <2>1, <2>2
<1>8. ASSUME NEW t \in Tokens, MoveOut(t)
      PROVE  live' \in Folders
  <2>1. at[t] <= Len(steps[t]) /\ (live' = live \/ live' = [live EXCEPT ![StepPath(t)] = None])
    BY <1>8 DEF MoveOut, AtStep
  <2>2. StepPath(t) \in Paths
    BY <2>1, StepIs
  <2> QED
    BY <2>1, <2>2, TypesOf, FolderPut DEF Content
<1>9. ASSUME NEW t \in Tokens, MoveIn(t)
      PROVE  live' \in Folders
  <2>1. /\ at[t] <= Len(steps[t])
        /\ live' = live \/ live' = [live EXCEPT ![StepPath(t)] = new[t][StepPath(t)]]
    BY <1>9 DEF MoveIn, AtStep
  <2>2. StepPath(t) \in Paths
    BY <2>1, StepIs
  <2>3. new[t][StepPath(t)] \in Content(StepPath(t))
    BY <2>2, TypesOf, FolderHolds
  <2> QED
    BY <2>1, <2>2, <2>3, TypesOf, FolderPut
<1>10. ASSUME NEW r \in Resolvers, NEW p \in Comps, Revert(r, p)
       PROVE  live' \in Folders
  <2>1. live' = live \/ (live[p] # None /\ live' = [live EXCEPT ![p].run = "no"])
    BY <1>10 DEF Revert, Running
  <2>2. CASE live[p] # None /\ live' = [live EXCEPT ![p].run = "no"]
    <3>1. p \in Paths /\ p # Settings
      BY PathsAssumption DEF Paths
    <3>2. live[p] \in Comp
      BY <2>2, <3>1, TypesOf, FolderHolds DEF Content
    <3> DEFINE c == [live[p] EXCEPT !.run = "no"]
    <3>3. c \in Content(p)
      BY <3>1, <3>2 DEF Comp, Content
    <3>4. live' = [live EXCEPT ![p] = c]
      BY <2>2
    <3> HIDE DEF c
    <3> QED
      BY <3>1, <3>3, <3>4, TypesOf, FolderPut
  <2> QED
    BY <2>1, <2>2, TypesOf
<1> QED
  BY <1>1, <1>2, <1>3, <1>4, <1>6, <1>7, <1>8, <1>9, <1>10, LiveWriters, TypesOf

LEMMA WalType ==
  ASSUME TypeOK, Next
  PROVE  wal' \in [Comps -> Comp \cup {None}]
<1>1. ASSUME NEW p \in Comps, NEW run \in {"no", "archive", "operator"}, Write(p, run)
      PROVE  wal' \in [Comps -> Comp \cup {None}]
  <2>1. wal' = wal \/ wal' = [wal EXCEPT ![p] = live'[p]]
    BY <1>1 DEF Write
  <2>2. live'[p] \in Comp \cup {None}
    BY LiveType, FolderHolds, PathsAssumption DEF Content, Paths
  <2> QED
    BY <2>1, <2>2, TypesOf
<1>2. ASSUME NEW t \in Tokens, Settle(t)
      PROVE  wal' \in [Comps -> Comp \cup {None}]
  BY <1>2, TypesOf DEF Settle
<1>3. CASE Start
  BY <1>3, TypesOf DEF Start
<1> QED
  BY <1>1, <1>2, <1>3, WalWriters, TypesOf

LEMMA NewType ==
  ASSUME TypeOK, Next
  PROVE  new' \in [Tokens -> Folders]
<1>1. ASSUME NEW t \in Tokens, NEW r \in Requests, Stage(t, r)
      PROVE  new' \in [Tokens -> Folders]
  <2> DEFINE F == [p \in Paths |-> IF p \in r.puts THEN Archived(t, p) ELSE None]
  <2>1. new' = [new EXCEPT ![t] = F] /\ (Settings \in r.puts => live[Settings] # None)
    BY <1>1 DEF Stage, Allowed
  <2>2. \A p \in Paths : F[p] \in Content(p)
    BY <2>1, ArchivedContent DEF Content
  <2>3. F \in [Paths -> Comp \cup Setting \cup {None}]
    BY <2>2 DEF Content
  <2>4. F \in Folders
    BY <2>2, <2>3, FolderHolds
  <2> HIDE DEF F
  <2> QED
    BY <2>1, <2>4, TypesOf
<1>2. ASSUME NEW t \in Tokens, Refuse(t) \/ WriteFails(t) \/ RemoveToken(t) \/ RemoveStaging(t)
      PROVE  new' \in [Tokens -> Folders]
  BY <1>2, TypesOf, EmptyFolder DEF Refuse, WriteFails, GivesUp, RemoveToken, RemoveStaging
<1>3. ASSUME NEW t \in Tokens, Lock(t)
      PROVE  new' \in [Tokens -> Folders]
  <2> DEFINE c == IF Settings \in req[t].puts THEN Archived(t, Settings) ELSE None
             F == [new[t] EXCEPT ![Settings] = c]
  <2>1. new' = [new EXCEPT ![t] = F] /\ (Settings \in req[t].puts => live[Settings] # None)
    BY <1>3 DEF Lock, StillPlanned, Allowed
  <2>2. Settings \in Paths /\ c \in Content(Settings)
    BY <2>1, ArchivedContent DEF Content, Paths
  <2> HIDE DEF c
  <2>3. F \in Folders
    BY <2>2, TypesOf, FolderPut
  <2> HIDE DEF F
  <2> QED
    BY <2>1, <2>3, TypesOf
<1>4. ASSUME NEW t \in Tokens, MoveIn(t)
      PROVE  new' \in [Tokens -> Folders]
  <2> DEFINE F == [new[t] EXCEPT ![StepPath(t)] = None]
  <2>1. at[t] <= Len(steps[t]) /\ (new' = new \/ new' = [new EXCEPT ![t] = F])
    BY <1>4 DEF MoveIn, AtStep
  <2>2. StepPath(t) \in Paths
    BY <2>1, StepIs
  <2>3. F \in Folders
    BY <2>2, TypesOf, FolderPut DEF Content
  <2> HIDE DEF F
  <2> QED
    BY <2>1, <2>3, TypesOf
<1> QED
  BY <1>1, <1>2, <1>3, <1>4, NewWriters, TypesOf

LEMMA OldType ==
  ASSUME TypeOK, Next
  PROVE  old' \in [Tokens -> Folders]
<1>1. ASSUME NEW t \in Tokens, MoveOut(t)
      PROVE  old' \in [Tokens -> Folders]
  <2> DEFINE F == [old[t] EXCEPT ![StepPath(t)] = live[StepPath(t)]]
  <2>1. at[t] <= Len(steps[t]) /\ (old' = old \/ old' = [old EXCEPT ![t] = F])
    BY <1>1 DEF MoveOut, AtStep
  <2>2. StepPath(t) \in Paths
    BY <2>1, StepIs
  <2>3. F \in Folders
    BY <2>2, TypesOf, FolderPut, FolderHolds
  <2> HIDE DEF F
  <2> QED
    BY <2>1, <2>3, TypesOf
<1>2. ASSUME NEW t \in Tokens, RemoveToken(t) \/ RemoveStaging(t)
      PROVE  old' \in [Tokens -> Folders]
  BY <1>2, TypesOf, EmptyFolder DEF RemoveToken, RemoveStaging
<1> QED
  BY <1>1, <1>2, OldWriters, TypesOf

\* A request is a set of paths to put in place and one of those to remove.
LEMMA RequestIs ==
  ASSUME Staged, NEW t \in Tokens, phase[t] # "idle"
  PROVE  /\ req[t] \in Requests /\ req[t] \in Request
         /\ req[t].puts \subseteq Paths /\ req[t].removes \subseteq Comps
         /\ req[t].puts \cap req[t].removes = {}
         /\ Touched(t) \subseteq Paths /\ Settings \notin req[t].removes
BY RequestsAssumption, PathsAssumption DEF Staged, StagedAt, Request, Touched, Paths

LEMMA JournalType ==
  ASSUME MoveInv, Next
  PROVE  /\ steps' \in [Tokens -> Seq(Step)] /\ at' \in [Tokens -> Nat \ {0}]
         /\ \A t \in Tokens : at'[t] <= Len(steps'[t]) + 1
<1>0. /\ TypeOK /\ Staged
      /\ steps \in [Tokens -> Seq(Step)] /\ at \in [Tokens -> Nat \ {0}]
      /\ \A t \in Tokens : at[t] <= Len(steps[t]) + 1
  BY DEF MoveInv, TypeOK
<1>1. ASSUME NEW t \in Tokens, WriteJournal(t)
      PROVE  /\ steps' = [steps EXCEPT ![t] = JournalFor(t)] /\ at' = [at EXCEPT ![t] = 1]
             /\ JournalFor(t) \in Seq(Step)
  <2>1. phase[t] = "noted"
    BY <1>1 DEF WriteJournal, Advance
  <2>2. JournalFor(t) \in Seq(Step)
    BY <1>0, <2>1, RequestIs, JournalIs
  <2> QED
    BY <1>1, <2>2 DEF WriteJournal
<1>2. ASSUME NEW t \in Tokens, RemoveJournal(t)
      PROVE  steps' = [steps EXCEPT ![t] = <<>>] /\ at' = [at EXCEPT ![t] = 1]
  BY <1>2 DEF RemoveJournal
<1>3. ASSUME NEW t \in Tokens, MoveOut(t) \/ MoveIn(t)
      PROVE  steps' = steps /\ at' = [at EXCEPT ![t] = at[t] + 1] /\ at[t] <= Len(steps[t])
  BY <1>3 DEF MoveOut, MoveIn, NextStep, AtStep
<1>4. ASSUME NEW t \in Tokens, StepFails(t) \/ FinishFails(t) \/ RollForward(t)
      PROVE  steps' = steps /\ (at' = [at EXCEPT ![t] = 1] \/ at' = at)
  BY <1>4 DEF StepFails, FinishFails, RollForward, disk, staging
<1>5. ASSUME Crash
      PROVE  steps' = steps /\ at' = [t \in Tokens |-> 1]
  BY <1>5 DEF Crash, disk, staging
<1>6. CASE \E t \in Tokens : WriteJournal(t) \/ RemoveJournal(t)
  <2>1. <<>> \in Seq(Step)
    OBVIOUS
  <2>2. PICK t \in Tokens, J \in Seq(Step) :
          steps' = [steps EXCEPT ![t] = J] /\ at' = [at EXCEPT ![t] = 1]
    BY <1>1, <1>2, <1>6, <2>1
  <2>3. \A u \in Tokens : Len(steps[u]) \in Nat
    BY <1>0
  <2> QED
    BY <1>0, <2>2, <2>3
<1>7. CASE \E t \in Tokens : MoveOut(t) \/ MoveIn(t)
  <2>1. PICK t \in Tokens :
          steps' = steps /\ at' = [at EXCEPT ![t] = at[t] + 1] /\ at[t] <= Len(steps[t])
    BY <1>3, <1>7
  <2>2. \A u \in Tokens : Len(steps[u]) \in Nat /\ at[u] \in Nat \ {0}
    BY <1>0
  <2>3. at' \in [Tokens -> Nat \ {0}]
    BY <1>0, <2>1, <2>2
  <2>4. \A u \in Tokens : at'[u] <= Len(steps[u]) + 1
    BY <1>0, <2>1, <2>2
  <2> QED
    BY <1>0, <2>1, <2>3, <2>4
<1>8. CASE Crash \/ \E t \in Tokens : StepFails(t) \/ FinishFails(t) \/ RollForward(t)
  <2>1. \A u \in Tokens : Len(steps[u]) \in Nat /\ 1 <= Len(steps[u]) + 1
    BY <1>0
  <2>2. CASE at' = [t \in Tokens |-> 1] /\ steps' = steps
    BY <1>0, <2>1, <2>2
  <2>3. ASSUME NEW t \in Tokens, steps' = steps, at' = [at EXCEPT ![t] = 1]
        PROVE  /\ at' \in [Tokens -> Nat \ {0}]
               /\ \A u \in Tokens : at'[u] <= Len(steps[u]) + 1
    BY <1>0, <2>1, <2>3
  <2> QED
    BY <1>0, <1>4, <1>5, <1>8, <2>2, <2>3
<1> QED
  BY <1>0, <1>6, <1>7, <1>8, StepsWriters, AtWriters

LEMMA ManyTypes ==
  ASSUME MoveInv, Next
  PROVE  /\ dir' \in [Tokens -> {"none", "staged", "journaled"}]
         /\ copies' \subseteq Paths \X (0 .. MaxEdits \cup Tokens)
         /\ pending' \subseteq Comps
         /\ server' \in {"up", "down", "recovering", "requeue", "refused"}
         /\ holder' \in Tokens \cup {None}
         /\ req' \in [Tokens -> Request \cup {None}] /\ ids' \in [Tokens -> SUBSET Comps]
         /\ tries' \in [Tokens -> 1 .. 2]
         /\ edits' \in 0 .. MaxEdits /\ committed' \subseteq Tokens
         /\ failures' \in 0 .. MaxRenameFailures /\ crashes' \in 0 .. MaxCrashes
<1>0. TypeOK /\ Staged
  BY DEF MoveInv
<1>1. dir' \in [Tokens -> {"none", "staged", "journaled"}]
  <2>1. dir \in [Tokens -> {"none", "staged", "journaled"}]
    BY <1>0 DEF TypeOK
  <2> QED
    BY <2>1, DirWriters DEF Stage, Refuse, WriteFails, GivesUp, WriteJournal, RemoveJournal, RemoveToken,
       RemoveStaging
<1>2. copies' \subseteq Paths \X (0 .. MaxEdits \cup Tokens)
  <2>1. copies \subseteq Paths \X (0 .. MaxEdits \cup Tokens)
    BY <1>0 DEF TypeOK
  <2>2. ASSUME NEW t \in Tokens, SaveCopy(t)
        PROVE  copies' \subseteq Paths \X (0 .. MaxEdits \cup Tokens)
    <3>1. phase[t] # "idle"
      BY <2>2 DEF SaveCopy, Advance
    <3>2. Displaced(t) \subseteq Paths
      BY <1>0, <3>1, RequestIs DEF Displaced
    <3>3. \A p \in Displaced(t) : live[p] \in Comp \cup Setting
      BY <1>0, <3>2, TypesOf, FolderHolds DEF Displaced, Content
    <3>4. \A c \in Comp \cup Setting : c.by \in 0 .. MaxEdits \cup Tokens
      BY DEF Comp, Setting
    <3>5. copies' = copies \cup {<<p, live[p].by>> : p \in Displaced(t)}
      BY <2>2 DEF SaveCopy
    <3> QED
      BY <2>1, <3>2, <3>3, <3>4, <3>5
  <2> QED
    BY <2>1, <2>2, CopiesWriters
<1>3. pending' \subseteq Comps
  BY <1>0, PendingWriters, PathsAssumption DEF TypeOK, WriteRequeuePending, RemoveRequeuePending
<1>4. server' \in {"up", "down", "recovering", "requeue", "refused"}
  BY <1>0, ServerWriters DEF TypeOK, StepFails, RequeueDone, RevertFails, Resolved, Crash, Start, Recovered
<1>5. holder' \in Tokens \cup {None}
  BY <1>0, HolderWriters DEF TypeOK, Refuse, WriteFails, GivesUp, Lock, StepFails, RemoveToken,
     FinishFails, Crash, RollForward
<1>6. req' \in [Tokens -> Request \cup {None}]
  <2>1. req \in [Tokens -> Request \cup {None}]
    BY <1>0 DEF TypeOK
  <2> QED
    BY <2>1, ReqWriters, RequestsAssumption DEF Stage
<1>7. ids' \in [Tokens -> SUBSET Comps]
  <2>1. ids \in [Tokens -> SUBSET Comps]
    BY <1>0 DEF TypeOK
  <2> QED
    BY <2>1, IdsWriters DEF Stage, Refuse, WriteFails, GivesUp, Lock, Crash, LiveComps
<1>8. tries' \in [Tokens -> 1 .. 2]
  <2>1. tries \in [Tokens -> 1 .. 2]
    BY <1>0 DEF TypeOK
  <2> QED
    BY <2>1, TriesWriters DEF WriteJournal, StepFails, RemoveJournal, FinishFails, Crash
<1>9. edits' \in 0 .. MaxEdits
  BY <1>0, BoundsAssumption, EditsWriters DEF TypeOK, Write, Create, Delete, SaveSettings, Operation
<1>10. committed' \subseteq Tokens
  BY <1>0, CommittedWriters DEF TypeOK, WriteJournal
<1>11. failures' \in 0 .. MaxRenameFailures
  BY <1>0, BoundsAssumption, FailuresWriters DEF TypeOK, StepFails, RenameFails
<1>12. crashes' \in 0 .. MaxCrashes
  BY <1>0, BoundsAssumption, CrashesWriters DEF TypeOK, Crash
<1> QED
  BY <1>1, <1>2, <1>3, <1>4, <1>5, <1>6, <1>7, <1>8, <1>9, <1>10, <1>11, <1>12

LEMMA HandlerTypes ==
  ASSUME TypeOK, Next
  PROVE  /\ phase' \in [Tokens -> {"idle", "staged", "locked", "settled", "copied", "noted",
                                   "swap", "cleared", "swapped", "resolving", "done"}]
         /\ todo' \in [Resolvers -> [Comps -> {"no", "listed", "reverted"}]]
<1>1. phase' \in [Tokens -> {"idle", "staged", "locked", "settled", "copied", "noted", "swap",
                             "cleared", "swapped", "resolving", "done"}]
  <2>1. phase \in [Tokens -> {"idle", "staged", "locked", "settled", "copied", "noted", "swap",
                              "cleared", "swapped", "resolving", "done"}]
    BY DEF TypeOK
  <2>2. ASSUME NEW t \in Tokens, \/ Refuse(t) \/ WriteFails(t) \/ Lock(t) \/ Settle(t) \/ SaveCopy(t)
                                 \/ WriteRequeuePending(t) \/ WriteJournal(t)
        PROVE  phase' \in [Tokens -> {"idle", "staged", "locked", "settled", "copied", "noted", "swap",
                                      "cleared", "swapped", "resolving", "done"}]
    BY <2>1, <2>2 DEF Refuse, WriteFails, GivesUp, Lock, Settle, SaveCopy, WriteRequeuePending,
       WriteJournal, Advance
  <2>3. ASSUME NEW t \in Tokens, \/ StepFails(t) \/ RemoveJournal(t) \/ RemoveToken(t)
                                 \/ FinishFails(t) \/ List(t) \/ RollForward(t)
        PROVE  phase' \in [Tokens -> {"idle", "staged", "locked", "settled", "copied", "noted", "swap",
                                      "cleared", "swapped", "resolving", "done"}]
    BY <2>1, <2>3 DEF StepFails, RemoveJournal, RemoveToken, FinishFails, Released, List, RollForward
  <2> QED
    BY <2>1, <2>2, <2>3, PhaseWriters DEF Stage, RequeueDone, RevertFails, Resolved, Crash
<1>2. todo' \in [Resolvers -> [Comps -> {"no", "listed", "reverted"}]]
  <2>1. todo \in [Resolvers -> [Comps -> {"no", "listed", "reverted"}]]
    BY DEF TypeOK
  <2>2. /\ NothingToDo \in [Comps -> {"no", "listed", "reverted"}]
        /\ \A r : Listed(r) \in [Comps -> {"no", "listed", "reverted"}]
    BY DEF NothingToDo, Listed
  <2>3. ASSUME NEW r \in Resolvers, NEW p \in Comps, Revert(r, p) \/ RemoveRequeuePending(r, p)
        PROVE  todo' \in [Resolvers -> [Comps -> {"no", "listed", "reverted"}]]
    BY <2>1, <2>3 DEF Revert, RemoveRequeuePending
  <2>4. ASSUME NEW t \in Tokens, List(t)
        PROVE  todo' \in [Resolvers -> [Comps -> {"no", "listed", "reverted"}]]
    BY <2>1, <2>2, <2>4 DEF List
  <2> QED
    BY <2>1, <2>2, <2>3, <2>4, TodoWriters DEF RevertFails, Crash, Recovered
<1> QED
  BY <1>1, <1>2

LEMMA TypesKept ==
  ASSUME MoveInv, Next
  PROVE  TypeOK'
<1>1. TypeOK
  BY DEF MoveInv
<1> QED
  BY <1>1, LiveType, WalType, NewType, OldType, JournalType, ManyTypes, HandlerTypes DEF TypeOK

-----------------------------------------------------------------------------
(***************************************************************************)
(* A journal's moves can be made.                                          *)
(***************************************************************************)

\* What a journal with no move left has left behind.
LEMMA ClosedJournal ==
  ASSUME Movable, Staged, NEW t \in Tokens, Journaled(t), ~Open(t)
  PROVE  /\ \A p \in Paths : new[t][p] = None
         /\ \A p \in Paths : MovesOut(t, p) => old[t][p] # None
<1>1. /\ \A p \in Paths : MovesIn(t, p) <=> p \in req[t].puts
      /\ \A p \in Paths : new[t][p] # None => p \in req[t].puts
  BY DEF Movable, MovableAt, Staged, StagedAt
<1>2. \A i \in DOMAIN steps[t] : StepDone(t, i)
  BY DEF Open
<1>3. ASSUME NEW p \in Paths, MovesIn(t, p) PROVE new[t][p] = None
  <2>1. PICK i \in DOMAIN steps[t] : steps[t][i] = [kind |-> "in", path |-> p]
    BY <1>3 DEF MovesIn
  <2> QED
    BY <1>2, <2>1 DEF StepDone
<1>4. ASSUME NEW p \in Paths, MovesOut(t, p) PROVE old[t][p] # None
  <2>1. PICK i \in DOMAIN steps[t] : steps[t][i] = [kind |-> "out", path |-> p]
    BY <1>4 DEF MovesOut
  <2> QED
    BY <1>2, <2>1 DEF StepDone
<1> QED
  BY <1>1, <1>3, <1>4

\* A server that serves has no other journal open than the holder's.
LEMMA NoneOpen ==
  ASSUME OneOpen, server = "up", NEW t \in Tokens, holder # t
  PROVE  ~Open(t)
BY DEF OneOpen

LEMMA OutCanBeMade ==
  ASSUME TypeOK, Staged, Movable, NEW t \in Tokens, AtStep(t, "out")
  PROVE  /\ MovesOut(t, StepPath(t)) /\ StepPath(t) \in Touched(t) /\ StepPath(t) \in Paths
         /\ OutDone(t) \/ CanMoveOut(t)
<1>1. /\ Journaled(t) /\ at[t] <= Len(steps[t]) /\ steps[t][at[t]].kind = "out"
  BY DEF AtStep, Swapping, Staged, StagedAt
<1>2. MovesOut(t, StepPath(t)) /\ StepPath(t) \in Paths
  BY <1>1, StepIs DEF MovesOut
<1> QED
  BY <1>1, <1>2 DEF Movable, MovableAt, OutDone, CanMoveOut

LEMMA InCanBeMade ==
  ASSUME TypeOK, Staged, Movable, NEW t \in Tokens, AtStep(t, "in")
  PROVE  /\ StepPath(t) \in req[t].puts /\ StepPath(t) \in Paths
         /\ MovesOut(t, StepPath(t)) => old[t][StepPath(t)] # None
         /\ InDone(t) \/ CanMoveIn(t)
         /\ InDone(t) \/ live[StepPath(t)] = None
<1>1. /\ Journaled(t) /\ at[t] <= Len(steps[t]) /\ steps[t][at[t]].kind = "in" /\ phase[t] = "swap"
  BY DEF AtStep, Swapping, Staged, StagedAt
<1>2. at[t] \in DOMAIN steps[t] /\ MovesIn(t, StepPath(t)) /\ StepPath(t) \in Paths
  BY <1>1, StepIs DEF MovesIn
<1>3. OutsFirst(t) /\ StepPath(t) \in req[t].puts /\ \A i \in 1 .. at[t] - 1 : StepDone(t, i)
  BY <1>1, <1>2 DEF Movable, MovableAt
<1>4. ASSUME MovesOut(t, StepPath(t)) PROVE old[t][StepPath(t)] # None
  <2>1. PICK j \in DOMAIN steps[t] : steps[t][j] = [kind |-> "out", path |-> StepPath(t)]
    BY <1>4 DEF MovesOut
  <2>2. j < at[t]
    BY <1>1, <1>2, <1>3, <2>1 DEF OutsFirst
  <2>3. j \in 1 .. at[t] - 1
    BY <1>2, <2>2 DEF TypeOK
  <2>4. StepDone(t, j)
    BY <1>3, <2>3
  <2> QED
    BY <2>1, <2>4 DEF StepDone
<1>5. InDone(t) \/ live[StepPath(t)] = None
  BY <1>1, <1>3, <1>4 DEF Movable, MovableAt, InDone
<1> QED
  BY <1>2, <1>3, <1>4, <1>5 DEF CanMoveIn

\* So a rename fails only when the system refuses it, and the handler has not
\* run its journal twice by then.
LEMMA FailsOnce ==
  ASSUME MoveInv, MaxRenameFailures \in {0, 1}, NEW t \in Tokens, StepFails(t)
  PROVE  /\ server = "up" /\ Swapping(t) /\ tries[t] = 1 /\ failures = 0 /\ failures' = 1
         /\ at' = [at EXCEPT ![t] = 1] /\ tries' = [tries EXCEPT ![t] = 2]
         /\ UNCHANGED <<disk, server, holder, phase, req, ids, todo, edits, committed, crashes>>
<1>0. TypeOK /\ Staged /\ Movable /\ Retried
  BY DEF MoveInv
<1>1. /\ Swapping(t) /\ server = "up" /\ failures < MaxRenameFailures /\ failures' = failures + 1
  BY <1>0, OutCanBeMade, InCanBeMade DEF StepFails, RenameFails, AtStep
<1>2. failures = 0 /\ failures' = 1
  BY <1>0, <1>1 DEF TypeOK
<1>3. tries[t] = 1
  BY <1>0, <1>2 DEF TypeOK, Retried
<1>4. tries \in [Tokens -> 1 .. 2]
  BY <1>0 DEF TypeOK
<1> QED
  BY <1>1, <1>2, <1>3, <1>4 DEF StepFails

LEMMA RetriedKept ==
  ASSUME MoveInv, MaxRenameFailures \in {0, 1}, Next
  PROVE  Retried'
<1>0. Retried /\ tries \in [Tokens -> 1 .. 2] /\ failures \in Nat /\ failures' \in Nat
  BY TypesKept, BoundsAssumption DEF MoveInv, TypeOK
<1>1. ASSUME NEW t \in Tokens, StepFails(t) PROVE Retried'
  BY <1>1, FailsOnce DEF Retried
<1>2. CASE \A t \in Tokens : ~StepFails(t)
  <2>1. failures' = failures
    BY <1>2, FailuresWriters
  <2>2. \A t \in Tokens : tries'[t] = 2 => tries[t] = 2
    BY <1>0, <1>2, TriesWriters DEF WriteJournal, RemoveJournal, FinishFails, Crash
  <2> QED
    BY <1>0, <2>1, <2>2 DEF Retried
<1> QED
  BY <1>1, <1>2

-----------------------------------------------------------------------------
\* Where a restore's handler is, and what its folder is then.

LEMMA StagedElsewhere ==
  ASSUME NEW u, StagedAt(u), dir'[u] = dir[u], req'[u] = req[u], old'[u] = old[u], new'[u] = new[u],
         phase'[u] = phase[u], u \in committed' <=> u \in committed
  PROVE  StagedAt(u)'
BY DEF StagedAt, Journaled

LEMMA StagedKept ==
  ASSUME MoveInv, MaxRenameFailures \in {0, 1}, Next
  PROVE  Staged'
<1>0. TypeOK /\ Staged /\ Served /\ Movable /\ OneOpen
  BY DEF MoveInv
<1>t. /\ new \in [Tokens -> Folders] /\ old \in [Tokens -> Folders]
      /\ dir \in [Tokens -> {"none", "staged", "journaled"}]
      /\ req \in [Tokens -> Request \cup {None}]
      /\ phase \in [Tokens -> {"idle", "staged", "locked", "settled", "copied", "noted", "swap",
                               "cleared", "swapped", "resolving", "done"}]
      /\ \A u \in Tokens : StagedAt(u)
  BY <1>0 DEF TypeOK, Staged
<1>1. ASSUME NEW t \in Tokens, NEW r \in Requests, Stage(t, r), NEW u \in Tokens
      PROVE  StagedAt(u)'
  <2>1. CASE u = t
    <3> DEFINE F == [p \in Paths |-> IF p \in r.puts THEN Archived(t, p) ELSE None]
    <3>1. /\ new' = [new EXCEPT ![t] = F] /\ dir' = [dir EXCEPT ![t] = "staged"]
          /\ phase' = [phase EXCEPT ![t] = "staged"] /\ req' = [req EXCEPT ![t] = r]
          /\ old' = old /\ committed' = committed /\ phase[t] = "idle"
          /\ Settings \in r.puts => live[Settings] # None
      BY <1>1 DEF Stage, Allowed, ghosts
    <3>2. r.puts \subseteq Paths
      BY RequestsAssumption DEF Request
    <3>3. \A p \in Paths : F[p] # None <=> p \in r.puts
      BY <1>0, <3>1, <3>2, ArchivedContent
    <3> HIDE DEF F
    <3>4. new'[t] = F /\ dir'[t] = "staged" /\ phase'[t] = "staged" /\ req'[t] = r
      BY <1>t, <3>1
    <3>5. t \notin committed /\ \A p \in Paths : old[t][p] = None
      BY <1>t, <3>1 DEF StagedAt
    <3> QED
      BY <2>1, <3>1, <3>2, <3>3, <3>4, <3>5 DEF StagedAt, Journaled, Asking
  <2>2. CASE u # t
    BY <1>1, <1>t, <2>2, StagedElsewhere DEF Stage, ghosts
  <2> QED
    BY <2>1, <2>2
<1>2. ASSUME NEW t \in Tokens, Refuse(t) \/ WriteFails(t), NEW u \in Tokens
      PROVE  StagedAt(u)'
  <2>0. /\ phase[t] # "idle" /\ dir' = [dir EXCEPT ![t] = "none"]
        /\ new' = [new EXCEPT ![t] = Nothing] /\ phase' = [phase EXCEPT ![t] = "done"]
        /\ UNCHANGED <<old, req, committed>>
    BY <1>2 DEF Refuse, CanLock, WriteFails, GivesUp, ghosts
  <2>1. CASE u = t
    BY <1>t, <2>0, <2>1, EmptyFolder DEF StagedAt, Journaled, Asking
  <2>2. CASE u # t
    BY <1>t, <2>0, <2>2, StagedElsewhere
  <2> QED
    BY <2>1, <2>2
<1>3. ASSUME NEW t \in Tokens, Lock(t), NEW u \in Tokens
      PROVE  StagedAt(u)'
  <2> DEFINE c == IF Settings \in req[t].puts THEN Archived(t, Settings) ELSE None
             F == [new[t] EXCEPT ![Settings] = c]
  <2>0. /\ phase[t] = "staged" /\ new' = [new EXCEPT ![t] = F]
        /\ phase' = [phase EXCEPT ![t] = "locked"] /\ UNCHANGED <<dir, old, req, committed>>
        /\ Settings \in req[t].puts => live[Settings] # None
    BY <1>3 DEF Lock, CanLock, StillPlanned, Allowed, ghosts
  <2>1. CASE u = t
    <3>1. Settings \in Paths /\ (Settings \in req[t].puts <=> c # None)
      BY <1>0, <2>0, ArchivedContent DEF Paths
    <3> HIDE DEF c
    <3>2. \A p \in Paths : F[p] = IF p = Settings THEN c ELSE new[t][p]
      BY <1>t, <3>1 DEF Folders
    <3> HIDE DEF F
    <3>3. new'[t] = F /\ phase'[t] = "locked"
      BY <1>t, <2>0
    <3>4. StagedAt(t) /\ req[t].puts \subseteq Paths
      BY <1>0, <1>t, <2>0, RequestIs
    <3> QED
      BY <2>0, <2>1, <3>1, <3>2, <3>3, <3>4 DEF StagedAt, Journaled, Asking
  <2>2. CASE u # t
    <3> HIDE DEF F
    <3> QED
      BY <1>t, <2>0, <2>2, StagedElsewhere
  <2> QED
    BY <2>1, <2>2
<1>4. ASSUME NEW t \in Tokens, Settle(t) \/ SaveCopy(t) \/ WriteRequeuePending(t), NEW u \in Tokens
      PROVE  StagedAt(u)'
  <2>0. \E from \in Asking, to \in Asking :
          /\ phase[t] = from /\ phase' = [phase EXCEPT ![t] = to]
          /\ UNCHANGED <<dir, new, old, req, committed>>
    BY <1>4 DEF Settle, SaveCopy, WriteRequeuePending, Advance, staging, Asking
  <2>1. CASE u = t
    BY <1>t, <2>0, <2>1 DEF StagedAt, Journaled, Asking
  <2>2. CASE u # t
    BY <1>t, <2>0, <2>2, StagedElsewhere
  <2> QED
    BY <2>1, <2>2
<1>5. ASSUME NEW t \in Tokens, WriteJournal(t), NEW u \in Tokens
      PROVE  StagedAt(u)'
  <2>0. /\ phase[t] = "noted" /\ phase' = [phase EXCEPT ![t] = "swap"]
        /\ dir' = [dir EXCEPT ![t] = "journaled"] /\ committed' = committed \cup {t}
        /\ UNCHANGED <<new, old, req>>
    BY <1>5 DEF WriteJournal, Advance
  <2>1. CASE u = t
    BY <1>t, <2>0, <2>1 DEF StagedAt, Journaled, Asking
  <2>2. CASE u # t
    BY <1>t, <2>0, <2>2, StagedElsewhere
  <2> QED
    BY <2>1, <2>2
<1>6. ASSUME NEW t \in Tokens, MoveOut(t), NEW u \in Tokens
      PROVE  StagedAt(u)'
  <2>0. /\ phase[t] = "swap" /\ UNCHANGED <<dir, new, req, committed, phase>>
        /\ old' = old \/ \E F : old' = [old EXCEPT ![t] = F]
    BY <1>6 DEF MoveOut, NextStep, AtStep, Swapping, ghosts
  <2>1. CASE u = t
    BY <1>t, <2>0, <2>1 DEF StagedAt, Journaled, Asking
  <2>2. CASE u # t
    BY <1>t, <2>0, <2>2, StagedElsewhere
  <2> QED
    BY <2>1, <2>2
<1>7. ASSUME NEW t \in Tokens, MoveIn(t), NEW u \in Tokens
      PROVE  StagedAt(u)'
  <2> DEFINE F == [new[t] EXCEPT ![StepPath(t)] = None]
  <2>0. /\ phase[t] = "swap" /\ UNCHANGED <<dir, old, req, committed, phase>>
        /\ new' = new \/ new' = [new EXCEPT ![t] = F]
    BY <1>7 DEF MoveIn, NextStep, AtStep, Swapping, ghosts
  <2>1. CASE u = t
    <3>1. \A p \in Paths : F[p] # None => new[t][p] # None
      BY <1>t DEF Folders
    <3> HIDE DEF F
    <3> QED
      BY <1>t, <2>0, <2>1, <3>1 DEF StagedAt, Journaled, Asking
  <2>2. CASE u # t
    <3> HIDE DEF F
    <3> QED
      BY <1>t, <2>0, <2>2, StagedElsewhere
  <2> QED
    BY <2>1, <2>2
<1>8. ASSUME NEW t \in Tokens, RemoveJournal(t), NEW u \in Tokens
      PROVE  StagedAt(u)'
  <2>0. /\ phase[t] = "swap" /\ phase' = [phase EXCEPT ![t] = "cleared"]
        /\ dir' = [dir EXCEPT ![t] = "staged"] /\ UNCHANGED <<new, old, req, committed>>
    BY <1>8 DEF RemoveJournal, Swapping, ghosts
  <2>1. CASE u = t
    BY <1>t, <2>0, <2>1 DEF StagedAt, Journaled, Asking
  <2>2. CASE u # t
    BY <1>t, <2>0, <2>2, StagedElsewhere
  <2> QED
    BY <2>1, <2>2
<1>9. ASSUME NEW t \in Tokens, RemoveToken(t), NEW u \in Tokens
      PROVE  StagedAt(u)'
  <2>0. /\ phase[t] = "cleared" /\ dir' = [dir EXCEPT ![t] = "none"]
        /\ \E to \in {"swapped", "done"} : phase' = [phase EXCEPT ![t] = to]
        /\ new' = [new EXCEPT ![t] = Nothing] /\ old' = [old EXCEPT ![t] = Nothing]
        /\ UNCHANGED <<req, committed>>
    BY <1>9 DEF RemoveToken, Released, ghosts
  <2>1. CASE u = t
    BY <1>t, <2>0, <2>1, EmptyFolder DEF StagedAt, Journaled, Asking
  <2>2. CASE u # t
    BY <1>t, <2>0, <2>2, StagedElsewhere
  <2> QED
    BY <2>1, <2>2
<1>10. ASSUME NEW t \in Tokens, FinishFails(t), NEW u \in Tokens
       PROVE  StagedAt(u)'
  <2>0. /\ phase[t] \in {"swap", "cleared"} /\ UNCHANGED <<dir, new, old, req, committed>>
        /\ \E to \in {"swapped", "done"} : phase' = [phase EXCEPT ![t] = to]
    BY <1>10 DEF FinishFails, Released, Swapping, ghosts, disk, staging
  <2>1. CASE u = t
    BY <1>t, <2>0, <2>1 DEF StagedAt, Journaled, Asking
  <2>2. CASE u # t
    BY <1>t, <2>0, <2>2, StagedElsewhere
  <2> QED
    BY <2>1, <2>2
<1>11. ASSUME NEW t \in Tokens, RemoveStaging(t), NEW u \in Tokens
       PROVE  StagedAt(u)'
  <2>0. /\ server = "recovering" /\ holder = None /\ dir[t] = "staged"
        /\ dir' = [dir EXCEPT ![t] = "none"]
        /\ new' = [new EXCEPT ![t] = Nothing] /\ old' = [old EXCEPT ![t] = Nothing]
        /\ UNCHANGED <<phase, req, committed>>
    BY <1>11 DEF RemoveStaging, ghosts
  <2>1. CASE u = t
    <3>1. phase[t] = "done"
      BY <1>0, <1>t, <2>0, NoneAssumption DEF Served, Stopped, Holding, StagedAt
    <3> QED
      BY <1>t, <2>0, <2>1, <3>1, EmptyFolder DEF StagedAt, Journaled, Asking
  <2>2. CASE u # t
    BY <1>t, <2>0, <2>2, StagedElsewhere
  <2> QED
    BY <2>1, <2>2
<1>12. ASSUME NEW t \in Tokens, List(t) \/ RollForward(t), NEW u \in Tokens
       PROVE  StagedAt(u)'
  <2>0. /\ UNCHANGED <<dir, new, old, req, committed>>
        /\ \/ phase[t] = "swapped" /\ phase' = [phase EXCEPT ![t] = "resolving"]
           \/ Journaled(t) /\ phase' = [phase EXCEPT ![t] = "swap"]
    BY <1>12 DEF List, RollForward, ghosts, disk, staging, Journaled
  <2>1. CASE u = t
    BY <1>t, <2>0, <2>1 DEF StagedAt, Journaled, Asking
  <2>2. CASE u # t
    BY <1>t, <2>0, <2>2, StagedElsewhere
  <2> QED
    BY <2>1, <2>2
<1>13. ASSUME NEW r \in Resolvers, RequeueDone(r) \/ RevertFails(r), NEW u \in Tokens
       PROVE  StagedAt(u)'
  <2>0. /\ UNCHANGED <<dir, new, old, req, committed>>
        /\ phase' = phase \/ (phase[r] = "resolving" /\ phase' = [phase EXCEPT ![r] = "done"])
    BY <1>13 DEF RequeueDone, RevertFails, Resolved, Resolver, ghosts, disk, staging
  <2>1. CASE u = r
    BY <1>t, <2>0, <2>1 DEF StagedAt, Journaled, Asking
  <2>2. CASE u # r
    BY <1>t, <2>0, <2>2, StagedElsewhere
  <2> QED
    BY <2>1, <2>2
<1>14. ASSUME Crash, NEW u \in Tokens
       PROVE  StagedAt(u)'
  <2>0. /\ UNCHANGED <<dir, new, old, req, committed>>
        /\ phase'[u] = IF phase[u] = "idle" THEN "idle" ELSE "done"
    BY <1>14 DEF Crash, disk, staging
  <2> QED
    BY <1>t, <2>0 DEF StagedAt, Journaled, Asking
<1>15. ASSUME NEW t \in Tokens, StepFails(t)
       PROVE  UNCHANGED <<dir, new, old, req, committed, phase>>
  BY <1>15, FailsOnce DEF disk, staging
<1>16. CASE UNCHANGED <<dir, new, old, req, committed, phase>>
  BY <1>t, <1>16, StagedElsewhere DEF Staged
<1> DEFINE Kept == \A u \in Tokens : StagedAt(u)'
<1>17. Kept => Staged'
  BY DEF Staged
<1>18. Kept \/ UNCHANGED <<dir, new, old, req, committed, phase>>
  <2>1. Kept \/ dir' = dir
    BY <1>1, <1>2, <1>5, <1>8, <1>9, <1>11, DirWriters
  <2>2. Kept \/ (new' = new /\ old' = old)
    BY <1>1, <1>2, <1>3, <1>6, <1>7, <1>9, <1>11, NewWriters, OldWriters
  <2>3. Kept \/ (req' = req /\ committed' = committed)
    BY <1>1, <1>5, ReqWriters, CommittedWriters
  <2>4. Kept \/ phase' = phase
    BY <1>1, <1>2, <1>3, <1>4, <1>5, <1>8, <1>9, <1>10, <1>12, <1>13, <1>14, <1>15, PhaseWriters
  <2> QED
    BY <2>1, <2>2, <2>3, <2>4
<1> QED
  BY <1>16, <1>17, <1>18

-----------------------------------------------------------------------------
\* Who holds the locks, and what runs while the server does not serve.

LEMMA ServedKept ==
  ASSUME MoveInv, MaxRenameFailures \in {0, 1}, Next
  PROVE  Served'
<1>0. TypeOK /\ Staged /\ Served
  BY DEF MoveInv
<1>t. /\ dir \in [Tokens -> {"none", "staged", "journaled"}]
      /\ phase \in [Tokens -> {"idle", "staged", "locked", "settled", "copied", "noted", "swap",
                               "cleared", "swapped", "resolving", "done"}]
      /\ holder \in Tokens \cup {None} /\ None \notin Tokens /\ Startup \notin Tokens
      /\ \A u \in Tokens : /\ phase[u] = "swap" => dir[u] = "journaled"
                           /\ phase[u] = "cleared" => dir[u] = "staged"
  BY <1>0, NoneAssumption DEF TypeOK, Staged, StagedAt, Journaled
<1>1. ASSUME NEW t \in Tokens, NEW r \in Requests, Stage(t, r)
      PROVE  Served'
  <2>1. /\ server = "up" /\ phase[t] = "idle" /\ phase' = [phase EXCEPT ![t] = "staged"]
        /\ UNCHANGED <<server, holder>>
    BY <1>1 DEF Stage
  <2> QED
    BY <1>0, <1>t, <2>1 DEF Served, Holding, Stopped
<1>2. ASSUME NEW t \in Tokens, Refuse(t)
      PROVE  Served'
  <2>1. /\ server = "up" /\ phase[t] = "staged" /\ phase' = [phase EXCEPT ![t] = "done"]
        /\ holder = None /\ holder' = None /\ server' = server
    BY <1>2 DEF Refuse, CanLock, GivesUp
  <2> QED
    BY <1>0, <1>t, <2>1 DEF Served, Holding, Stopped
<1>3. ASSUME NEW t \in Tokens, WriteFails(t)
      PROVE  Served'
  <2>1. /\ server = "up" /\ phase[t] \in Holding /\ phase' = [phase EXCEPT ![t] = "done"]
        /\ holder' = None /\ server' = server
    BY <1>3 DEF WriteFails, GivesUp, Holding
  <2> QED
    BY <1>0, <1>t, <2>1 DEF Served, Holding, Stopped
<1>4. ASSUME NEW t \in Tokens, Lock(t)
      PROVE  Served'
  <2>1. /\ server = "up" /\ phase[t] = "staged" /\ phase' = [phase EXCEPT ![t] = "locked"]
        /\ holder = None /\ holder' = t /\ server' = server
    BY <1>4 DEF Lock, CanLock
  <2> QED
    BY <1>0, <1>t, <2>1 DEF Served, Holding, Stopped
<1>5. ASSUME NEW t \in Tokens,
             Settle(t) \/ SaveCopy(t) \/ WriteRequeuePending(t) \/ WriteJournal(t)
      PROVE  Served'
  <2>1. /\ server = "up" /\ phase[t] \in Holding /\ server' = server /\ holder' = holder
        /\ \E to \in Holding : phase' = [phase EXCEPT ![t] = to]
    BY <1>5 DEF Settle, SaveCopy, WriteRequeuePending, WriteJournal, Advance, Holding
  <2> QED
    BY <1>0, <1>t, <2>1 DEF Served, Holding, Stopped
<1>6. ASSUME NEW t \in Tokens, StepFails(t)
      PROVE  UNCHANGED <<server, holder, phase, dir>>
  BY <1>6, FailsOnce DEF disk, staging
<1>7. ASSUME NEW t \in Tokens, RemoveJournal(t)
      PROVE  Served'
  <2>1. /\ phase[t] = "swap" /\ holder = t /\ server' = server /\ holder' = holder
        /\ phase' = [phase EXCEPT ![t] = "cleared"] /\ dir' = [dir EXCEPT ![t] = "staged"]
    BY <1>7 DEF RemoveJournal, Swapping
  <2> QED
    BY <1>0, <1>t, <2>1 DEF Served, Holding, Stopped
<1>8. ASSUME NEW t \in Tokens, RemoveToken(t)
      PROVE  Served'
  <2>1. /\ phase[t] = "cleared" /\ holder = t /\ server' = server /\ holder' = None
        /\ phase' = [phase EXCEPT ![t] = IF server = "up" THEN "swapped" ELSE "done"]
        /\ dir' = [dir EXCEPT ![t] = "none"]
    BY <1>8 DEF RemoveToken, Released
  <2> QED
    BY <1>0, <1>t, <2>1 DEF Served, Holding, Stopped
<1>9. ASSUME NEW t \in Tokens, FinishFails(t)
      PROVE  Served'
  <2>1. /\ phase[t] \in Holding /\ server = "up" /\ holder = t /\ server' = server /\ holder' = None
        /\ phase' = [phase EXCEPT ![t] = "swapped"] /\ dir' = dir
    BY <1>9 DEF FinishFails, Released, Swapping, Holding, disk, staging
  <2> QED
    BY <1>0, <1>t, <2>1 DEF Served, Holding, Stopped
<1>10. ASSUME NEW t \in Tokens, List(t)
       PROVE  Served'
  <2>1. /\ phase[t] = "swapped" /\ server = "up" /\ UNCHANGED <<server, holder, dir>>
        /\ phase' = [phase EXCEPT ![t] = "resolving"]
    BY <1>10 DEF List, disk, staging
  <2> QED
    BY <1>0, <1>t, <2>1 DEF Served, Holding, Stopped
<1>11. ASSUME NEW t \in Tokens, RollForward(t)
       PROVE  Served'
  <2>1. /\ server = "recovering" /\ holder = None /\ holder' = t /\ UNCHANGED <<server, dir>>
        /\ phase' = [phase EXCEPT ![t] = "swap"]
    BY <1>11 DEF RollForward, disk, staging
  <2> QED
    BY <1>0, <1>t, <2>1 DEF Served, Holding, Stopped
<1>12. ASSUME NEW t \in Tokens, RemoveStaging(t)
       PROVE  Served'
  <2>1. /\ server = "recovering" /\ UNCHANGED <<server, holder, phase>>
        /\ dir' = [dir EXCEPT ![t] = "none"]
    BY <1>12 DEF RemoveStaging
  <2> QED
    BY <1>0, <1>t, <2>1 DEF Served, Holding, Stopped
<1>13. ASSUME NEW r \in Resolvers, RequeueDone(r) \/ RevertFails(r)
       PROVE  Served'
  <2>1. /\ UNCHANGED <<holder, dir>>
        /\ \/ server = "requeue" /\ server' = "up" /\ phase' = phase
           \/ r \in Tokens /\ phase[r] = "resolving" /\ phase' = [phase EXCEPT ![r] = "done"]
              /\ server' = server
    BY <1>13 DEF RequeueDone, RevertFails, Resolved, Resolver, Resolvers, disk, staging
  <2> QED
    BY <1>0, <1>t, <2>1 DEF Served, Holding, Stopped
<1>14. ASSUME Start
       PROVE  Served'
  <2>1. server = "down" /\ server' = "recovering" /\ UNCHANGED <<holder, phase, dir>>
    BY <1>14 DEF Start, staging
  <2> QED
    BY <1>0, <1>t, <2>1 DEF Served, Holding, Stopped
<1>15. ASSUME Recovered
       PROVE  Served'
  <2>1. /\ server = "recovering" /\ server' = "requeue" /\ UNCHANGED <<holder, phase, dir>>
        /\ \A t \in Tokens : dir[t] = "none"
    BY <1>15 DEF Recovered, disk, staging
  <2> QED
    BY <1>0, <1>t, <2>1 DEF Served, Holding, Stopped
<1>16. ASSUME Crash
       PROVE  Served'
  <2>1. /\ server' = "down" /\ holder' = None
        /\ \A u \in Tokens : phase'[u] \in {"idle", "done"}
    BY <1>16 DEF Crash
  <2> QED
    BY <1>t, <2>1 DEF Served, Holding, Stopped
<1>17. ASSUME UNCHANGED <<server, holder, phase, dir>>
       PROVE  Served'
  BY <1>0, <1>17 DEF Served
<1>18. Served' \/ dir' = dir
  BY <1>1, <1>2, <1>3, <1>5, <1>7, <1>8, <1>12, DirWriters
<1>19. Served' \/ holder' = holder
  BY <1>2, <1>3, <1>4, <1>6, <1>8, <1>9, <1>11, <1>16, HolderWriters
<1>20. Served' \/ server' = server
  BY <1>6, <1>13, <1>14, <1>15, <1>16, ServerWriters
<1>21. Served' \/ phase' = phase
  BY <1>1, <1>2, <1>3, <1>4, <1>5, <1>6, <1>7, <1>8, <1>9, <1>10, <1>11, <1>13, <1>16, PhaseWriters
<1> QED
  BY <1>17, <1>18, <1>19, <1>20, <1>21

-----------------------------------------------------------------------------
(***************************************************************************)
(* Only its writer and its own moves change a journal and what its folders *)
(* hold, and while it is open nobody else creates or removes what it moves.*)
(***************************************************************************)

LEMMA JournalSteady ==
  ASSUME MoveInv, MaxRenameFailures \in {0, 1}, Next,
         NEW u \in Tokens, Journaled(u)', ~WriteJournal(u), ~MoveOut(u), ~MoveIn(u)
  PROVE  /\ Journaled(u) /\ phase[u] \notin Asking \cup {"idle", "cleared"}
         /\ steps'[u] = steps[u] /\ req'[u] = req[u] /\ old'[u] = old[u] /\ new'[u] = new[u]
         /\ phase'[u] = "swap" => at'[u] = 1 \/ (phase[u] = "swap" /\ at'[u] = at[u])
<1>0. TypeOK /\ Staged
  BY DEF MoveInv
<1>t. /\ new \in [Tokens -> Folders] /\ old \in [Tokens -> Folders]
      /\ dir \in [Tokens -> {"none", "staged", "journaled"}]
      /\ req \in [Tokens -> Request \cup {None}] /\ steps \in [Tokens -> Seq(Step)]
      /\ at \in [Tokens -> Nat \ {0}]
      /\ phase \in [Tokens -> {"idle", "staged", "locked", "settled", "copied", "noted", "swap",
                               "cleared", "swapped", "resolving", "done"}]
  BY <1>0 DEF TypeOK
<1>1. Journaled(u)
  <2>1. ASSUME NEW t \in Tokens, WriteJournal(t) PROVE dir'[u] = dir[u]
    <3>1. t # u /\ dir' = [dir EXCEPT ![t] = "journaled"]
      BY <2>1 DEF WriteJournal
    <3> QED
      BY <1>t, <3>1
  <2> QED
    BY <1>t, <2>1, DirWriters DEF Journaled, Stage, Refuse, WriteFails, GivesUp, RemoveJournal,
       RemoveToken, RemoveStaging
<1>2. phase[u] \notin Asking \cup {"idle", "cleared"}
  BY <1>0, <1>1 DEF Staged, StagedAt, Journaled
<1>3. steps'[u] = steps[u]
  <2>1. ~RemoveJournal(u)
    BY <1>t DEF RemoveJournal, Journaled
  <2> QED
    BY <1>t, <2>1, StepsWriters DEF WriteJournal, RemoveJournal
<1>4. req'[u] = req[u]
  BY <1>t, <1>2, ReqWriters DEF Stage
<1>5. old'[u] = old[u]
  <2>1. ~RemoveToken(u) /\ ~RemoveStaging(u)
    BY <1>t DEF RemoveToken, RemoveStaging, Journaled
  <2> QED
    BY <1>t, <2>1, OldWriters DEF MoveOut, RemoveToken, RemoveStaging
<1>6. new'[u] = new[u]
  <2>1. ~RemoveToken(u) /\ ~RemoveStaging(u) /\ ~Refuse(u) /\ ~WriteFails(u)
    BY <1>t DEF RemoveToken, RemoveStaging, Refuse, WriteFails, GivesUp, Journaled
  <2>2. ~Lock(u) /\ \A r \in Requests : ~Stage(u, r)
    BY <1>2 DEF Lock, CanLock, Stage, Asking
  <2>3. \/ new' = new
        \/ \E t \in Tokens \ {u} : \E F : new' = [new EXCEPT ![t] = F]
    BY <2>1, <2>2, NewWriters DEF Stage, Refuse, WriteFails, GivesUp, Lock, MoveIn, RemoveToken,
       RemoveStaging
  <2> QED
    BY <1>t, <2>3
<1>7. ASSUME phase'[u] = "swap"
      PROVE  at'[u] = 1 \/ (phase[u] = "swap" /\ at'[u] = at[u])
  <2>1. RollForward(u) => at'[u] = 1
    BY <1>t DEF RollForward
  <2>2. phase[u] = "swap" \/ RollForward(u)
    BY <1>t, <1>7, PhaseWriters DEF Stage, Refuse, WriteFails, GivesUp, Lock, Settle, SaveCopy,
       WriteRequeuePending, WriteJournal, Advance, StepFails, RemoveJournal, RemoveToken,
       FinishFails, Released, List, RequeueDone, RevertFails, Resolved, Crash, RollForward
  <2>3. at'[u] = 1 \/ at'[u] = at[u]
    BY <1>t, AtWriters DEF WriteJournal, MoveOut, MoveIn, NextStep, StepFails, RemoveJournal,
       FinishFails, Crash, RollForward
  <2> QED
    BY <2>1, <2>2, <2>3
<1> QED
  BY <1>1, <1>2, <1>3, <1>4, <1>5, <1>6, <1>7

\* Only a journal's own moves create or remove a path while it is open.
LEMMA FoldersStand ==
  ASSUME MoveInv, Next, NEW u \in Tokens, Journaled(u), Open(u), ~MoveOut(u), ~MoveIn(u)
  PROVE  \A p \in Paths : live'[p] = None <=> live[p] = None
<1>0. TypeOK /\ Staged /\ Served /\ OneOpen
  BY DEF MoveInv
<1>t. live \in Folders /\ live \in [Paths -> Comp \cup Setting \cup {None}]
      /\ None \notin Tokens /\ Comps \subseteq Paths
  BY <1>0, NoneAssumption DEF TypeOK, Folders, Paths
<1>1. server = "up" => holder = u
  BY <1>0 DEF OneOpen
<1>2. ASSUME NEW p \in Comps, NEW run \in {"no", "archive", "operator"}, Write(p, run)
      PROVE  \A q \in Paths : live'[q] = None <=> live[q] = None
  <2>1. /\ live[p] # None /\ live' = [live EXCEPT ![p] = [by |-> edits + 1, run |-> run]]
        /\ edits < MaxEdits
    BY <1>2 DEF Write, Operation
  <2>2. [by |-> edits + 1, run |-> run] \in Comp
    BY <1>0, <2>1, TypesOf DEF Comp
  <2>3. [by |-> edits + 1, run |-> run] # None
    BY <2>2, NoneAssumption
  <2> QED
    BY <1>t, <2>1, <2>3
<1>3. \A p \in Comps : ~Create(p) /\ ~Delete(p)
  BY <1>1, <1>t DEF Create, Delete, Operation
<1>4. \A pw \in Passwords : ~SaveSettings(pw)
  BY <1>1, <1>t DEF SaveSettings, Operation, Locked
<1>5. \A t \in Tokens : ~Settle(t)
  <2>1. ASSUME NEW t \in Tokens, Settle(t) PROVE FALSE
    <3>1. phase[t] = "locked" /\ server = "up"
      BY <2>1 DEF Settle, Advance
    <3>2. holder = t /\ holder = u
      BY <1>0, <1>1, <3>1 DEF Served, Holding
    <3> QED
      BY <1>0, <3>1, <3>2 DEF Staged, StagedAt, Asking, Journaled
  <2> QED
    BY <2>1
<1>6. \A t \in Tokens \ {u} : MoveOut(t) \/ MoveIn(t) => live' = live
  <2>1. ASSUME NEW t \in Tokens \ {u}, MoveOut(t) \/ MoveIn(t), live' # live PROVE FALSE
    <3>1. /\ Swapping(t) /\ at[t] <= Len(steps[t]) /\ ~StepDone(t, at[t])
      BY <2>1 DEF MoveOut, MoveIn, AtStep, OutDone, InDone, StepDone, StepPath
    <3>2. Journaled(t) /\ at[t] \in DOMAIN steps[t]
      BY <1>0, <3>1, StepIs DEF Staged, StagedAt, Swapping
    <3>3. Open(t)
      BY <3>1, <3>2 DEF Open
    <3> QED
      BY SMTT(30), <1>0, <3>3 DEF OneOpen
  <2> QED
    BY <2>1
<1>7. ASSUME NEW r \in Resolvers, NEW p \in Comps, Revert(r, p)
      PROVE  \A q \in Paths : live'[q] = None <=> live[q] = None
  <2>1. live' = live \/ (live[p] # None /\ live' = [live EXCEPT ![p].run = "no"])
    BY <1>7 DEF Revert, Running
  <2>2. CASE live[p] # None /\ live' = [live EXCEPT ![p].run = "no"]
    <3>1. p \in Paths /\ p # Settings
      BY PathsAssumption DEF Paths
    <3>2. live[p] \in Comp
      BY <1>t, <2>2, <3>1, FolderHolds DEF Content
    <3> DEFINE c == [live[p] EXCEPT !.run = "no"]
    <3>3. c \in Comp
      BY <3>2 DEF Comp
    <3>4. live' = [live EXCEPT ![p] = c]
      BY <2>2
    <3> HIDE DEF c
    <3>5. c # None
      BY <3>3, NoneAssumption
    <3> QED
      BY <1>t, <2>2, <3>4, <3>5
  <2> QED
    BY <2>1, <2>2
<1>8. ASSUME Start
      PROVE  \A q \in Paths : live'[q] = None <=> live[q] = None
  <2> DEFINE S == {p \in Comps : wal[p] # None /\ live[p] # None}
  <2>1. live' = [p \in Paths |-> IF p \in S THEN wal[p] ELSE live[p]]
    BY <1>8 DEF Start
  <2>2. S \in SUBSET Comps /\ \A p \in S : wal[p] # None /\ live[p] # None
    OBVIOUS
  <2> HIDE DEF S
  <2> QED
    BY <2>1, <2>2
<1> QED
  BY <1>2, <1>3, <1>4, <1>5, <1>6, <1>7, <1>8, LiveWriters

-----------------------------------------------------------------------------
\* A journal moves out before it moves in, and what is left of it can be made.

LEMMA SameJournalMovable ==
  ASSUME MoveInv, NEW u \in Tokens, Journaled(u),
         phase[u] # "idle", steps'[u] = steps[u], req'[u] = req[u], old'[u] = old[u],
         new'[u] = new[u],
         ~Open(u) \/ (\A p \in Paths : live'[p] = None <=> live[p] = None),
         phase'[u] = "swap" => at'[u] = 1 \/ (phase[u] = "swap" /\ at'[u] = at[u])
  PROVE  MovableAt(u)'
<1>0. Staged /\ Movable /\ MovableAt(u) /\ req[u].puts \subseteq Paths
  BY RequestIs DEF MoveInv, Movable
<1>1. OutsFirst(u)' /\ (\A p \in Paths : MovesIn(u, p)' <=> p \in req'[u].puts)
  BY <1>0 DEF MovableAt, OutsFirst, MovesIn
<1>2. \A p \in Paths : (MovesOut(u, p)' <=> MovesOut(u, p)) /\ (p \in Touched(u)' <=> p \in Touched(u))
  BY DEF MovesOut, Touched
<1>3. \A p \in Paths : MovesOut(u, p)' => /\ p \in Touched(u)'
                                          /\ old'[u][p] # None \/ live'[p] # None
  BY <1>0, <1>2, ClosedJournal DEF MovableAt
<1>4. \A p \in req'[u].puts :
        new'[u][p] # None /\ (~MovesOut(u, p)' \/ old'[u][p] # None) => live'[p] = None
  BY <1>0, <1>2, ClosedJournal DEF MovableAt
<1>5. ASSUME phase'[u] = "swap", NEW i \in 1 .. at'[u] - 1 PROVE StepDone(u, i)'
  <2>1. phase[u] = "swap" /\ at'[u] = at[u]
    BY <1>5
  <2>2. StepDone(u, i)
    BY <1>0, <1>5, <2>1 DEF MovableAt
  <2> QED
    BY <2>2 DEF StepDone
<1> QED
  BY <1>1, <1>3, <1>4, <1>5 DEF MovableAt

LEMMA WrittenMovable ==
  ASSUME MoveInv, NEW t \in Tokens, WriteJournal(t)
  PROVE  MovableAt(t)'
<1>0. TypeOK /\ Staged
  BY DEF MoveInv
<1>1. /\ phase[t] = "noted" /\ steps' = [steps EXCEPT ![t] = JournalFor(t)]
      /\ at' = [at EXCEPT ![t] = 1] /\ UNCHANGED <<live, new, old, req>>
  BY DEF WriteJournal, Advance
<1>2. /\ req[t] \in Request /\ Touched(t) \subseteq Paths /\ \A p \in Paths : old[t][p] = None
  BY <1>0, <1>1, RequestIs DEF Staged, StagedAt, Asking
<1>3. PICK J : J = JournalFor(t)
  OBVIOUS
<1>4. /\ J \in Seq(Step)
      /\ \A p : (\E i \in 1 .. Len(J) : J[i] = [kind |-> "out", path |-> p]) <=> p \in Displaced(t)
      /\ \A p : (\E i \in 1 .. Len(J) : J[i] = [kind |-> "in", path |-> p]) <=> p \in req[t].puts
      /\ \A i, j \in 1 .. Len(J) : J[i].kind = "in" /\ J[j].kind = "out" => j < i
  BY <1>2, <1>3, JournalIs
<1>5. steps'[t] = J /\ DOMAIN J = 1 .. Len(J) /\ at'[t] = 1
  BY <1>0, <1>1, <1>3, <1>4 DEF TypeOK
<1>6. OutsFirst(t)' /\ (\A p \in Paths : MovesIn(t, p)' <=> p \in req'[t].puts)
  BY <1>1, <1>4, <1>5 DEF OutsFirst, MovesIn
<1>7. \A p \in Paths : MovesOut(t, p)' <=> p \in Displaced(t)
  BY <1>4, <1>5 DEF MovesOut
<1>8. \A p \in Displaced(t) : p \in Touched(t)' /\ live'[p] # None
  BY <1>1 DEF Displaced, Touched
<1>9. \A p \in req'[t].puts : p \in Displaced(t) \/ live'[p] = None
  BY <1>1 DEF Displaced, Touched
<1>10. req'[t].puts \subseteq Paths
  BY <1>1, <1>2 DEF Touched
<1> QED
  BY <1>1, <1>2, <1>5, <1>6, <1>7, <1>8, <1>9, <1>10 DEF MovableAt

\* What one move changes.
LEMMA MovedOut ==
  ASSUME MoveInv, NEW t \in Tokens, MoveOut(t)
  PROVE  /\ AtStep(t, "out") /\ at' = [at EXCEPT ![t] = at[t] + 1]
         /\ UNCHANGED <<new, dir, steps, req, phase, holder, server, wal>>
         /\ old'[t][StepPath(t)] # None
         /\ \A p \in Paths \ {StepPath(t)} : old'[t][p] = old[t][p] /\ live'[p] = live[p]
         /\ \A u \in Tokens \ {t} : old'[u] = old[u]
         /\ \/ OutDone(t) /\ UNCHANGED <<live, old>>
            \/ /\ ~OutDone(t) /\ live[StepPath(t)] # None /\ live'[StepPath(t)] = None
               /\ old'[t][StepPath(t)] = live[StepPath(t)]
<1>0. TypeOK /\ Staged /\ Movable
  BY DEF MoveInv
<1>1. /\ AtStep(t, "out") /\ StepPath(t) \in Paths /\ at' = [at EXCEPT ![t] = at[t] + 1]
      /\ UNCHANGED <<new, dir, steps, req, phase, holder, server, wal>>
  BY <1>0, OutCanBeMade DEF MoveOut, NextStep
<1>2. live \in [Paths -> Comp \cup Setting \cup {None}] /\ old \in [Tokens -> Folders]
      /\ \A u \in Tokens : old[u] \in [Paths -> Comp \cup Setting \cup {None}]
  BY <1>0 DEF TypeOK, Folders
<1>3. CASE OutDone(t) /\ UNCHANGED <<live, old>>
  BY <1>1, <1>3 DEF OutDone
<1>4. CASE /\ ~OutDone(t) /\ CanMoveOut(t)
           /\ old' = [old EXCEPT ![t][StepPath(t)] = live[StepPath(t)]]
           /\ live' = [live EXCEPT ![StepPath(t)] = None]
  <2>1. /\ live'[StepPath(t)] = None /\ live[StepPath(t)] # None
        /\ \A p \in Paths \ {StepPath(t)} : live'[p] = live[p]
    BY <1>1, <1>2, <1>4 DEF CanMoveOut
  <2> DEFINE F == [old[t] EXCEPT ![StepPath(t)] = live[StepPath(t)]]
  <2>2. F[StepPath(t)] = live[StepPath(t)] /\ \A p \in Paths \ {StepPath(t)} : F[p] = old[t][p]
    BY <1>1, <1>2
  <2>3. old' = [old EXCEPT ![t] = F]
    BY <1>4
  <2> HIDE DEF F
  <2>4. old'[t] = F /\ \A u \in Tokens \ {t} : old'[u] = old[u]
    BY <1>2, <2>3
  <2> QED
    BY <1>1, <1>4, <2>1, <2>2, <2>4
<1> QED
  BY <1>3, <1>4 DEF MoveOut

LEMMA MovedIn ==
  ASSUME MoveInv, NEW t \in Tokens, MoveIn(t)
  PROVE  /\ AtStep(t, "in") /\ at' = [at EXCEPT ![t] = at[t] + 1]
         /\ UNCHANGED <<old, dir, steps, req, phase, holder, server, wal>>
         /\ new'[t][StepPath(t)] = None
         /\ \A p \in Paths \ {StepPath(t)} : new'[t][p] = new[t][p] /\ live'[p] = live[p]
         /\ \A u \in Tokens \ {t} : new'[u] = new[u]
         /\ \/ InDone(t) /\ UNCHANGED <<live, new>>
            \/ /\ ~InDone(t) /\ live[StepPath(t)] = None
               /\ live'[StepPath(t)] = new[t][StepPath(t)]
<1>0. TypeOK /\ Staged /\ Movable
  BY DEF MoveInv
<1>1. /\ AtStep(t, "in") /\ StepPath(t) \in Paths /\ at' = [at EXCEPT ![t] = at[t] + 1]
      /\ UNCHANGED <<old, dir, steps, req, phase, holder, server, wal>>
      /\ InDone(t) \/ live[StepPath(t)] = None
  BY <1>0, InCanBeMade DEF MoveIn, NextStep
<1>2. live \in [Paths -> Comp \cup Setting \cup {None}] /\ new \in [Tokens -> Folders]
      /\ \A u \in Tokens : new[u] \in [Paths -> Comp \cup Setting \cup {None}]
  BY <1>0 DEF TypeOK, Folders
<1>3. CASE InDone(t) /\ UNCHANGED <<live, new>>
  BY <1>1, <1>3 DEF InDone
<1>4. CASE /\ ~InDone(t)
           /\ live' = [live EXCEPT ![StepPath(t)] = new[t][StepPath(t)]]
           /\ new' = [new EXCEPT ![t][StepPath(t)] = None]
  <2>1. /\ live'[StepPath(t)] = new[t][StepPath(t)]
        /\ \A p \in Paths \ {StepPath(t)} : live'[p] = live[p]
    BY <1>1, <1>2, <1>4
  <2> DEFINE F == [new[t] EXCEPT ![StepPath(t)] = None]
  <2>2. F[StepPath(t)] = None /\ \A p \in Paths \ {StepPath(t)} : F[p] = new[t][p]
    BY <1>1, <1>2
  <2>3. new' = [new EXCEPT ![t] = F]
    BY <1>4
  <2> HIDE DEF F
  <2>4. new'[t] = F /\ \A u \in Tokens \ {t} : new'[u] = new[u]
    BY <1>2, <2>3
  <2> QED
    BY <1>1, <1>4, <2>1, <2>2, <2>4
<1> QED
  BY <1>3, <1>4 DEF MoveIn

LEMMA MovingMovable ==
  ASSUME MoveInv, NEW t \in Tokens, MoveOut(t) \/ MoveIn(t)
  PROVE  MovableAt(t)'
<1>0. TypeOK /\ Staged /\ Movable
  BY DEF MoveInv
<1>1. /\ Swapping(t) /\ at[t] <= Len(steps[t]) /\ at' = [at EXCEPT ![t] = at[t] + 1]
      /\ UNCHANGED <<dir, steps, req, phase>>
  BY MovedOut, MovedIn DEF AtStep
<1>2. Journaled(t) /\ MovableAt(t) /\ req[t].puts \subseteq Paths
  BY <1>0, <1>1, RequestIs DEF Staged, StagedAt, Swapping, Movable
<1>3. /\ at[t] \in Nat \ {0} /\ at'[t] = at[t] + 1 /\ StepPath(t) \in Paths
      /\ steps[t][at[t]].path = StepPath(t) /\ steps[t][at[t]].kind \in {"out", "in"}
      /\ steps[t] \in Seq(Step)
  BY <1>0, <1>1, StepIs DEF TypeOK, Step, StepPath
<1>4. OutsFirst(t)' /\ (\A p \in Paths : MovesIn(t, p)' <=> p \in req'[t].puts)
  BY <1>1, <1>2 DEF MovableAt, OutsFirst, MovesIn
<1>5. \A p \in Paths : (MovesOut(t, p)' <=> MovesOut(t, p)) /\ (p \in Touched(t)' <=> p \in Touched(t))
  BY <1>1 DEF MovesOut, Touched
<1>6. \A p \in Paths : /\ old[t][p] # None => old'[t][p] # None
                       /\ new[t][p] = None => new'[t][p] = None
  BY MovedOut, MovedIn DEF OutDone, InDone
<1>7. ASSUME NEW p \in Paths, MovesOut(t, p)'
      PROVE  /\ p \in Touched(t)'
             /\ old'[t][p] # None \/ live'[p] # None
  <2>1. p \in Touched(t)' /\ (old[t][p] # None \/ live[p] # None)
    BY <1>2, <1>5, <1>7 DEF MovableAt
  <2>2. CASE p # StepPath(t)
    BY <2>1, <2>2, MovedOut, MovedIn
  <2>3. CASE p = StepPath(t)
    BY <1>6, <2>1, <2>3, MovedOut, MovedIn DEF InDone
  <2> QED
    BY <2>2, <2>3
<1>8. ASSUME NEW p \in req'[t].puts, new'[t][p] # None, ~MovesOut(t, p)' \/ old'[t][p] # None
      PROVE  live'[p] = None
  <2>1. p \in req[t].puts /\ p \in Paths /\ new[t][p] # None
    BY <1>1, <1>2, <1>6, <1>8
  <2>2. CASE p # StepPath(t)
    <3>1. old'[t][p] = old[t][p] /\ live'[p] = live[p]
      BY <2>1, <2>2, MovedOut, MovedIn
    <3> QED
      BY <1>2, <1>5, <1>8, <2>1, <3>1 DEF MovableAt
  <2>3. CASE p = StepPath(t)
    <3>1. CASE MoveOut(t)
      <4>1. CASE OutDone(t) /\ UNCHANGED <<live, old>>
        BY <1>2, <1>5, <1>8, <2>1, <4>1 DEF MovableAt
      <4> QED
        BY <2>3, <3>1, <4>1, MovedOut
    <3>2. CASE MoveIn(t)
      BY <1>8, <2>3, <3>2, MovedIn
    <3> QED
      BY <3>1, <3>2
  <2> QED
    BY <2>2, <2>3
<1>9. ASSUME phase'[t] = "swap", NEW i \in 1 .. at'[t] - 1 PROVE StepDone(t, i)'
  <2>1. CASE i # at[t]
    <3>1. i \in 1 .. at[t] - 1
      BY <1>3, <1>9, <2>1
    <3>2. StepDone(t, i)
      BY <1>1, <1>2, <3>1 DEF MovableAt, Swapping
    <3>3. steps[t][i] \in Step
      BY <1>1, <1>3, <3>1
    <3> QED
      BY <1>1, <1>6, <3>2, <3>3 DEF StepDone, Step
  <2>2. CASE i = at[t]
    BY <1>1, <1>3, <2>2, MovedOut, MovedIn DEF StepDone, AtStep
  <2> QED
    BY <2>1, <2>2
<1> QED
  BY <1>4, <1>7, <1>8, <1>9 DEF MovableAt

LEMMA MovableKept ==
  ASSUME MoveInv, MaxRenameFailures \in {0, 1}, Next
  PROVE  Movable'
<1> SUFFICES ASSUME NEW u \in Tokens, Journaled(u)'
             PROVE  MovableAt(u)'
  BY DEF Movable
<1>1. CASE WriteJournal(u)
  BY <1>1, WrittenMovable
<1>2. CASE MoveOut(u) \/ MoveIn(u)
  BY <1>2, MovingMovable
<1>3. CASE ~WriteJournal(u) /\ ~MoveOut(u) /\ ~MoveIn(u)
  <2>1. /\ Journaled(u) /\ phase[u] # "idle"
        /\ steps'[u] = steps[u] /\ req'[u] = req[u] /\ old'[u] = old[u] /\ new'[u] = new[u]
        /\ phase'[u] = "swap" => at'[u] = 1 \/ (phase[u] = "swap" /\ at'[u] = at[u])
    BY <1>3, JournalSteady
  <2>2. ~Open(u) \/ (\A p \in Paths : live'[p] = None <=> live[p] = None)
    BY <1>3, <2>1, FoldersStand
  <2> QED
    BY <2>1, <2>2, SameJournalMovable
<1> QED
  BY <1>1, <1>2, <1>3

-----------------------------------------------------------------------------
\* One journal at most has a move left.

\* A journal is open because it was, or was written just now.
LEMMA OpensWhenWritten ==
  ASSUME MoveInv, MaxRenameFailures \in {0, 1}, Next, NEW u \in Tokens, Open(u)'
  PROVE  /\ WriteJournal(u) \/ (Open(u) /\ Touched(u)' = Touched(u))
<1>1. Journaled(u)'
  BY DEF Open
<1>2. CASE ~WriteJournal(u) /\ ~MoveOut(u) /\ ~MoveIn(u)
  <2>1. /\ Journaled(u) /\ steps'[u] = steps[u] /\ req'[u] = req[u] /\ old'[u] = old[u]
        /\ new'[u] = new[u]
    BY <1>1, <1>2, JournalSteady
  <2> QED
    BY <2>1 DEF Open, StepDone, Touched
<1>3. CASE MoveOut(u) \/ MoveIn(u)
  <2>1. UNCHANGED <<dir, steps, req>>
    BY <1>3, MovedOut, MovedIn
  <2>2. PICK i \in DOMAIN steps'[u] : ~StepDone(u, i)'
    BY DEF Open
  <2>3. i \in DOMAIN steps[u] /\ steps[u] \in Seq(Step)
    BY <2>1, <2>2 DEF MoveInv, TypeOK
  <2>4. steps[u][i].path \in Paths
    <3>1. steps[u][i] \in Step
      BY <2>3
    <3> QED
      BY <3>1 DEF Step
  <2>5. \A p \in Paths : /\ old[u][p] # None => old'[u][p] # None
                         /\ new[u][p] = None => new'[u][p] = None
    BY <1>3, MovedOut, MovedIn DEF OutDone, InDone
  <2>6. ~StepDone(u, i)
    BY <2>1, <2>2, <2>4, <2>5 DEF StepDone
  <2> QED
    BY <1>1, <2>1, <2>3, <2>6 DEF Open, Journaled, Touched
<1> QED
  BY <1>2, <1>3

LEMMA OpenStaysHeld ==
  ASSUME MoveInv, MaxRenameFailures \in {0, 1}, Next, NEW u \in Tokens, Open(u), Open(u)'
  PROVE  holder' = u \/ server' \in {"down", "recovering"}
<1>0. TypeOK /\ Staged /\ Served /\ Movable /\ OneOpen
  BY DEF MoveInv
<1>1. Journaled(u) /\ phase[u] \notin Asking \cup {"idle", "cleared"}
  BY <1>0 DEF Open, Staged, StagedAt, Journaled
<1>2. None \notin Tokens /\ steps[u] \in Seq(Step)
  BY <1>0, NoneAssumption DEF TypeOK
<1>3. CASE holder = u
  <2>1. ASSUME NEW t \in Tokens, WriteFails(t) PROVE FALSE
    <3>1. phase[t] \in Asking /\ phase[t] \in Holding
      BY <2>1 DEF WriteFails, Asking, Holding
    <3> QED
      BY <1>0, <1>1, <1>3, <3>1 DEF Served
  <2>2. ASSUME NEW t \in Tokens, Refuse(t) \/ Lock(t) \/ RollForward(t) PROVE FALSE
    BY <1>2, <1>3, <2>2 DEF Refuse, Lock, CanLock, RollForward
  <2>3. ASSUME NEW t \in Tokens, StepFails(t) PROVE holder' = holder
    BY <2>3, FailsOnce
  <2>4. ASSUME NEW t \in Tokens, RemoveToken(t) PROVE FALSE
    BY <1>1, <1>3, <2>4 DEF RemoveToken
  <2>5. ASSUME NEW t \in Tokens, FinishFails(t) PROVE FALSE
    <3>1. t = u /\ Swapping(u) /\ at[u] = Len(steps[u]) + 1
      BY <1>1, <1>3, <2>5 DEF FinishFails
    <3>2. \A i \in 1 .. at[u] - 1 : StepDone(u, i)
      BY <1>0, <1>1, <3>1 DEF Movable, MovableAt, Swapping
    <3>3. \A i \in DOMAIN steps[u] : StepDone(u, i)
      BY <1>2, <3>1, <3>2
    <3> QED
      BY <3>3 DEF Open
  <2>6. Crash => server' = "down"
    BY DEF Crash
  <2> QED
    BY <1>3, <2>1, <2>2, <2>3, <2>4, <2>5, <2>6, HolderWriters
<1>4. CASE server \in {"down", "recovering"}
  <2>1. \A r \in Resolvers : RequeueDone(r) \/ RevertFails(r) => server' = server
    BY <1>4 DEF RequeueDone, RevertFails, Resolved, Resolver
  <2>2. ~Recovered
    BY <1>1 DEF Recovered, Journaled
  <2>3. \A t \in Tokens : StepFails(t) => server' = server
    BY FailsOnce
  <2> QED
    BY <1>4, <2>1, <2>2, <2>3, ServerWriters DEF Start, Crash
<1> QED
  BY <1>0, <1>3, <1>4 DEF OneOpen

\* The logs of what a restore touches are settled, and nobody writes another.
LEMMA NoLogComes ==
  ASSUME MoveInv, Next, NEW u \in Tokens, NEW p \in Touched(u) \cap Comps, wal[p] = None,
         holder = u \/ server # "up"
  PROVE  wal'[p] = None
<1>1. wal \in [Comps -> Comp \cup {None}]
  BY DEF MoveInv, TypeOK
<1>2. ASSUME NEW q \in Comps, NEW run \in {"no", "archive", "operator"}, Write(q, run)
      PROVE  wal'[p] = None
  <2>1. server = "up" /\ ~Locked(q)
    BY <1>2 DEF Write, Operation
  <2>2. holder = u /\ None \notin Tokens
    BY <2>1, NoneAssumption
  <2>3. q # p
    BY <2>1, <2>2 DEF Locked
  <2>4. wal' = wal \/ \E c : wal' = [wal EXCEPT ![q] = c]
    BY <1>2 DEF Write
  <2> QED
    BY <1>1, <2>3, <2>4
<1>3. \A t \in Tokens : Settle(t) => wal'[p] = None
  BY DEF Settle
<1>4. Start => wal'[p] = None
  BY DEF Start
<1> QED
  BY <1>1, <1>2, <1>3, <1>4, WalWriters

LEMMA OneOpenKept ==
  ASSUME MoveInv, MaxRenameFailures \in {0, 1}, Next
  PROVE  OneOpen'
<1>0. TypeOK /\ Staged /\ Served /\ Movable /\ OneOpen
  BY DEF MoveInv
<1>1. ASSUME NEW t \in Tokens, WriteJournal(t)
      PROVE  /\ holder = t /\ holder' = t /\ server = "up" /\ phase[t] = "noted"
             /\ wal' = wal /\ Touched(t)' = Touched(t)
  <2>1. phase[t] = "noted" /\ server = "up" /\ holder' = holder /\ wal' = wal /\ req' = req
    BY <1>1 DEF WriteJournal, Advance
  <2>2. holder = t
    BY <1>0, <2>1 DEF Served, Holding
  <2> QED
    BY <2>1, <2>2 DEF Touched
<1>2. ASSUME NEW t \in Tokens, NEW u \in Tokens, Open(t)', Open(u)'
      PROVE  t = u
  <2>1. ASSUME NEW v \in Tokens, NEW w \in Tokens, WriteJournal(v), Open(w)' PROVE w = v
    <3>1. holder = v /\ server = "up"
      BY <1>1, <2>1
    <3>2. WriteJournal(w) \/ Open(w)
      BY <2>1, OpensWhenWritten
    <3> QED
      BY <1>0, <1>1, <3>1, <3>2, NoneOpen
  <2>2. CASE Open(t) /\ Open(u)
    BY <1>0, <2>2 DEF OneOpen
  <2> QED
    BY <1>2, <2>1, <2>2, OpensWhenWritten
<1>3. ASSUME NEW t \in Tokens, Open(t)'
      PROVE  holder' = t \/ server' \in {"down", "recovering"}
  BY <1>1, <1>3, OpensWhenWritten, OpenStaysHeld
<1>4. ASSUME NEW t \in Tokens, Open(t)', NEW p \in Touched(t)' \cap Comps
      PROVE  wal'[p] = None
  <2>1. CASE WriteJournal(t)
    BY <1>0, <1>1, <1>4, <2>1 DEF OneOpen
  <2>2. CASE Open(t) /\ Touched(t)' = Touched(t)
    <3>1. wal[p] = None /\ (holder = t \/ server # "up")
      BY <1>0, <1>4, <2>2 DEF OneOpen
    <3> QED
      BY <1>4, <2>2, <3>1, NoLogComes
  <2> QED
    BY <1>4, <2>1, <2>2, OpensWhenWritten
<1>5. ASSUME NEW t \in Tokens, phase'[t] \in {"settled", "copied", "noted"},
             NEW p \in Touched(t)' \cap Comps
      PROVE  wal'[p] = None
  <2>0. phase \in [Tokens -> {"idle", "staged", "locked", "settled", "copied", "noted", "swap",
                              "cleared", "swapped", "resolving", "done"}]
        /\ req \in [Tokens -> Request \cup {None}]
    BY <1>0 DEF TypeOK
  <2>1. Settle(t) \/ phase[t] \in {"settled", "copied", "noted"}
    BY <1>5, <2>0, PhaseWriters DEF Stage, Refuse, WriteFails, GivesUp, Lock, Settle, SaveCopy,
       WriteRequeuePending, WriteJournal, Advance, StepFails, RemoveJournal, RemoveToken,
       FinishFails, Released, List, RequeueDone, RevertFails, Resolved, Crash, RollForward
  <2>2. CASE Settle(t)
    <3>1. req' = req /\ wal' = [q \in Comps |-> IF q \in {x \in Touched(t) \cap Comps : wal[x] # None}
                                                THEN None ELSE wal[q]]
      BY <2>2 DEF Settle, Advance
    <3>2. p \in Touched(t) \cap Comps
      BY <1>5, <3>1 DEF Touched
    <3> QED
      BY <3>1, <3>2
  <2>3. CASE phase[t] \in {"settled", "copied", "noted"}
    <3>1. holder = t /\ wal[p] = None /\ p \in Touched(t)
      <4>1. holder = t
        BY <1>0, <2>3 DEF Served, Holding
      <4>2. req'[t] = req[t]
        BY <2>0, <2>3, ReqWriters DEF Stage
      <4>3. p \in Touched(t) \cap Comps
        BY <1>5, <4>2 DEF Touched
      <4> QED
        BY <1>0, <2>3, <4>1, <4>3 DEF OneOpen
    <3> QED
      BY <1>5, <3>1, NoLogComes
  <2> QED
    BY <2>1, <2>2, <2>3
<1> QED
  BY <1>2, <1>3, <1>4, <1>5 DEF OneOpen

LEMMA MoveInvKept ==
  ASSUME MoveInv, MaxRenameFailures \in {0, 1}, Next
  PROVE  MoveInv'
BY TypesKept, StagedKept, ServedKept, MovableKept, OneOpenKept, RetriedKept DEF MoveInv

LEMMA MoveInvStutters ==
  ASSUME MoveInv, UNCHANGED vars
  PROVE  MoveInv'
<1>1. UNCHANGED <<live, wal, dir, new, old, steps, copies, pending, server, holder, phase, req, ids,
                  at, tries, todo, edits, committed, failures, crashes>>
  BY DEF vars, disk, ghosts
<1> QED
  BY <1>1 DEF MoveInv, TypeOK, Staged, StagedAt, Served, Movable, MovableAt, OutsFirst, MovesIn,
     MovesOut, OneOpen, Open, StepDone, Retried, Journaled, Touched

LEMMA MoveInvInit ==
  ASSUME Init
  PROVE  MoveInv
<1>1. PICK present \in SUBSET Comps, pw \in Passwords :
        live = [p \in Paths |-> IF p = Settings THEN [by |-> 0, pw |-> pw]
                                ELSE IF p \in present THEN [by |-> 0, run |-> "no"] ELSE None]
  BY DEF Init
<1>2. live \in Folders
  <2>1. 0 \in 0 .. MaxEdits \cup Tokens
    BY BoundsAssumption
  <2>2. [by |-> 0, pw |-> pw] \in Setting /\ [by |-> 0, run |-> "no"] \in Comp
    BY <2>1 DEF Setting, Comp
  <2>3. \A p \in Paths : live[p] \in Content(p)
    BY <1>1, <2>2 DEF Content
  <2>4. live \in [Paths -> Comp \cup Setting \cup {None}]
    BY <1>1, <2>2
  <2> QED
    BY <2>3, <2>4, FolderHolds
<1>3. /\ wal = [p \in Comps |-> None] /\ dir = [t \in Tokens |-> "none"]
      /\ new = [t \in Tokens |-> Nothing] /\ old = [t \in Tokens |-> Nothing]
      /\ steps = [t \in Tokens |-> <<>>] /\ copies = {} /\ pending = {}
      /\ server = "up" /\ holder = None /\ phase = [t \in Tokens |-> "idle"]
      /\ req = [t \in Tokens |-> None] /\ ids = [t \in Tokens |-> {}]
      /\ at = [t \in Tokens |-> 1] /\ tries = [t \in Tokens |-> 1]
      /\ todo = [r \in Resolvers |-> NothingToDo]
      /\ edits = 0 /\ committed = {} /\ failures = 0 /\ crashes = 0
  BY DEF Init
<1>4. NothingToDo \in [Comps -> {"no", "listed", "reverted"}] /\ <<>> \in Seq(Step) /\ Len(<<>>) = 0
  BY DEF NothingToDo
<1>5. TypeOK
  BY <1>2, <1>3, <1>4, EmptyFolder, BoundsAssumption DEF TypeOK
<1>6. Staged /\ Retried
  BY <1>3, EmptyFolder DEF Staged, StagedAt, Retried, Asking, Journaled
<1>7. Served /\ Movable /\ OneOpen
  BY <1>3, NoneAssumption DEF Served, Holding, Movable, OneOpen, Open, Journaled
<1> QED
  BY <1>5, <1>6, <1>7 DEF MoveInv

-----------------------------------------------------------------------------
\* The journals of any restores, crashes and faults can be run to their end.
THEOREM JournalInvariant ==
  ASSUME MaxRenameFailures \in {0, 1}
  PROVE  Spec => []MoveInv
<1>1. Init => MoveInv
  BY MoveInvInit
<1>2. MoveInv /\ [Next]_vars => MoveInv'
  BY MoveInvKept, MoveInvStutters
<1> QED
  BY <1>1, <1>2, PTL DEF Spec

\* The roll forward of a start never meets a rename it cannot make
\* (rollForwardRestores), so a stopped restore never keeps the server down.
THEOREM StartsAreServed ==
  ASSUME MaxRenameFailures \in {0, 1}
  PROVE  Spec => []StartNeverRefused
<1>1. MoveInv => StartNeverRefused
  BY DEF MoveInv, Served, StartNeverRefused
<1> QED
  BY <1>1, JournalInvariant, PTL

-----------------------------------------------------------------------------
(***************************************************************************)
(* What is archived running, or left to a log, is known to the files       *)
(* beside it: the argument needs that no restore swaps while another one's *)
(* matches go back to the queue.                                           *)
(***************************************************************************)

LEMMA OneResolverKept ==
  ASSUME RestoreInv, MaxRenameFailures \in {0, 1}, Overlap = FALSE, Next
  PROVE  OneResolver'
<1>0. MoveInv /\ TypeOK /\ Staged /\ Served /\ OneResolver
  BY DEF RestoreInv, MoveInv
<1>t. /\ phase \in [Tokens -> {"idle", "staged", "locked", "settled", "copied", "noted", "swap",
                               "cleared", "swapped", "resolving", "done"}]
      /\ todo \in [Resolvers -> [Comps -> {"no", "listed", "reverted"}]]
      /\ None \notin Tokens /\ Startup \notin Tokens
  BY <1>0, NoneAssumption DEF TypeOK
<1>1. ASSUME NEW t \in Tokens, RemoveToken(t) \/ FinishFails(t)
      PROVE  OneResolver'
  <2>1. /\ holder = t /\ holder' = None /\ todo' = todo /\ server' = server
        /\ \E to : phase' = [phase EXCEPT ![t] = to]
        /\ phase[t] \in {"swap", "cleared"}
    BY <1>1 DEF RemoveToken, FinishFails, Released, Swapping
  <2>2. \A u \in Tokens : ~Resolving(u)
    BY <1>0, <1>t, <2>1 DEF OneResolver
  <2>3. \A u \in Tokens \ {t} : phase'[u] = phase[u]
    BY <1>t, <2>1
  <2>4. \A u \in Tokens : todo[u] = NothingToDo
    BY <1>0, <2>2 DEF OneResolver, Resolving
  <2> QED
    BY <1>0, <2>1, <2>2, <2>3, <2>4 DEF OneResolver, Resolving
<1>2. ASSUME NEW t \in Tokens, NEW to \in {"staged", "done", "locked", "settled", "copied", "noted",
                                           "swap", "cleared"},
             phase' = [phase EXCEPT ![t] = to], phase[t] # "resolving",
             holder' \in {holder, None} \/ \A u \in Tokens : ~Resolving(u),
             todo' = todo, server' = server
      PROVE  OneResolver'
  <2>1. \A u \in Tokens : phase'[u] = IF u = t THEN to ELSE phase[u]
    BY <1>t, <1>2
  <2>2. \A u \in Tokens : Resolving(u)' => Resolving(u)
    BY <2>1 DEF Resolving
  <2> QED
    BY <1>0, <1>2, <2>1, <2>2 DEF OneResolver
<1>3. ASSUME NEW t \in Tokens, NEW r \in Requests, Stage(t, r)
      PROVE  OneResolver'
  BY <1>2, <1>3 DEF Stage
<1>4. ASSUME NEW t \in Tokens, Refuse(t) \/ WriteFails(t)
      PROVE  OneResolver'
  BY <1>2, <1>4 DEF Refuse, CanLock, WriteFails, GivesUp
<1>5. ASSUME NEW t \in Tokens, Lock(t)
      PROVE  OneResolver'
  <2>1. \A u \in Tokens : ~Resolving(u)
    BY <1>5 DEF Lock, CanLock
  <2> QED
    BY <1>2, <1>5, <2>1 DEF Lock, CanLock
<1>6. ASSUME NEW t \in Tokens,
             \/ Settle(t) \/ SaveCopy(t) \/ WriteRequeuePending(t) \/ WriteJournal(t)
             \/ RemoveJournal(t)
      PROVE  OneResolver'
  BY <1>2, <1>6 DEF Settle, SaveCopy, WriteRequeuePending, WriteJournal, Advance, RemoveJournal,
     Swapping
<1>7. ASSUME NEW t \in Tokens, StepFails(t)
      PROVE  UNCHANGED <<server, holder, phase, todo>>
  BY <1>0, <1>7, FailsOnce
<1>8. ASSUME NEW t \in Tokens, List(t)
      PROVE  OneResolver'
  <2>1. /\ phase[t] = "swapped" /\ holder = None /\ UNCHANGED <<holder, server>>
        /\ phase' = [phase EXCEPT ![t] = "resolving"] /\ \E L : todo' = [todo EXCEPT ![t] = L]
    BY <1>8 DEF List
  <2>2. \A u \in Tokens : phase'[u] = IF u = t THEN "resolving" ELSE phase[u]
    BY <1>t, <2>1
  <2>3. \A r \in Resolvers \ {t} : todo'[r] = todo[r]
    BY <1>t, <2>1
  <2>4. Tokens \subseteq Resolvers /\ Startup \in Resolvers \ {t}
    BY <1>t DEF Resolvers
  <2>5. \A u \in Tokens : Resolving(u)' <=> Resolving(u)
    BY <2>1, <2>2 DEF Resolving
  <2> QED
    BY <1>0, <2>1, <2>2, <2>3, <2>4, <2>5 DEF OneResolver
<1>9. ASSUME NEW t \in Tokens, RollForward(t)
      PROVE  OneResolver'
  <2>1. \A u \in Tokens : ~Resolving(u)
    BY <1>0, <1>9 DEF RollForward, Served, Stopped, Resolving
  <2>2. phase[t] # "resolving"
    BY <2>1 DEF Resolving
  <2> QED
    BY <1>2, <1>9, <2>1, <2>2 DEF RollForward
<1>10. ASSUME NEW r \in Resolvers, RequeueDone(r) \/ RevertFails(r)
       PROVE  OneResolver'
  <2>1. /\ holder' = holder /\ Resolver(r)
        /\ \/ r = Startup /\ server' = "up" /\ phase' = phase
           \/ r # Startup /\ phase' = [phase EXCEPT ![r] = "done"] /\ server' = server
    BY <1>10 DEF RequeueDone, RevertFails, Resolved
  <2>2. todo'[r] = NothingToDo /\ \A q \in Resolvers \ {r} : todo'[q] = todo[q]
    BY <1>t, <1>10 DEF RequeueDone, RevertFails
  <2>3. Tokens \subseteq Resolvers /\ Startup \in Resolvers
    BY DEF Resolvers
  <2>4. \A u \in Tokens : /\ Resolving(u)' => Resolving(u)
                          /\ u # r => phase'[u] = phase[u]
    BY <1>t, <2>1 DEF Resolving
  <2>5. r # Startup => server' = server
    BY <2>1
  <2> QED
    BY <1>0, <1>t, <2>1, <2>2, <2>3, <2>4, <2>5 DEF OneResolver
<1>11. ASSUME NEW r \in Resolvers, NEW p \in Comps, Revert(r, p) \/ RemoveRequeuePending(r, p)
       PROVE  OneResolver'
  <2>1. /\ todo[r][p] # "no" /\ UNCHANGED <<server, holder, phase>>
        /\ \E L : todo' = [todo EXCEPT ![r] = L]
    BY <1>11 DEF Revert, RemoveRequeuePending
  <2>2. todo[r] # NothingToDo
    BY <2>1 DEF NothingToDo
  <2>3. \A q \in Resolvers \ {r} : todo'[q] = todo[q]
    BY <1>t, <2>1
  <2>4. Tokens \subseteq Resolvers /\ Startup \in Resolvers
    BY DEF Resolvers
  <2> QED
    BY <1>0, <2>1, <2>2, <2>3, <2>4 DEF OneResolver, Resolving
<1>12. ASSUME Start
       PROVE  OneResolver'
  BY <1>0, <1>12 DEF Start, OneResolver, Resolving
<1>13. ASSUME Recovered
       PROVE  OneResolver'
  <2>1. /\ server = "recovering" /\ server' = "requeue" /\ UNCHANGED <<holder, phase>>
        /\ todo' = [todo EXCEPT ![Startup] = Listed(Startup)]
    BY <1>13 DEF Recovered
  <2>2. \A u \in Tokens : todo'[u] = todo[u]
    BY <1>t, <2>1
  <2> QED
    BY <1>0, <2>1, <2>2 DEF OneResolver, Resolving
<1>14. ASSUME Crash
       PROVE  OneResolver'
  <2>1. /\ \A u \in Tokens : phase'[u] \in {"idle", "done"}
        /\ todo' = [r \in Resolvers |-> NothingToDo] /\ holder' = None
    BY <1>14 DEF Crash
  <2>2. \A u \in Tokens : ~Resolving(u)'
    BY <2>1 DEF Resolving
  <2>3. \A r \in Tokens \cup {Startup} : todo'[r] = NothingToDo
    BY <2>1 DEF Resolvers
  <2> QED
    BY <2>1, <2>2, <2>3 DEF OneResolver
<1>15. ASSUME UNCHANGED <<server, holder, phase, todo>>
       PROVE  OneResolver'
  BY <1>0, <1>15 DEF OneResolver, Resolving
<1>16. OneResolver' \/ phase' = phase
  BY <1>1, <1>3, <1>4, <1>5, <1>6, <1>7, <1>8, <1>9, <1>10, <1>14, PhaseWriters
<1>17. OneResolver' \/ holder' = holder
  BY <1>1, <1>4, <1>5, <1>7, <1>9, <1>14, HolderWriters
<1>18. OneResolver' \/ server' = server
  BY <1>7, <1>10, <1>12, <1>13, <1>14, ServerWriters
<1>19. OneResolver' \/ todo' = todo
  BY <1>8, <1>10, <1>11, <1>13, <1>14, TodoWriters
<1> QED
  BY <1>15, <1>16, <1>17, <1>18, <1>19

\* While a resolver works, no journal has a move left and nobody holds the locks.
LEMMA ResolverWorksAlone ==
  ASSUME MoveInv, OneResolver, NEW r \in Resolvers, NEW p \in Comps, todo[r][p] # "no"
  PROVE  /\ holder = None /\ \A t \in Tokens : ~Open(t) /\ phase[t] \notin Holding
         /\ \A q \in Resolvers \ {r} : todo[q] = NothingToDo
<1>0. TypeOK /\ Served /\ OneOpen /\ None \notin Tokens /\ Startup \notin Tokens
  BY NoneAssumption DEF MoveInv
<1>1. todo[r] # NothingToDo
  BY DEF NothingToDo
<1>2. CASE r = Startup
  <2>1. server = "requeue"
    BY <1>1, <1>2 DEF OneResolver
  <2>2. holder = None /\ \A t \in Tokens : dir[t] = "none" /\ phase[t] # "resolving"
    BY <1>0, <2>1 DEF Served, TypeOK, Stopped
  <2> QED
    BY <1>0, <1>2, <2>2 DEF Open, Journaled, OneResolver, Resolvers, Served
<1>3. CASE r \in Tokens
  <2>1. phase[r] = "resolving" /\ Resolving(r)
    BY <1>1, <1>3 DEF OneResolver, Resolving
  <2>2. holder = None /\ server = "up"
    BY <1>0, <1>3, <2>1 DEF OneResolver, Served, Stopped
  <2>3. todo[Startup] = NothingToDo
    BY <2>2 DEF OneResolver
  <2>4. \A q \in Tokens \ {r} : todo[q] = NothingToDo
    BY <1>3, <2>1 DEF OneResolver, Resolving
  <2> QED
    BY <1>0, <2>2, <2>3, <2>4, NoneOpen DEF Resolvers, Served
<1> QED
  BY <1>2, <1>3 DEF Resolvers

\* A log holds what its folder does already, so replaying it changes nothing.
LEMMA ReplayIsIdle ==
  ASSUME TypeOK, Noted, Start \/ \E t \in Tokens : Settle(t)
  PROVE  live' = live
<1>1. \A p \in Comps : wal[p] # None => live[p] = wal[p]
  BY DEF Noted
<1>2. live \in [Paths -> Comp \cup Setting \cup {None}]
  BY DEF TypeOK, Folders
<1>3. ASSUME NEW S \in SUBSET {p \in Comps : wal[p] # None},
             live' = [p \in Paths |-> IF p \in S THEN wal[p] ELSE live[p]]
      PROVE  live' = live
  BY <1>1, <1>2, <1>3
<1>4. CASE Start
  <2> DEFINE S == {p \in Comps : wal[p] # None /\ live[p] # None}
  <2>1. live' = [p \in Paths |-> IF p \in S THEN wal[p] ELSE live[p]]
    BY <1>4 DEF Start
  <2>2. S \in SUBSET {p \in Comps : wal[p] # None}
    OBVIOUS
  <2> HIDE DEF S
  <2> QED
    BY <1>3, <2>1, <2>2
<1>5. ASSUME NEW t \in Tokens, Settle(t) PROVE live' = live
  <2> DEFINE S == {p \in Touched(t) \cap Comps : wal[p] # None}
  <2>1. live' = [p \in Paths |-> IF p \in S THEN wal[p] ELSE live[p]]
    BY <1>5 DEF Settle
  <2>2. S \in SUBSET {p \in Comps : wal[p] # None}
    OBVIOUS
  <2> HIDE DEF S
  <2> QED
    BY <1>3, <2>1, <2>2
<1> QED
  BY <1>4, <1>5

\* What one operation changes.
LEMMA Operated ==
  ASSUME TypeOK, NEW p \in Comps,
         Create(p) \/ Delete(p) \/ \E run \in {"no", "archive", "operator"} : Write(p, run)
  PROVE  /\ server = "up" /\ edits' = edits + 1 /\ p \in Paths /\ p # Settings
         /\ \A q \in Paths \ {p} : live'[q] = live[q]
         /\ live'[p] # None => live'[p].by = edits + 1
         /\ IsArchive(live'[p]) => IsArchive(live[p])
         /\ UNCHANGED <<dir, new, old, steps, copies, pending, server, holder, phase, req, ids, at,
                        tries, todo, committed, failures, crashes>>
<1>1. p \in Paths /\ p # Settings /\ live \in [Paths -> Comp \cup Setting \cup {None}]
  BY PathsAssumption DEF TypeOK, Folders, Paths
<1>2. CASE Create(p)
  <2>1. live' = [live EXCEPT ![p] = [by |-> edits + 1, run |-> "no"]]
    BY <1>2 DEF Create, Operation
  <2>2. live'[p] = [by |-> edits + 1, run |-> "no"] /\ \A q \in Paths \ {p} : live'[q] = live[q]
    BY <1>1, <2>1
  <2> QED
    BY <1>1, <1>2, <2>2 DEF Create, Operation, staging, IsArchive
<1>3. CASE Delete(p)
  <2>1. live' = [live EXCEPT ![p] = None]
    BY <1>3 DEF Delete, Operation
  <2>2. live'[p] = None /\ \A q \in Paths \ {p} : live'[q] = live[q]
    BY <1>1, <2>1
  <2> QED
    BY <1>1, <1>3, <2>2 DEF Delete, Operation, staging, IsArchive
<1>4. ASSUME NEW run \in {"no", "archive", "operator"}, Write(p, run)
      PROVE  /\ server = "up" /\ edits' = edits + 1
             /\ \A q \in Paths \ {p} : live'[q] = live[q]
             /\ live'[p] # None => live'[p].by = edits + 1
             /\ IsArchive(live'[p]) => IsArchive(live[p])
             /\ UNCHANGED <<dir, new, old, steps, copies, pending, server, holder, phase, req, ids,
                            at, tries, todo, committed, failures, crashes>>
  <2>1. live' = [live EXCEPT ![p] = [by |-> edits + 1, run |-> run]]
    BY <1>4 DEF Write, Operation
  <2>2. live'[p] = [by |-> edits + 1, run |-> run] /\ \A q \in Paths \ {p} : live'[q] = live[q]
    BY <1>1, <2>1
  <2>3. run = "archive" => live[p] # None /\ live[p].run = "archive"
    BY <1>4 DEF Write
  <2>4. IsArchive(live'[p]) => IsArchive(live[p])
    BY <2>2, <2>3 DEF IsArchive
  <2>5. live'[p] # None => live'[p].by = edits + 1
    BY <2>2
  <2> QED
    BY <1>4, <2>2, <2>4, <2>5 DEF Write, Operation, staging
<1> QED
  BY <1>1, <1>2, <1>3, <1>4

LEMMA SettingsSaved ==
  ASSUME TypeOK, NEW pw \in Passwords, SaveSettings(pw)
  PROVE  /\ server = "up" /\ edits' = edits + 1 /\ holder = None
         /\ \A q \in Comps : live'[q] = live[q]
         /\ live'[Settings].by = edits + 1
         /\ UNCHANGED <<dir, new, old, steps, copies, pending, server, holder, phase, req, ids, at,
                        tries, todo, committed, failures, crashes, wal>>
<1>1. Settings \in Paths /\ Comps \subseteq Paths /\ live \in [Paths -> Comp \cup Setting \cup {None}]
      /\ Settings \notin Comps
  BY PathsAssumption DEF TypeOK, Folders, Paths
<1>2. live' = [live EXCEPT ![Settings] = [by |-> edits + 1, pw |-> pw]]
  BY DEF SaveSettings, Operation
<1>3. live'[Settings] = [by |-> edits + 1, pw |-> pw] /\ \A q \in Comps : live'[q] = live[q]
  BY <1>1, <1>2
<1> QED
  BY <1>3 DEF SaveSettings, Operation, Locked, staging

\* A match that is sent back does not run any more.
LEMMA Reverted ==
  ASSUME TypeOK, NEW r \in Resolvers, NEW p \in Comps, Revert(r, p)
  PROVE  /\ todo[r][p] = "listed" /\ p \in Paths /\ p # Settings
         /\ ~IsArchive(live'[p]) /\ \A q \in Paths \ {p} : live'[q] = live[q]
         /\ live' = live \/ (live[p] # None /\ live' = [live EXCEPT ![p].run = "no"])
         /\ todo' = [todo EXCEPT ![r][p] = "reverted"]
         /\ UNCHANGED <<wal, dir, new, old, steps, copies, pending, server, holder, phase, req, ids,
                        at, tries, edits, committed, failures, crashes>>
<1>1. p \in Paths /\ p # Settings /\ live \in [Paths -> Comp \cup Setting \cup {None}]
      /\ live[p] \in Comp \cup {None}
  BY PathsAssumption DEF TypeOK, Folders, Paths
<1>2. CASE Running(p)
  <2> DEFINE c == [live[p] EXCEPT !.run = "no"]
  <2>1. live[p] \in Comp /\ live' = [live EXCEPT ![p] = c]
    BY <1>1, <1>2 DEF Revert, Running
  <2>2. c.run = "no"
    BY <2>1 DEF Comp
  <2> HIDE DEF c
  <2>3. live'[p] = c /\ \A q \in Paths \ {p} : live'[q] = live[q]
    BY <1>1, <2>1
  <2> QED
    BY <1>1, <1>2, <2>2, <2>3 DEF Revert, Running, IsArchive, staging, ghosts
<1>3. CASE ~Running(p)
  BY <1>1, <1>3 DEF Revert, Running, IsArchive, staging, ghosts
<1> QED
  BY <1>2, <1>3

\* Only a move in brings back a match that the backup has running.
LEMMA ArchiveComes ==
  ASSUME RestoreInv, Next, NEW p \in Comps, IsArchive(live'[p])
  PROVE  \/ IsArchive(live[p])
         \/ \E t \in Tokens : /\ MoveIn(t) /\ holder = t /\ Journaled(t) /\ ~InDone(t)
                              /\ StepPath(t) = p /\ live'[p] = new[t][p]
<1>0. MoveInv /\ TypeOK /\ Staged /\ Noted /\ p \in Paths /\ Settings \notin Comps
  BY PathsAssumption DEF RestoreInv, MoveInv, Paths
<1>1. ASSUME NEW q \in Comps,
             Create(q) \/ Delete(q) \/ \E run \in {"no", "archive", "operator"} : Write(q, run)
      PROVE  IsArchive(live[p])
  <2>1. CASE q = p
    BY <1>0, <1>1, <2>1, Operated
  <2>2. CASE q # p
    <3>1. live'[p] = live[p]
      BY <1>0, <1>1, <2>2, Operated
    <3> QED
      BY <3>1
  <2> QED
    BY <2>1, <2>2
<1>2. ASSUME NEW pw \in Passwords, SaveSettings(pw) PROVE IsArchive(live[p])
  <2>1. live'[p] = live[p]
    BY <1>0, <1>2, SettingsSaved
  <2> QED
    BY <2>1
<1>3. ASSUME NEW r \in Resolvers, NEW q \in Comps, Revert(r, q) PROVE IsArchive(live[p])
  <2>1. q # p /\ live'[p] = live[p]
    BY <1>0, <1>3, Reverted
  <2> QED
    BY <2>1
<1>4. ASSUME NEW t \in Tokens, MoveOut(t) PROVE IsArchive(live[p])
  <2>1. live'[p] = live[p] \/ live'[p] = None
    BY <1>0, <1>4, MovedOut
  <2> QED
    BY <2>1 DEF IsArchive
<1>5. ASSUME NEW t \in Tokens, MoveIn(t), ~IsArchive(live[p])
      PROVE  /\ holder = t /\ Journaled(t) /\ ~InDone(t)
             /\ StepPath(t) = p /\ live'[p] = new[t][p]
  <2>1. live'[p] # live[p]
    BY <1>5
  <2>2. p = StepPath(t) /\ ~InDone(t) /\ live'[StepPath(t)] = new[t][StepPath(t)] /\ Swapping(t)
    BY <1>0, <1>5, <2>1, MovedIn DEF AtStep
  <2> QED
    BY <1>0, <2>2 DEF Swapping, Staged, StagedAt
<1>6. Start \/ (\E t \in Tokens : Settle(t)) => live' = live
  BY <1>0, ReplayIsIdle
<1> QED
  BY <1>1, <1>2, <1>3, <1>4, <1>5, <1>6, LiveWriters

LEMMA NotedKept ==
  ASSUME RestoreInv, MaxRenameFailures \in {0, 1}, Overlap = FALSE, Next
  PROVE  Noted'
<1>0. MoveInv /\ TypeOK /\ Staged /\ Served /\ OneOpen /\ OneResolver /\ Noted
  BY DEF RestoreInv, MoveInv
<1>t. /\ phase \in [Tokens -> {"idle", "staged", "locked", "settled", "copied", "noted", "swap",
                               "cleared", "swapped", "resolving", "done"}]
      /\ todo \in [Resolvers -> [Comps -> {"no", "listed", "reverted"}]]
      /\ dir \in [Tokens -> {"none", "staged", "journaled"}] /\ new \in [Tokens -> Folders]
      /\ wal \in [Comps -> Comp \cup {None}] /\ pending \subseteq Comps
      /\ None \notin Tokens /\ Comps \subseteq Paths /\ Settings \notin Comps
  BY <1>0, NoneAssumption, PathsAssumption DEF TypeOK, Paths
<1>1. ASSUME NEW p \in Comps, p \in pending, p \notin pending'
      PROVE  \E r \in Resolvers : RemoveRequeuePending(r, p)
  BY <1>1, PendingWriters DEF WriteRequeuePending, RemoveRequeuePending
<1>2. ASSUME NEW p \in Comps, IsArchive(live'[p])
      PROVE  p \in pending'
  <2>1. CASE IsArchive(live[p])
    <3>1. p \in pending /\ \A r \in Resolvers : ~RemoveRequeuePending(r, p)
      BY <1>0, <2>1 DEF Noted, RemoveRequeuePending
    <3> QED
      BY <1>1, <3>1
  <2>2. ASSUME NEW t \in Tokens, MoveIn(t), Journaled(t), live'[p] = new[t][p] PROVE p \in pending'
    <3>1. p \in pending
      BY <1>0, <1>2, <2>2 DEF Noted
    <3>2. pending' = pending
      BY <2>2 DEF MoveIn, NextStep
    <3> QED
      BY <3>1, <3>2
  <2> QED
    BY <1>2, <2>1, <2>2, ArchiveComes
<1>3. ASSUME NEW t \in Tokens, NEW p \in Comps, IsArchive(new'[t][p]), ~IsArchive(new[t][p])
      PROVE  p \in ArchiveRuns /\ ~Journaled(t)' /\ phase'[t] # "noted"
  <2>1. ASSUME NEW u \in Tokens, NEW r \in Requests, Stage(u, r)
        PROVE  p \in ArchiveRuns /\ ~Journaled(t)' /\ phase'[t] # "noted"
    <3> DEFINE F == [q \in Paths |-> IF q \in r.puts THEN Archived(u, q) ELSE None]
    <3>1. /\ new' = [new EXCEPT ![u] = F] /\ dir' = [dir EXCEPT ![u] = "staged"]
          /\ phase' = [phase EXCEPT ![u] = "staged"]
      BY <2>1 DEF Stage
    <3>2. F[p] # None => F[p] = Archived(u, p)
      BY <1>t
    <3>3. p \in Paths /\ p # Settings
      BY <1>t
    <3>4. IsArchive(F[p]) => p \in ArchiveRuns
      BY <1>0, <3>2, <3>3, ArchivedContent DEF IsArchive
    <3> HIDE DEF F
    <3>5. t = u
      BY <1>3, <1>t, <3>1
    <3> QED
      BY <1>3, <1>t, <3>1, <3>4, <3>5 DEF Journaled
  <2>2. ASSUME NEW u \in Tokens,
               Refuse(u) \/ WriteFails(u) \/ RemoveToken(u) \/ RemoveStaging(u)
        PROVE  FALSE
    <3>1. new' = [new EXCEPT ![u] = Nothing] /\ Nothing[p] = None
      BY <1>t, <2>2 DEF Refuse, WriteFails, GivesUp, RemoveToken, RemoveStaging, Nothing
    <3> QED
      BY <1>3, <1>t, <3>1 DEF IsArchive
  <2>3. ASSUME NEW u \in Tokens, Lock(u) PROVE FALSE
    <3> DEFINE c == IF Settings \in req[u].puts THEN Archived(u, Settings) ELSE None
               F == [new[u] EXCEPT ![Settings] = c]
    <3>1. new' = [new EXCEPT ![u] = F]
      BY <2>3 DEF Lock
    <3> HIDE DEF c
    <3>2. F[p] = new[u][p]
      BY <1>t DEF Folders
    <3> HIDE DEF F
    <3> QED
      BY <1>3, <1>t, <3>1, <3>2
  <2>4. ASSUME NEW u \in Tokens, MoveIn(u) PROVE FALSE
    <3>1. new'[t][p] = new[t][p] \/ new'[t][p] = None
      BY <1>0, <1>t, <2>4, MovedIn
    <3> QED
      BY <1>3, <3>1 DEF IsArchive
  <2> QED
    BY <1>3, <2>1, <2>2, <2>3, <2>4, NewWriters
<1>4. ASSUME NEW t \in Tokens, NEW p \in Comps, IsArchive(new'[t][p])
      PROVE  p \in ArchiveRuns
  BY <1>0, <1>3, <1>4 DEF Noted
<1>5. ASSUME NEW t \in Tokens, NEW p \in Comps, IsArchive(new'[t][p]),
             Journaled(t)' \/ phase'[t] = "noted"
      PROVE  p \in pending'
  <2>1. IsArchive(new[t][p]) /\ p \in ArchiveRuns
    BY <1>0, <1>3, <1>5 DEF Noted
  <2>2. CASE WriteRequeuePending(t)
    <3>1. phase[t] = "copied" /\ pending' = pending \cup (req[t].puts \cap ArchiveRuns)
      BY <2>2 DEF WriteRequeuePending, Advance
    <3>2. p \in req[t].puts
      BY <1>0, <1>t, <2>1 DEF Staged, StagedAt, IsArchive
    <3> QED
      BY <2>1, <3>1, <3>2
  <2>3. CASE ~WriteRequeuePending(t)
    <3>1. Journaled(t) \/ phase[t] = "noted"
      <4>1. WriteJournal(t) => phase[t] = "noted"
        BY DEF WriteJournal, Advance
      <4>2. Journaled(t)' => Journaled(t) \/ WriteJournal(t)
        BY <1>t, DirWriters DEF Journaled, Stage, Refuse, WriteFails, GivesUp, WriteJournal,
           RemoveJournal, RemoveToken, RemoveStaging
      <4>3. phase'[t] = "noted" => phase[t] = "noted"
        <5>1. ASSUME NEW u \in Tokens, WriteRequeuePending(u) PROVE phase'[t] = phase[t]
          <6>1. u # t /\ phase' = [phase EXCEPT ![u] = "noted"]
            BY <2>3, <5>1 DEF WriteRequeuePending, Advance
          <6> QED
            BY <1>t, <6>1
        <5> QED
          BY <1>t, <5>1, PhaseWriters DEF Stage, Refuse, WriteFails, GivesUp, Lock, Settle, SaveCopy,
             WriteJournal, Advance, StepFails, RemoveJournal, RemoveToken, FinishFails, Released,
             List, RequeueDone, RevertFails, Resolved, Crash, RollForward
      <4> QED
        BY <1>5, <4>1, <4>2, <4>3
    <3>2. p \in pending
      BY <1>0, <2>1, <3>1 DEF Noted
    <3>3. ASSUME NEW r \in Resolvers, RemoveRequeuePending(r, p) PROVE FALSE
      <4>1. todo[r][p] # "no"
        BY <3>3 DEF RemoveRequeuePending
      <4>2. ~Open(t) /\ phase[t] \notin Holding
        BY <1>0, <4>1, ResolverWorksAlone
      <4>3. Journaled(t) /\ new[t][p] = None
        BY <1>0, <1>t, <3>1, <4>2, ClosedJournal DEF Holding, MoveInv
      <4> QED
        BY <2>1, <4>3 DEF IsArchive
    <3> QED
      BY <1>1, <3>2, <3>3
  <2> QED
    BY <2>2, <2>3
<1>6. ASSUME NEW r \in Resolvers, NEW p \in Comps, todo'[r][p] = "reverted"
      PROVE  ~IsArchive(live'[p])
  <2>1. CASE todo[r][p] = "reverted"
    <3>1. ~IsArchive(live[p]) /\ holder = None
      BY <1>0, <2>1, ResolverWorksAlone DEF Noted
    <3> QED
      BY <1>t, <3>1, ArchiveComes
  <2>2. CASE todo[r][p] # "reverted"
    <3>1. \A q \in Resolvers : Listed(q)[p] # "reverted"
      BY DEF Listed
    <3>2. Revert(r, p)
      <4>1. ASSUME NEW q \in Resolvers, NEW x \in Comps, Revert(q, x) PROVE q = r /\ x = p
        BY <1>6, <1>t, <2>2, <4>1 DEF Revert
      <4>2. ~\E q \in Resolvers, x \in Comps : RemoveRequeuePending(q, x)
        BY <1>6, <1>t, <2>2 DEF RemoveRequeuePending
      <4>3. ~\E q \in Resolvers : RevertFails(q)
        BY <1>6, <1>t, <2>2 DEF RevertFails, NothingToDo
      <4>4. ~Crash /\ ~Recovered /\ ~\E t \in Tokens : List(t)
        BY <1>6, <1>t, <2>2, <3>1 DEF Crash, Recovered, List, NothingToDo, Resolvers
      <4> QED
        BY <1>6, <2>2, <4>1, <4>2, <4>3, <4>4, TodoWriters
    <3> QED
      BY <1>0, <3>2, Reverted
  <2> QED
    BY <2>1, <2>2
<1>7. ASSUME NEW r \in Resolvers, NEW p \in Comps, todo'[r][p] = "listed"
      PROVE  p \in pending'
  <2>1. CASE todo[r][p] = "listed"
    <3>1. ASSUME NEW q \in Resolvers, RemoveRequeuePending(q, p) PROVE FALSE
      <4>1. todo[q][p] = "reverted" /\ todo' = [todo EXCEPT ![q][p] = "no"]
        BY <3>1 DEF RemoveRequeuePending
      <4>2. q # r /\ todo[q] = NothingToDo
        BY <1>0, <1>t, <2>1, <4>1, ResolverWorksAlone
      <4> QED
        BY <4>1, <4>2 DEF NothingToDo
    <3> QED
      BY <1>0, <1>1, <2>1, <3>1 DEF Noted
  <2>2. CASE todo[r][p] # "listed"
    <3>1. \A q \in Resolvers : Listed(q)[p] = "listed" => p \in pending
      BY DEF Listed
    <3>2. \A q \in Resolvers : \A x \in Comps : ~Revert(q, x) /\ ~RemoveRequeuePending(q, x)
      BY <1>7, <1>t, <2>2 DEF Revert, RemoveRequeuePending
    <3>3. ~\E q \in Resolvers : RevertFails(q)
      BY <1>7, <1>t, <2>2 DEF RevertFails, NothingToDo
    <3>4. ~Crash
      BY <1>7 DEF Crash, NothingToDo
    <3>5. Recovered \/ \E t \in Tokens : List(t)
      BY <1>7, <2>2, <3>2, <3>3, <3>4, TodoWriters
    <3>6. pending' = pending /\ \E q \in Resolvers : todo' = [todo EXCEPT ![q] = Listed(q)]
      BY <3>5 DEF Recovered, List, disk, Resolvers
    <3> QED
      BY <1>7, <1>t, <2>2, <3>1, <3>6
  <2> QED
    BY <2>1, <2>2
<1>8. ASSUME NEW p \in Comps, wal'[p] # None
      PROVE  live'[p] = wal'[p] /\ p \notin pending'
  <2>1. ASSUME NEW q \in Comps, NEW run \in {"no", "archive", "operator"}, Write(q, run)
        PROVE  live'[p] = wal'[p] /\ p \notin pending'
    <3>1. CASE q = p
      <4>1. wal[p] = None /\ pending' = pending
        BY <2>1, <3>1 DEF Write, Operation
      <4>2. p \notin pending /\ wal' = [wal EXCEPT ![p] = live'[p]]
        BY <1>8, <2>1, <3>1, <4>1 DEF Write
      <4> QED
        BY <1>t, <4>1, <4>2
    <3>2. CASE q # p
      <4>1. live'[p] = live[p] /\ pending' = pending
        BY <1>0, <1>t, <2>1, <3>2, Operated
      <4>2. wal'[p] = wal[p]
        BY <1>t, <2>1, <3>2 DEF Write
      <4> QED
        BY <1>0, <1>8, <4>1, <4>2 DEF Noted
    <3> QED
      BY <3>1, <3>2
  <2>2. CASE ~\E q \in Comps, run \in {"no", "archive", "operator"} : Write(q, run)
    <3>1. wal'[p] = wal[p]
      BY <1>8, <1>t, <2>2, WalWriters DEF Settle, Start
    <3>2. wal[p] # None /\ live[p] = wal[p] /\ p \notin pending
      BY <1>0, <1>8, <3>1 DEF Noted
    <3>3. ASSUME NEW t \in Tokens, MoveOut(t) \/ MoveIn(t) PROVE live'[p] = live[p]
      <4>1. ASSUME live'[p] # live[p] PROVE FALSE
        <5>1. p = StepPath(t) /\ live' # live /\ Swapping(t) /\ at[t] <= Len(steps[t])
          BY <1>0, <1>t, <3>3, <4>1, MovedOut, MovedIn DEF AtStep
        <5>2. ~StepDone(t, at[t])
          BY <3>3, <5>1 DEF MoveOut, MoveIn, AtStep, OutDone, InDone, StepDone, StepPath
        <5>3. Open(t)
          BY <1>0, <5>1, <5>2, StepIs DEF Open, Staged, StagedAt, Swapping
        <5>4. p \in Touched(t)
          BY <1>0, <3>3, <5>1, OutCanBeMade, InCanBeMade DEF MoveOut, MoveIn, MoveInv, Touched
        <5> QED
          BY <1>0, <3>2, <5>3, <5>4 DEF OneOpen
      <4> QED
        BY <4>1
    <3>4. ASSUME NEW r \in Resolvers, NEW q \in Comps, Revert(r, q) PROVE live'[p] = live[p]
      <4>1. q # p
        BY <1>0, <3>2, <3>4 DEF Noted, Revert
      <4> QED
        BY <1>0, <1>t, <3>4, <4>1, Reverted
    <3>5. ASSUME NEW q \in Comps, Create(q) \/ Delete(q) PROVE live'[p] = live[p]
      <4>1. q # p
        BY <3>2, <3>5 DEF Create, Delete
      <4> QED
        BY <1>0, <1>t, <3>5, <4>1, Operated
    <3>6. \A pw \in Passwords : SaveSettings(pw) => live'[p] = live[p]
      BY <1>0, SettingsSaved
    <3>7. live'[p] = live[p]
      BY <1>0, <2>2, <3>3, <3>4, <3>5, <3>6, ReplayIsIdle, LiveWriters
    <3>8. ASSUME NEW t \in Tokens, WriteRequeuePending(t) PROVE p \notin req[t].puts
      <4>1. phase[t] = "copied"
        BY <3>8 DEF WriteRequeuePending, Advance
      <4> QED
        BY <1>0, <3>2, <4>1 DEF OneOpen, Touched
    <3>9. p \notin pending'
      BY <3>2, <3>8, PendingWriters DEF WriteRequeuePending, RemoveRequeuePending
    <3> QED
      BY <3>1, <3>2, <3>7, <3>9
  <2> QED
    BY <2>1, <2>2
<1> QED
  BY <1>2, <1>4, <1>5, <1>6, <1>7, <1>8 DEF Noted

-----------------------------------------------------------------------------
\* What is staged bears the restore's name, and the password in force.

LEMMA SignedKept ==
  ASSUME RestoreInv, MaxRenameFailures \in {0, 1}, Next
  PROVE  Signed'
<1>0. MoveInv /\ TypeOK /\ Staged /\ Served /\ OneOpen /\ Noted /\ Signed
  BY DEF RestoreInv, MoveInv
<1>t. /\ phase \in [Tokens -> {"idle", "staged", "locked", "settled", "copied", "noted", "swap",
                               "cleared", "swapped", "resolving", "done"}]
      /\ req \in [Tokens -> Request \cup {None}] /\ new \in [Tokens -> Folders]
      /\ None \notin Tokens /\ Settings \in Paths /\ Settings \notin Comps
  BY <1>0, NoneAssumption, PathsAssumption DEF TypeOK, Paths
<1> SUFFICES ASSUME NEW t \in Tokens, phase'[t] \in Asking
             PROVE  /\ \A p \in req'[t].puts : new'[t][p].by = t
                    /\ phase'[t] # "staged" /\ Settings \in req'[t].puts =>
                         live'[Settings] # None /\ new'[t][Settings].pw = live'[Settings].pw
  BY DEF Signed
<1>1. ASSUME NEW r \in Requests, Stage(t, r)
      PROVE  /\ \A p \in req'[t].puts : new'[t][p].by = t
             /\ phase'[t] = "staged"
  <2> DEFINE F == [p \in Paths |-> IF p \in r.puts THEN Archived(t, p) ELSE None]
  <2>1. /\ new' = [new EXCEPT ![t] = F] /\ req' = [req EXCEPT ![t] = r]
        /\ phase' = [phase EXCEPT ![t] = "staged"]
        /\ Settings \in r.puts => live[Settings] # None
    BY <1>1 DEF Stage, Allowed
  <2>2. r.puts \subseteq Paths
    BY RequestsAssumption DEF Request
  <2>3. \A p \in r.puts : F[p].by = t
    BY <1>0, <2>1, <2>2, ArchivedContent
  <2> HIDE DEF F
  <2> QED
    BY <1>t, <2>1, <2>3
<1>2. CASE Lock(t)
  <2> DEFINE c == IF Settings \in req[t].puts THEN Archived(t, Settings) ELSE None
             F == [new[t] EXCEPT ![Settings] = c]
  <2>1. /\ new' = [new EXCEPT ![t] = F] /\ req' = req /\ live' = live
        /\ Settings \in req[t].puts => live[Settings] # None
        /\ phase[t] = "staged"
    BY <1>2 DEF Lock, CanLock, StillPlanned, Allowed
  <2>2. Settings \in req[t].puts => c.by = t /\ c.pw = live[Settings].pw
    BY <1>0, <1>t, <2>1, ArchivedContent
  <2> HIDE DEF c
  <2>3. \A p \in Paths : F[p] = IF p = Settings THEN c ELSE new[t][p]
    BY <1>t DEF Folders
  <2> HIDE DEF F
  <2>4. req[t].puts \subseteq Paths /\ \A p \in req[t].puts : new[t][p].by = t
    BY <1>0, <2>1, RequestIs DEF Signed, Asking
  <2> QED
    BY <1>t, <2>1, <2>2, <2>3, <2>4
<1>3. CASE ~Lock(t) /\ \A r \in Requests : ~Stage(t, r)
  <2>1. phase[t] \in Asking /\ (phase'[t] = "staged" <=> phase[t] = "staged")
    <3>1. ASSUME NEW u \in Tokens \ {t}, Lock(u) \/ \E r \in Requests : Stage(u, r)
          PROVE  phase'[t] = phase[t]
      BY <1>t, <3>1 DEF Lock, Stage
    <3> QED
      BY <1>t, <1>3, <3>1, PhaseWriters DEF Asking, Refuse, WriteFails, GivesUp, Settle, SaveCopy,
         WriteRequeuePending, WriteJournal, Advance, StepFails, RemoveJournal, RemoveToken,
         FinishFails, Released, List, RequeueDone, RevertFails, Resolved, Crash, RollForward
  <2>2. req'[t] = req[t]
    <3>1. ASSUME NEW u \in Tokens \ {t}, NEW r \in Requests, Stage(u, r)
          PROVE  req'[t] = req[t]
      BY <1>t, <3>1 DEF Stage
    <3> QED
      BY <1>3, <3>1, ReqWriters
  <2>3. new'[t] = new[t]
    <3>1. ~Refuse(t) /\ ~WriteFails(t) /\ ~RemoveToken(t)
      BY <1>t DEF Refuse, WriteFails, GivesUp, RemoveToken, Released, Asking
    <3>2. ~RemoveStaging(t)
      BY <1>0, <2>1 DEF RemoveStaging, Served, Stopped, Asking
    <3>3. ~MoveIn(t)
      BY <2>1 DEF MoveIn, AtStep, Swapping, Asking
    <3>4. \/ new' = new
          \/ \E u \in Tokens \ {t} : \E F : new' = [new EXCEPT ![u] = F]
      BY <1>3, <3>1, <3>2, <3>3, NewWriters DEF Stage, Refuse, WriteFails, GivesUp, Lock, MoveIn,
         RemoveToken, RemoveStaging
    <3> QED
      BY <1>t, <3>4
  <2>4. ASSUME phase[t] # "staged" PROVE live'[Settings] = live[Settings]
    <3>1. holder = t
      BY <1>0, <2>1, <2>4 DEF Served, Asking, Holding
    <3>2. \A pw \in Passwords : ~SaveSettings(pw)
      BY <1>t, <3>1 DEF SaveSettings, Locked
    <3>3. \A u \in Tokens : ~MoveOut(u) /\ ~MoveIn(u)
      BY <2>1, <3>1 DEF MoveOut, MoveIn, AtStep, Swapping, Asking
    <3>4. ASSUME NEW q \in Comps,
                 Create(q) \/ Delete(q) \/ \E run \in {"no", "archive", "operator"} : Write(q, run)
          PROVE  live'[Settings] = live[Settings]
      BY <1>0, <1>t, <3>4, Operated
    <3>5. ASSUME NEW r \in Resolvers, NEW q \in Comps, Revert(r, q)
          PROVE  live'[Settings] = live[Settings]
      BY <1>0, <1>t, <3>5, Reverted
    <3> QED
      BY <1>0, <3>2, <3>3, <3>4, <3>5, ReplayIsIdle, LiveWriters
  <2> QED
    BY <1>0, <2>1, <2>2, <2>3, <2>4 DEF Signed
<1> QED
  BY <1>1, <1>2, <1>3

LEMMA RestoreInvKept ==
  ASSUME RestoreInv, MaxRenameFailures \in {0, 1}, Overlap = FALSE, [Next]_vars
  PROVE  RestoreInv'
<1>1. CASE Next
  BY <1>1, MoveInvKept, OneResolverKept, NotedKept, SignedKept DEF RestoreInv
<1>2. CASE UNCHANGED vars
  <2>1. UNCHANGED <<live, wal, dir, new, old, steps, copies, pending, server, holder, phase, req, ids,
                    at, tries, todo, edits, committed, failures, crashes>>
    BY <1>2 DEF vars, disk, ghosts
  <2>2. MoveInv'
    BY <1>2, MoveInvStutters DEF RestoreInv
  <2>3. OneResolver' /\ Noted' /\ Signed'
    BY <2>1 DEF RestoreInv, OneResolver, Noted, Signed, Resolving, Journaled
  <2> QED
    BY <2>2, <2>3 DEF RestoreInv
<1> QED
  BY <1>1, <1>2

LEMMA RestoreInvInit ==
  ASSUME Init
  PROVE  RestoreInv
<1>1. PICK present \in SUBSET Comps, pw \in Passwords :
        live = [p \in Paths |-> IF p = Settings THEN [by |-> 0, pw |-> pw]
                                ELSE IF p \in present THEN [by |-> 0, run |-> "no"] ELSE None]
  BY DEF Init
<1>2. \A p \in Comps : ~IsArchive(live[p])
  BY <1>1, PathsAssumption DEF IsArchive, Paths
<1>3. /\ wal = [p \in Comps |-> None] /\ dir = [t \in Tokens |-> "none"]
      /\ new = [t \in Tokens |-> Nothing] /\ phase = [t \in Tokens |-> "idle"]
      /\ todo = [r \in Resolvers |-> NothingToDo]
  BY DEF Init
<1>4. \A p \in Comps : Nothing[p] = None /\ NothingToDo[p] = "no"
  BY DEF Nothing, NothingToDo, Paths
<1>5. OneResolver
  BY <1>3 DEF OneResolver, Resolving, Resolvers
<1>6. Noted
  BY <1>2, <1>3, <1>4 DEF Noted, IsArchive
<1>7. Signed
  BY <1>3 DEF Signed, Asking
<1> QED
  BY <1>5, <1>6, <1>7, MoveInvInit DEF RestoreInv

-----------------------------------------------------------------------------
\* Whatever crashes or fails between the swap and the last match sent back,
\* the files beside the folder know of every match still to be sent back.
THEOREM RestoreInvariant ==
  ASSUME MaxRenameFailures \in {0, 1}, Overlap = FALSE
  PROVE  Spec => []RestoreInv
<1>1. Init => RestoreInv
  BY RestoreInvInit
<1>2. RestoreInv /\ [Next]_vars => RestoreInv'
  BY RestoreInvKept
<1> QED
  BY <1>1, <1>2, PTL DEF Spec

\* A match a backup brought back running is in requeue-pending.json until it
\* is back in the queue (resolveRequeuePending).
THEOREM ArchivedMatchesArePending ==
  ASSUME MaxRenameFailures \in {0, 1}, Overlap = FALSE
  PROVE  Spec => []ArchiveMatchIsPending
<1>1. RestoreInv => ArchiveMatchIsPending
  BY DEF RestoreInv, Noted, ArchiveMatchIsPending, IsArchive
<1> QED
  BY <1>1, RestoreInvariant, PTL

-----------------------------------------------------------------------------
(***************************************************************************)
(* A restore is one step of the folder.                                    *)
(***************************************************************************)

\* What a path holds once the journal of t, the only one with a move left, has
\* been run to its end.
Rolled(t, p) ==
  IF new[t][p] # None THEN new[t][p]
  ELSE IF MovesOut(t, p) /\ old[t][p] = None THEN None ELSE live[p]

LEMMA TakesWhenOpen ==
  ASSUME NEW t \in Tokens, NEW p \in Paths, TakesIn(t, p) \/ TakesOut(t, p)
  PROVE  Open(t)
BY DEF TakesIn, TakesOut, Open, Journaled, StepDone

LEMMA RolledIs ==
  MoveInv => \A t \in Tokens : Journaled(t) /\ (\A u \in Tokens \ {t} : ~Open(u)) =>
               \A p \in Paths : RolledForward[p] = Rolled(t, p)
<1> SUFFICES ASSUME MoveInv, NEW t \in Tokens, Journaled(t), \A u \in Tokens \ {t} : ~Open(u),
                    NEW p \in Paths
             PROVE  RolledForward[p] = Rolled(t, p)
  OBVIOUS
<1>1. Staged /\ Movable
  BY DEF MoveInv
<1>2. \A u \in Tokens : TakesIn(u, p) \/ TakesOut(u, p) => u = t
  BY TakesWhenOpen
<1>3. new[t][p] # None <=> TakesIn(t, p)
  BY <1>1 DEF Staged, StagedAt, Movable, MovableAt, MovesIn, TakesIn, Journaled
<1>4. MovesOut(t, p) /\ old[t][p] = None <=> TakesOut(t, p)
  BY DEF MovesOut, TakesOut, Journaled
<1>5. CASE TakesIn(t, p)
  <2>1. (CHOOSE u \in Tokens : TakesIn(u, p)) = t
    BY <1>2, <1>5
  <2> QED
    BY <1>3, <1>5, <2>1 DEF RolledForward, Rolled
<1>6. CASE ~TakesIn(t, p)
  BY <1>2, <1>3, <1>4, <1>6 DEF RolledForward, Rolled
<1> QED
  BY <1>5, <1>6

LEMMA RolledIsNext ==
  MoveInv' => \A t \in Tokens : Journaled(t)' /\ (\A u \in Tokens \ {t} : ~Open(u)') =>
                \A p \in Paths : RolledForward'[p] = Rolled(t, p)'
<1>1. (MoveInv => \A t \in Tokens : Journaled(t) /\ (\A u \in Tokens \ {t} : ~Open(u)) =>
                    \A p \in Paths : RolledForward[p] = Rolled(t, p))'
  BY RolledIs, PTL
<1> QED
  BY <1>1

LEMMA NothingToRoll ==
  (\A u \in Tokens : ~Open(u)) => \A p \in Paths : RolledForward[p] = live[p]
<1> SUFFICES ASSUME \A u \in Tokens : ~Open(u), NEW p \in Paths
             PROVE  RolledForward[p] = live[p]
  OBVIOUS
<1>1. \A u \in Tokens : ~TakesIn(u, p) /\ ~TakesOut(u, p)
  BY TakesWhenOpen
<1> QED
  BY <1>1 DEF RolledForward

LEMMA NothingToRollNext ==
  (\A u \in Tokens : ~Open(u)') => \A p \in Paths : RolledForward'[p] = live'[p]
<1>1. ((\A u \in Tokens : ~Open(u)) => \A p \in Paths : RolledForward[p] = live[p])'
  BY NothingToRoll, PTL
<1> QED
  BY <1>1

LEMMA RolledShape ==
  /\ DOMAIN RolledForward = Paths /\ DOMAIN RolledForward' = Paths
  /\ RolledForward = [p \in Paths |-> RolledForward[p]]
  /\ RolledForward' = [p \in Paths |-> RolledForward'[p]]
BY DEF RolledForward

\* The journals that are open, what they move and the folder make the rest.
LEMMA SameRolled ==
  ASSUME MoveInv, MoveInv', \A p \in Paths : live'[p] = live[p],
         \A u \in Tokens : Open(u)' <=> Open(u),
         \A u \in Tokens : Open(u) =>
           new'[u] = new[u] /\ old'[u] = old[u] /\ steps'[u] = steps[u]
  PROVE  RolledForward' = RolledForward
<1>1. CASE \A u \in Tokens : ~Open(u)
  BY <1>1, NothingToRoll, NothingToRollNext, RolledShape
<1>2. ASSUME NEW t \in Tokens, Open(t) PROVE RolledForward' = RolledForward
  <2>1. \A u \in Tokens \ {t} : ~Open(u) /\ ~Open(u)'
    BY <1>2 DEF MoveInv, OneOpen
  <2>2. Journaled(t) /\ Journaled(t)'
    BY <1>2 DEF Open
  <2>3. \A p \in Paths : RolledForward[p] = Rolled(t, p) /\ RolledForward'[p] = Rolled(t, p)'
    BY <2>1, <2>2, RolledIs, RolledIsNext
  <2>4. \A p \in Paths : Rolled(t, p)' = Rolled(t, p)
    BY <1>2 DEF Rolled, MovesOut
  <2> QED
    BY <2>3, <2>4, RolledShape
<1> QED
  BY <1>1, <1>2

\* An open journal stays on disk.
LEMMA OpenStays ==
  ASSUME MoveInv, Next, NEW u \in Tokens, Open(u)
  PROVE  Journaled(u)' /\ ~WriteJournal(u)
<1>0. TypeOK /\ Staged /\ Movable
  BY DEF MoveInv
<1>1. /\ Journaled(u) /\ phase[u] \notin Asking \cup {"idle", "cleared"}
      /\ dir \in [Tokens -> {"none", "staged", "journaled"}] /\ steps[u] \in Seq(Step)
  BY <1>0 DEF Open, Staged, StagedAt, Journaled, TypeOK
<1>2. ~RemoveJournal(u)
  <2>1. ASSUME RemoveJournal(u) PROVE FALSE
    <3>1. phase[u] = "swap" /\ at[u] = Len(steps[u]) + 1
      BY <2>1 DEF RemoveJournal, Swapping
    <3>2. \A i \in 1 .. at[u] - 1 : StepDone(u, i)
      BY <1>0, <1>1, <3>1 DEF Movable, MovableAt
    <3>3. \A i \in DOMAIN steps[u] : StepDone(u, i)
      BY <1>1, <3>1, <3>2
    <3> QED
      BY <3>3 DEF Open
  <2> QED
    BY <2>1
<1>3. ~WriteJournal(u) /\ ~Refuse(u) /\ ~WriteFails(u) /\ \A r \in Requests : ~Stage(u, r)
  BY <1>1 DEF WriteJournal, Advance, Refuse, CanLock, WriteFails, Stage, Asking
<1>4. ~RemoveToken(u) /\ ~RemoveStaging(u)
  BY <1>1 DEF RemoveToken, RemoveStaging, Journaled
<1>5. \/ dir' = dir
      \/ \E t \in Tokens \ {u} : \E d : dir' = [dir EXCEPT ![t] = d]
  <2>1. ASSUME NEW t \in Tokens,
               \/ Refuse(t) \/ WriteJournal(t) \/ WriteFails(t) \/ RemoveJournal(t)
               \/ RemoveToken(t) \/ RemoveStaging(t) \/ \E r \in Requests : Stage(t, r)
        PROVE  \E d : dir' = [dir EXCEPT ![t] = d]
    BY <2>1 DEF Stage, Refuse, WriteFails, GivesUp, WriteJournal, RemoveJournal, RemoveToken,
       RemoveStaging
  <2> QED
    BY <1>2, <1>3, <1>4, <2>1, DirWriters
<1> QED
  BY <1>1, <1>3, <1>5 DEF Journaled

\* So only moves, and the writing of a journal, change which are open.
LEMMA OpensStand ==
  ASSUME MoveInv, MaxRenameFailures \in {0, 1}, Next, NEW u \in Tokens,
         ~MoveOut(u), ~MoveIn(u), ~WriteJournal(u)
  PROVE  /\ Open(u)' <=> Open(u)
         /\ Open(u) => new'[u] = new[u] /\ old'[u] = old[u] /\ steps'[u] = steps[u]
<1>1. ASSUME Open(u) PROVE Open(u)' /\ new'[u] = new[u] /\ old'[u] = old[u] /\ steps'[u] = steps[u]
  <2>1. Journaled(u)'
    BY <1>1, OpenStays
  <2>2. new'[u] = new[u] /\ old'[u] = old[u] /\ steps'[u] = steps[u]
    BY <2>1, JournalSteady
  <2> QED
    BY <1>1, <2>1, <2>2 DEF Open, StepDone
<1>2. ASSUME Open(u)' PROVE Open(u)
  BY <1>2, OpensWhenWritten
<1> QED
  BY <1>1, <1>2

LEMMA FolderPaths == Folder!Paths = Paths
BY DEF Folder!Paths, Paths

LEMMA OperationIsOne ==
  ASSUME MoveInv, MoveInv', MaxRenameFailures \in {0, 1}, Next, NEW p \in Paths,
         server = "up", edits' = edits + 1,
         \A q \in Paths \ {p} : live'[q] = live[q],
         live'[p] # None => live'[p].by = edits + 1,
         UNCHANGED <<dir, new, old, steps, req, committed>>,
         \A t \in Tokens : holder = t => p \notin Touched(t)
  PROVE  Folder!Next
<1>1. \A u \in Tokens : Open(u)' <=> Open(u)
  BY DEF Open, Journaled, StepDone
<1>2. /\ \A q \in Paths \ {p} : RolledForward'[q] = RolledForward[q]
      /\ RolledForward'[p] = live'[p]
  <2>1. CASE \A u \in Tokens : ~Open(u)
    BY <1>1, <2>1, NothingToRoll, NothingToRollNext
  <2>2. ASSUME NEW t \in Tokens, Open(t)
        PROVE  /\ \A q \in Paths \ {p} : RolledForward'[q] = RolledForward[q]
               /\ RolledForward'[p] = live'[p]
    <3>1. Journaled(t) /\ Journaled(t)' /\ \A u \in Tokens \ {t} : ~Open(u) /\ ~Open(u)'
      BY <1>1, <2>2 DEF MoveInv, OneOpen, Open
    <3>2. \A q \in Paths : RolledForward[q] = Rolled(t, q) /\ RolledForward'[q] = Rolled(t, q)'
      BY <3>1, RolledIs, RolledIsNext
    <3>3. \A q \in Paths \ {p} : Rolled(t, q)' = Rolled(t, q)
      BY DEF Rolled, MovesOut
    <3>4. p \notin Touched(t)
      BY <2>2 DEF MoveInv, OneOpen
    <3>5. new[t][p] = None /\ ~MovesOut(t, p)
      BY <3>1, <3>4 DEF MoveInv, Staged, StagedAt, Movable, MovableAt, Touched
    <3>6. Rolled(t, p)' = live'[p]
      BY <3>5 DEF Rolled, MovesOut
    <3> QED
      BY <3>2, <3>3, <3>6
  <2> QED
    BY <2>1, <2>2
<1>3. Folder!Operate(p)
  BY <1>2, FolderPaths DEF Folder!Operate
<1> QED
  BY <1>3, FolderPaths DEF Folder!Next

LEMMA SwapIsOne ==
  ASSUME RestoreInv, RestoreInv', MaxRenameFailures \in {0, 1}, Next,
         NEW t \in Tokens, WriteJournal(t)
  PROVE  Folder!Next
<1>0. MoveInv /\ MoveInv' /\ TypeOK /\ Staged /\ Served /\ OneOpen /\ Signed
  BY DEF RestoreInv, MoveInv
<1>1. /\ phase[t] = "noted" /\ server = "up" /\ steps' = [steps EXCEPT ![t] = JournalFor(t)]
      /\ committed' = committed \cup {t}
      /\ UNCHANGED <<live, new, old, req, edits>>
      /\ dir' = [dir EXCEPT ![t] = "journaled"]
  BY DEF WriteJournal, Advance
<1>2. /\ ~Journaled(t) /\ t \notin committed /\ \A p \in Paths : old[t][p] = None
      /\ \A p \in req[t].puts : new[t][p] # None /\ new[t][p].by = t
      /\ \A p \in Paths : new[t][p] # None => p \in req[t].puts
      /\ Settings \in req[t].puts =>
           live[Settings] # None /\ new[t][Settings].pw = live[Settings].pw
  BY <1>0, <1>1 DEF Staged, StagedAt, Asking, Journaled, Signed
<1>3. /\ req[t] \in Request /\ req[t] # None /\ req[t].puts \subseteq Paths
      /\ req[t].removes \subseteq Comps /\ req[t].puts \cap req[t].removes = {}
      /\ Settings \notin req[t].removes
  BY <1>0, <1>1, RequestIs, NoneAssumption
<1>4. holder = t
  BY <1>0, <1>1 DEF Served, Holding
<1>5. \A u \in Tokens : ~Open(u)
  BY <1>0, <1>1, <1>2, <1>4, NoneOpen DEF Open
<1>6. \A p \in Paths : RolledForward[p] = live[p]
  BY <1>5, NothingToRoll
<1>7. \A u \in Tokens \ {t} : ~Open(u)'
  <2>1. ASSUME NEW u \in Tokens \ {t}, Open(u)' PROVE FALSE
    <3>1. ~WriteJournal(u)
      BY <1>0, <1>4 DEF WriteJournal, Advance, Served, Holding
    <3> QED
      BY <1>0, <1>5, <2>1, <3>1, OpensWhenWritten
  <2> QED
    BY <2>1
<1>8. Journaled(t)'
  BY <1>0, <1>1 DEF Journaled, TypeOK
<1>9. \A p \in Paths : RolledForward'[p] = Rolled(t, p)'
  BY <1>0, <1>7, <1>8, RolledIsNext
<1>10. \A p \in Paths : MovesOut(t, p)' <=> p \in Displaced(t)
  <2>1. /\ JournalFor(t) \in Seq(Step)
        /\ \A p : (\E i \in 1 .. Len(JournalFor(t)) :
                       JournalFor(t)[i] = [kind |-> "out", path |-> p]) <=> p \in Displaced(t)
    BY <1>3, JournalIs
  <2>2. steps'[t] = JournalFor(t) /\ DOMAIN JournalFor(t) = 1 .. Len(JournalFor(t))
    BY <1>0, <1>1, <2>1 DEF TypeOK
  <2> QED
    BY <2>1, <2>2 DEF MovesOut
<1>11. ASSUME NEW p \in Paths
       PROVE  IF p \in req[t].puts THEN RolledForward'[p] # None /\ RolledForward'[p].by = t
              ELSE RolledForward'[p] = IF p \in req[t].removes THEN None ELSE RolledForward[p]
  <2>1. CASE p \in req[t].puts
    BY <1>1, <1>2, <1>9, <2>1 DEF Rolled
  <2>2. CASE p \notin req[t].puts /\ p \in req[t].removes
    <3>1. MovesOut(t, p)' <=> live[p] # None
      BY <1>10, <2>2 DEF Displaced, Touched
    <3>2. new'[t][p] = None /\ old'[t][p] = None /\ live'[p] = live[p]
      BY <1>1, <1>2, <2>2
    <3> QED
      BY <1>9, <2>2, <3>1, <3>2 DEF Rolled
  <2>3. CASE p \notin req[t].puts /\ p \notin req[t].removes
    <3>1. ~MovesOut(t, p)'
      BY <1>10, <2>3 DEF Displaced, Touched
    <3>2. new'[t][p] = None /\ live'[p] = live[p]
      BY <1>1, <1>2, <2>3
    <3> QED
      BY <1>6, <1>9, <2>3, <3>1, <3>2 DEF Rolled
  <2> QED
    BY <2>1, <2>2, <2>3
<1>12. Settings \in Paths
  BY DEF Paths
<1>13. RolledForward'[Settings].pw = RolledForward[Settings].pw
  <2>1. CASE Settings \in req[t].puts
    <3>1. RolledForward'[Settings] = new[t][Settings]
      BY <1>1, <1>2, <1>9, <1>12, <2>1 DEF Rolled
    <3> QED
      BY <1>2, <1>6, <1>12, <2>1, <3>1
  <2>2. CASE Settings \notin req[t].puts
    <3>1. RolledForward'[Settings] = RolledForward[Settings]
      BY <1>3, <1>11, <1>12, <2>2
    <3> QED
      BY <3>1
  <2> QED
    BY <2>1, <2>2
<1>14. Folder!Restore(t)
  BY <1>1, <1>2, <1>3, <1>11, <1>13, FolderPaths DEF Folder!Restore
<1> QED
  BY <1>14 DEF Folder!Next

LEMMA RequeueIsOne ==
  ASSUME RestoreInv, NEW r \in Resolvers, NEW p \in Comps, Revert(r, p)
  PROVE  Folder!Next \/ UNCHANGED Folder!vars
<1>0. MoveInv /\ TypeOK /\ OneResolver
  BY DEF RestoreInv, MoveInv
<1>1. /\ todo[r][p] = "listed" /\ p \in Paths
      /\ live' = live \/ (live[p] # None /\ live' = [live EXCEPT ![p].run = "no"])
      /\ UNCHANGED <<dir, new, old, steps, req, edits, committed>>
  BY <1>0, Reverted
<1>2. \A u \in Tokens : ~Open(u) /\ ~Open(u)'
  <2>1. \A u \in Tokens : ~Open(u)
    BY <1>0, <1>1, ResolverWorksAlone
  <2> QED
    BY <1>1, <2>1 DEF Open, Journaled, StepDone
<1>3. live \in [Paths -> Comp \cup Setting \cup {None}]
  BY <1>0 DEF TypeOK, Folders
<1>4. RolledForward = live
  BY <1>2, <1>3, NothingToRoll, RolledShape
<1>5. DOMAIN live' = Paths /\ live' = [q \in Paths |-> live'[q]]
  BY <1>1, <1>3
<1>6. RolledForward' = live'
  BY <1>2, <1>5, NothingToRollNext, RolledShape
<1>7. CASE live' = live
  BY <1>1, <1>4, <1>6, <1>7 DEF Folder!vars
<1>8. CASE live[p] # None /\ live' = [live EXCEPT ![p].run = "no"]
  <2>1. Folder!Requeue(p)
    BY <1>1, <1>4, <1>6, <1>8 DEF Folder!Requeue
  <2> QED
    BY <2>1 DEF Folder!Next
<1> QED
  BY <1>1, <1>7, <1>8

\* A move brings the folder no nearer to, and no farther from, where its journal
\* leads.
LEMMA MoveIsNone ==
  ASSUME MoveInv, MoveInv', MaxRenameFailures \in {0, 1}, Next,
         NEW t \in Tokens, MoveOut(t) \/ MoveIn(t)
  PROVE  RolledForward' = RolledForward
<1>0. TypeOK /\ Staged /\ Served /\ Movable /\ OneOpen
  BY DEF MoveInv
<1>1. /\ Swapping(t) /\ at[t] <= Len(steps[t]) /\ UNCHANGED <<dir, steps, req, phase>>
  BY MovedOut, MovedIn DEF AtStep
<1>2. Journaled(t) /\ Journaled(t)' /\ StepPath(t) \in Paths
  BY <1>0, <1>1, StepIs DEF Staged, StagedAt, Swapping, Journaled
<1>3. CASE UNCHANGED <<live, new, old>>
  <2>1. \A u \in Tokens : Open(u)' <=> Open(u)
    BY <1>1, <1>3 DEF Open, Journaled, StepDone
  <2> QED
    BY <1>1, <1>3, <2>1, SameRolled
<1>4. CASE ~UNCHANGED <<live, new, old>>
  <2>1. Open(t)
    <3>1. ~StepDone(t, at[t])
      BY <1>4 DEF MoveOut, MoveIn, AtStep, OutDone, InDone, StepDone, StepPath
    <3> QED
      BY <1>0, <1>1, <1>2, <3>1, StepIs DEF Open
  <2>2. \A u \in Tokens \ {t} : ~Open(u) /\ ~Open(u)'
    <3>1. \A u \in Tokens \ {t} : ~Open(u)
      BY <1>0, <2>1 DEF OneOpen
    <3>2. \A u \in Tokens \ {t} : ~WriteJournal(u)
      BY <1>0, <1>1 DEF WriteJournal, Advance, Served, Swapping, Holding
    <3> QED
      BY <3>1, <3>2, OpensWhenWritten
  <2>3. \A p \in Paths : RolledForward[p] = Rolled(t, p) /\ RolledForward'[p] = Rolled(t, p)'
    BY <1>2, <2>2, RolledIs, RolledIsNext
  <2>4. \A p \in Paths : MovesOut(t, p)' <=> MovesOut(t, p)
    BY <1>1 DEF MovesOut
  <2>5. ASSUME NEW p \in Paths PROVE Rolled(t, p)' = Rolled(t, p)
    <3>1. CASE p # StepPath(t)
      <4>1. new'[t][p] = new[t][p] /\ old'[t][p] = old[t][p] /\ live'[p] = live[p]
        BY <3>1, MovedOut, MovedIn
      <4> QED
        BY <2>4, <4>1 DEF Rolled
    <3>2. CASE p = StepPath(t) /\ MoveOut(t)
      <4>1. MovesOut(t, p) /\ ~OutDone(t)
        BY <1>0, <1>4, <3>2, OutCanBeMade, MovedOut
      <4>2. /\ old[t][p] = None /\ old'[t][p] # None /\ live'[p] = None /\ new'[t][p] = new[t][p]
        BY <3>2, <4>1, MovedOut DEF OutDone
      <4> QED
        BY <2>4, <4>1, <4>2 DEF Rolled
    <3>3. CASE p = StepPath(t) /\ MoveIn(t)
      <4>1. MovesOut(t, p) => old[t][p] # None
        BY <1>0, <3>3, InCanBeMade DEF MoveIn
      <4>2. ~InDone(t)
        BY <1>4, <3>3, MovedIn
      <4>3. /\ new[t][p] # None /\ new'[t][p] = None /\ live'[p] = new[t][p]
            /\ old'[t][p] = old[t][p]
        BY <3>3, <4>2, MovedIn DEF InDone
      <4> QED
        BY <2>4, <4>1, <4>3 DEF Rolled
    <3> QED
      BY <3>1, <3>2, <3>3
  <2> QED
    BY <2>3, <2>5, RolledShape
<1> QED
  BY <1>3, <1>4

LEMMA StepIsOne ==
  ASSUME RestoreInv, RestoreInv', MaxRenameFailures \in {0, 1}, Overlap = FALSE, Next
  PROVE  Folder!Next \/ UNCHANGED Folder!vars
<1>0. MoveInv /\ MoveInv' /\ TypeOK /\ Staged /\ Served /\ OneOpen /\ Noted
  BY DEF RestoreInv, MoveInv
<1>t. None \notin Tokens
  BY NoneAssumption
<1>1. ASSUME NEW p \in Comps,
             Create(p) \/ Delete(p) \/ \E run \in {"no", "archive", "operator"} : Write(p, run)
      PROVE  Folder!Next
  <2>1. \A t \in Tokens : holder = t => p \notin Touched(t)
    BY <1>1, <1>t DEF Create, Delete, Write, Locked
  <2> QED
    BY <1>0, <1>1, <2>1, Operated, OperationIsOne
<1>2. ASSUME NEW pw \in Passwords, SaveSettings(pw)
      PROVE  Folder!Next
  <2>1. Settings \in Paths /\ Paths \ {Settings} = Comps
    BY PathsAssumption DEF Paths
  <2> QED
    BY <1>0, <1>2, <1>t, <2>1, SettingsSaved, OperationIsOne
<1>3. ASSUME NEW t \in Tokens, WriteJournal(t)
      PROVE  Folder!Next
  BY <1>3, SwapIsOne
<1>4. ASSUME NEW r \in Resolvers, NEW p \in Comps, Revert(r, p)
      PROVE  Folder!Next \/ UNCHANGED Folder!vars
  BY <1>4, RequeueIsOne
<1>5. ASSUME NEW t \in Tokens, MoveOut(t) \/ MoveIn(t)
      PROVE  UNCHANGED Folder!vars
  <2>1. UNCHANGED <<req, edits, committed>>
    BY <1>5 DEF MoveOut, MoveIn, NextStep, ghosts
  <2> QED
    BY <1>0, <1>5, <2>1, MoveIsNone DEF Folder!vars
<1>6. CASE /\ \A p \in Comps : /\ ~Create(p) /\ ~Delete(p)
                               /\ \A run \in {"no", "archive", "operator"} : ~Write(p, run)
                               /\ \A r \in Resolvers : ~Revert(r, p)
           /\ \A pw \in Passwords : ~SaveSettings(pw)
           /\ \A t \in Tokens : ~WriteJournal(t) /\ ~MoveOut(t) /\ ~MoveIn(t)
  <2>1. live' = live
    BY <1>0, <1>6, ReplayIsIdle, LiveWriters
  <2>2. RolledForward' = RolledForward
    BY <1>0, <1>6, <2>1, OpensStand, SameRolled
  <2>3. edits' = edits /\ committed' = committed
    BY <1>6, EditsWriters, CommittedWriters
  <2>4. ASSUME NEW t \in Tokens, NEW r \in Requests, Stage(t, r)
        PROVE  Folder!Next
    <3>1. req[t] = None /\ req' = [req EXCEPT ![t] = r] /\ req \in [Tokens -> Request \cup {None}]
      BY <1>0, <2>4 DEF Stage, Staged, StagedAt, TypeOK
    <3>2. r # None
      BY RequestsAssumption, NoneAssumption
    <3>3. Folder!Ask(t)
      BY <2>2, <2>3, <3>1, <3>2 DEF Folder!Ask
    <3> QED
      BY <3>3 DEF Folder!Next
  <2> QED
    BY <2>2, <2>3, <2>4, ReqWriters DEF Folder!vars
<1> QED
  BY <1>1, <1>2, <1>3, <1>4, <1>5, <1>6

LEMMA FolderInit ==
  ASSUME Init
  PROVE  Folder!Init
<1>1. PICK present \in SUBSET Comps, pw \in Passwords :
        live = [p \in Paths |-> IF p = Settings THEN [by |-> 0, pw |-> pw]
                                ELSE IF p \in present THEN [by |-> 0, run |-> "no"] ELSE None]
  BY DEF Init
<1>2. \A u \in Tokens : ~Open(u)
  BY DEF Init, Open, Journaled
<1>3. \A p \in Paths : RolledForward[p] = live[p]
  BY <1>2, NothingToRoll
<1>4. 0 \in 0 .. MaxEdits \cup Tokens
  BY BoundsAssumption
<1>5. [by |-> 0, pw |-> pw] # None /\ [by |-> 0, run |-> "no"] # None
  <2>1. [by |-> 0, pw |-> pw] \in Setting
    BY <1>4 DEF Setting
  <2>2. [by |-> 0, run |-> "no"] \in Comp
    BY <1>4 DEF Comp
  <2> QED
    BY <2>1, <2>2, NoneAssumption
<1>6. \A p \in Paths : live[p] # None <=> p \in present \cup {Settings}
  BY <1>1, <1>5
<1>7. {p \in Paths : RolledForward[p] # None} = present \cup {Settings}
  BY <1>3, <1>6 DEF Paths
<1>8. edits = 0 /\ req = [t \in Tokens |-> None] /\ committed = {}
  BY DEF Init
<1> QED
  BY <1>7, <1>8, FolderPaths DEF Folder!Init

\* The folder, with the journals on disk rolled forward, goes from what it was
\* to what a restore asks for in one step, the writing of the journal
\* (restoreLiveState, rollForwardRestores); and an operator's change is undone
\* by nothing but a restore.
THEOREM RestoresAreOneStep ==
  ASSUME MaxRenameFailures \in {0, 1}, Overlap = FALSE
  PROVE  Spec => RestoreIsOneStep
<1>1. Init => Folder!Init
  BY FolderInit
<1>2. RestoreInv /\ RestoreInv' /\ [Next]_vars => [Folder!Next]_(Folder!vars)
  <2> SUFFICES ASSUME RestoreInv, RestoreInv', [Next]_vars
               PROVE  [Folder!Next]_(Folder!vars)
    OBVIOUS
  <2>1. CASE Next
    BY <2>1, StepIsOne
  <2>2. CASE UNCHANGED vars
    <3>1. UNCHANGED <<live, dir, new, old, steps, req, edits, committed>>
      BY <2>2 DEF vars, disk, ghosts
    <3>2. UNCHANGED RolledForward
      BY <3>1 DEF RolledForward, TakesIn, TakesOut
    <3> QED
      BY <3>1, <3>2 DEF Folder!vars
  <2> QED
    BY <2>1, <2>2
<1> QED
  BY <1>1, <1>2, RestoreInvariant, PTL DEF Spec, RestoreIsOneStep, Folder!Spec

=============================================================================
