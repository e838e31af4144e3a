------------------------------- MODULE Courts -------------------------------
(***************************************************************************)
(* Who holds a court.  The doors that put a match on a court or move it to *)
(* another (a start, a reopen, a reopen that first sends the court's       *)
(* occupant back, a court move) run under the tournament-wide court lock   *)
(* and write under their competition's lock inside it; the doors that only *)
(* free a court (a send back, a finish), the organiser's own and a time    *)
(* edit take the competition's lock alone.  Other competitions are read    *)
(* before the transaction, the match's own inside it.                      *)
(*                                                                         *)
(* Clients keep a write until it is answered and send it again with the    *)
(* same id when the answer is lost, when the deadline passes while the     *)
(* first copy is still worked on, or when the process restarted.           *)
(*                                                                         *)
(* No match here feeds another, every match is one a reopen is for, and    *)
(* every transaction is one step.                                          *)
(***************************************************************************)
EXTENDS CourtQueue, FiniteSets

CONSTANTS Writes,       \* the client writes, by id
          Kinds,        \* the doors the clients use
          Handlers,     \* requests the server works on at once
          Layouts,      \* where the matches stand when the clients begin
          EditTimes,    \* the times an operator sets by hand
          MaxEvents     \* how many unlocked changes, repeats and restarts

ASSUME CourtsAssumption ==
  /\ Kinds \subseteq {"start", "back", "reopen", "swap", "move"}
  /\ EditTimes \subseteq 0..MaxTime
  /\ MaxEvents \in Nat

VARIABLES
  match,      \* match -> status, court, time; ungated: it runs on somebody's
              \* word and not on the gate's; barred: another match bars a side
  logged,     \* the write ids in the matches' score logs
  seen,       \* the move ids the process remembers
  courtLock,  \* the handler under the court lock
  hand,       \* handler -> the request it works on
  write,      \* write -> what its client asked, whether it is answered, how
              \* often it changed a match
  left        \* how many of those events are left

vars == <<match, logged, seen, courtLock, hand, write, left>>

Nobody == "nobody"

\* The clients begin with two matches on one court only where one was put there
\* past the gates.
ASSUME LayoutsAssumption ==
  /\ Nobody \notin Handlers \cup Writes
  /\ \A mm \in Layouts :
       /\ mm \in [Matches -> [status : {"scheduled", "running", "completed"},
                              court : CourtSet, time : 0..NoTime,
                              ungated : BOOLEAN, barred : BOOLEAN]]
       /\ \A m, n \in Matches :
            /\ m # n /\ mm[m].status = "running" /\ mm[n].status = "running"
            /\ mm[m].court = mm[n].court
            => mm[m].ungated \/ mm[n].ungated

\* over: the match was finished when the request came; lands: where a reopen
\* was found to land; crowd: the court held two; since: what others changed
\* after the queue's bounds were read.
Idle == [pc |-> "idle", w |-> Nobody, over |-> FALSE, lands |-> "running",
         bounds |-> [first |-> NoBound, last |-> NoBound],
         crowd |-> FALSE, since |-> {}]

Unsent == [at |-> "client", kind |-> "none", m |-> Nobody, to |-> Nobody,
           force |-> FALSE, late |-> FALSE, done |-> 0, forgot |-> FALSE]

Running(m) == match[m].status = "running"
Waiting(m) == match[m].status = "scheduled"
Finished(m) == match[m].status = "completed"

Spend == left > 0 /\ left' = left - 1

Init ==
  /\ match \in Layouts
  /\ logged = {}
  /\ seen = {}
  /\ courtLock = Nobody
  /\ hand = [h \in Handlers |-> Idle]
  /\ write = [w \in Writes |-> Unsent]
  /\ left = MaxEvents

-----------------------------------------------------------------------------
\* The court gates.

\* Another competition runs a match on m's court.
CrossCompCourtBusy(m) ==
  \E n \in Matches : /\ CompOf[n] # CompOf[m]
                     /\ Running(n)
                     /\ match[n].court = match[m].court

\* m's own competition runs another match on its court.
CourtOccupied(m) ==
  \E n \in Matches \ {m} : /\ CompOf[n] = CompOf[m]
                           /\ Running(n)
                           /\ match[n].court = match[m].court

\* A score write asks the other competitions only when it would move the match
\* into running and the match was not finished when the write came.
CrossGateOnStart(r, q) ==
  r.force \/ q.over \/ Running(r.m) \/ ~CrossCompCourtBusy(r.m)

\* Where a reopen lands: a match whose side another match bars goes back to
\* the queue.
ReopenLands(m) == IF match[m].barred THEN "scheduled" ELSE "running"
CrossGateOnReopen(r, lands) ==
  lands = "scheduled" \/ r.force \/ ~CrossCompCourtBusy(r.m)

-----------------------------------------------------------------------------
\* What a step does to the clients' writes and to the other handlers.

\* w took effect on match m.  A newer result on m makes every start that was
\* asked before it too old to land.
Effect(w, m, result) ==
  [x \in Writes |->
     [write[x] EXCEPT
        !.late = @ \/ (result /\ write[x].kind = "start" /\ write[x].m = m),
        !.done = IF x = w THEN @ + 1 ELSE @]]

\* A move under way hears of nothing after its bounds were read; the model keeps
\* what the doors without the court lock change meanwhile.
Noted(m, hands) ==
  [h \in Handlers |-> IF hands[h].pc = "body" /\ write[hands[h].w].kind = "move"
                      THEN [hands[h] EXCEPT !.since = @ \cup {m}]
                      ELSE hands[h]]

\* The request ends: its answer arrives, or is lost and the client keeps w.
Answer(h, ws, hands) ==
  /\ hand' = [hands EXCEPT ![h] = Idle]
  /\ \/ write' = [ws EXCEPT ![hand[h].w].at = "answered"] /\ UNCHANGED left
     \/ ws[hand[h].w].at = "sent" /\ write' = ws /\ Spend

\* A request under the court lock ends and frees it.
Release(h, ws) == Answer(h, ws, hand) /\ courtLock' = Nobody

Refuse(h) == Release(h, write) /\ UNCHANGED <<match, logged, seen>>

At(h, pc, kind) == hand[h].pc = pc /\ write[hand[h].w].kind = kind
Put(m, status, ungated) ==
  match' = [match EXCEPT ![m].status = status, ![m].ungated = ungated]

-----------------------------------------------------------------------------
\* The clients and the arrival of their writes.

\* What a client asks for, given the match as it is stored then; the write may
\* come in much later.  A court is forced, and its occupant sent back, by an
\* operator who was told it is taken.
Taken(m) == CourtOccupied(m) \/ CrossCompCourtBusy(m)
Asking(kind, m, to, force) == [Unsent EXCEPT
  !.at = "sent", !.kind = kind, !.m = m, !.to = to, !.force = force]
Asks(m) ==
  LET forced == IF Taken(m) /\ ~Running(m) THEN BOOLEAN ELSE {FALSE}
      others == {n \in Matches \ {m} : Running(n) /\ match[n].court = match[m].court}
      starts == IF Finished(m) THEN {} ELSE {Asking("start", m, Nobody, f) : f \in forced}
      backs == IF Running(m) THEN {Asking("back", m, Nobody, FALSE)} ELSE {}
      reopens == IF Finished(m) THEN {Asking("reopen", m, Nobody, f) : f \in forced}
                                     \cup {Asking("swap", m, b, FALSE) : b \in others}
                 ELSE {}
      moves == {Asking("move", m, c, Running(m)) : c \in CourtSet \ {match[m].court}}
  IN  {x \in starts \cup backs \cup reopens \cup moves : x.kind \in Kinds}

Ask(w) ==
  /\ write[w] = Unsent
  /\ \E m \in Matches : \E x \in Asks(m) : write' = [write EXCEPT ![w] = x]
  /\ UNCHANGED <<match, logged, seen, courtLock, hand, left>>

\* A write comes in; a copy of one still worked on is the client's deadline.
Receive(h, w) ==
  /\ hand[h] = Idle
  /\ write[w].at = "sent"
  /\ IF \E g \in Handlers : hand[g].w = w THEN Spend
                                          ELSE UNCHANGED left
  /\ hand' = [hand EXCEPT ![h] =
       [Idle EXCEPT !.pc = "arrived", !.w = w,
                    !.over = write[w].kind = "start" /\ Finished(write[w].m)]]
  /\ UNCHANGED <<match, logged, seen, courtLock, write>>

\* RevertMatchToQueue: the competition's lock alone.
SendBack(h) ==
  LET w == hand[h].w
      m == write[w].m
  IN  /\ At(h, "arrived", "back")
      /\ IF w \in logged \/ Finished(m)
         THEN Answer(h, write, hand) /\ UNCHANGED <<match, logged>>
         ELSE /\ Put(m, "scheduled", FALSE)
              /\ logged' = logged \cup {w}
              /\ Answer(h, Effect(w, m, TRUE), Noted(m, hand))
      /\ UNCHANGED <<seen, courtLock>>

\* writeOnce: the moves of one match are judged one at a time.
EnterMove(h) ==
  LET w == hand[h].w
  IN  /\ At(h, "arrived", "move")
      /\ ~ \E g \in Handlers : /\ hand[g].pc \in {"court", "body"}
                               /\ write[hand[g].w].kind = "move"
                               /\ write[hand[g].w].m = write[w].m
      /\ IF w \in seen
         THEN Answer(h, write, hand)
         ELSE hand' = [hand EXCEPT ![h].pc = "court"] /\ UNCHANGED <<write, left>>
      /\ UNCHANGED <<match, logged, seen, courtLock>>

-----------------------------------------------------------------------------
\* The doors under the court lock.

Lock(h) == courtLock = Nobody /\ courtLock' = h

LockStart(h) ==
  /\ At(h, "arrived", "start")
  /\ courtLock = Nobody
  /\ IF CrossGateOnStart(write[hand[h].w], hand[h])
     THEN /\ Lock(h)
          /\ hand' = [hand EXCEPT ![h].pc = "body"]
          /\ UNCHANGED <<match, logged, seen, write, left>>
     ELSE Refuse(h)

\* The score write's transaction.  A finished match stays finished, and a write
\* made before the stored result is held by the merge.
Start(h) ==
  LET w == hand[h].w
      m == write[w].m
      gated == ~write[w].force /\ ~Running(m)
  IN  /\ At(h, "body", "start")
      /\ IF \/ Finished(m) \/ match[m].barred \/ w \in logged \/ write[w].late
            \/ gated /\ CourtOccupied(m)
         THEN Refuse(h)
         ELSE /\ IF Running(m) THEN UNCHANGED match
                               ELSE Put(m, "running", write[w].force)
              /\ logged' = logged \cup {w}
              /\ Release(h, Effect(w, m, FALSE))
              /\ UNCHANGED seen

\* The form a faulty reopen would take: a resend is not looked for.
LockReopenAgain(h) ==
  /\ At(h, "arrived", "reopen")
  /\ courtLock = Nobody
  /\ IF CrossGateOnReopen(write[hand[h].w], ReopenLands(write[hand[h].w].m))
     THEN /\ Lock(h)
          /\ hand' = [hand EXCEPT ![h].pc = "body",
                                  ![h].lands = ReopenLands(write[hand[h].w].m)]
          /\ UNCHANGED <<match, logged, seen, write, left>>
     ELSE Refuse(h)

LockReopen(h) ==
  LET w == hand[h].w
      lands == ReopenLands(write[w].m)
  IN  /\ At(h, "arrived", "reopen")
      /\ courtLock = Nobody
      /\ IF /\ w \notin logged
            /\ Finished(write[w].m)
            /\ CrossGateOnReopen(write[w], lands)
         THEN /\ Lock(h)
              /\ hand' = [hand EXCEPT ![h].pc = "body", ![h].lands = lands]
              /\ UNCHANGED <<match, logged, seen, write, left>>
         ELSE Refuse(h)

\* requireBlockerHoldsCourt, then the target's own preconditions: both before
\* anything is sent back.
LockSwap(h) ==
  LET w == hand[h].w
      m == write[w].m
      b == write[w].to
      on == {n \in Matches : Running(n) /\ match[n].court = match[m].court}
  IN  /\ At(h, "arrived", "swap")
      /\ courtLock = Nobody
      /\ IF w \notin logged /\ b \in on /\ Finished(m) /\ ReopenLands(m) = "running"
         THEN /\ Lock(h)
              /\ hand' = [hand EXCEPT ![h].pc = "revert", ![h].crowd = on # {b}]
              /\ UNCHANGED <<match, logged, seen, write, left>>
         ELSE Refuse(h)

\* Faulty forms: the court lock is given back between the send back and the
\* reopen, or the send back takes the lock itself.
RevertAndUnlock(h) ==
  LET b == write[hand[h].w].to
  IN  /\ At(h, "revert", "swap")
      /\ IF Finished(b)
         THEN Refuse(h)
         ELSE /\ Put(b, "scheduled", FALSE)
              /\ write' = Effect(Nobody, b, TRUE)
              /\ hand' = [hand EXCEPT ![h].pc = "gate"]
              /\ courtLock' = Nobody
              /\ UNCHANGED <<logged, seen, left>>
RevertUnderOwnLock(h) == courtLock = Nobody /\ RevertAndUnlock(h)

RevertBlocker(h) ==
  LET b == write[hand[h].w].to
  IN  /\ At(h, "revert", "swap")
      /\ IF Finished(b)
         THEN Refuse(h)
         ELSE /\ Put(b, "scheduled", FALSE)
              /\ write' = Effect(Nobody, b, TRUE)
              /\ hand' = [hand EXCEPT ![h].pc = "gate"]
              /\ UNCHANGED <<logged, seen, courtLock, left>>

GateSwap(h) ==
  /\ At(h, "gate", "swap")
  /\ IF CrossGateOnReopen(write[hand[h].w], "running")
     THEN /\ hand' = [hand EXCEPT ![h].pc = "body"]
          /\ UNCHANGED <<match, logged, seen, courtLock, write, left>>
     ELSE Refuse(h)

\* The form a faulty reopen would take: where it lands is read again.
ReopenWhereItLandsNow(h) ==
  LET w == hand[h].w
      m == write[w].m
      lands == ReopenLands(m)
  IN  /\ At(h, "body", "reopen") \/ At(h, "body", "swap")
      /\ IF ~Finished(m) \/ (lands = "running" /\ ~write[w].force /\ CourtOccupied(m))
         THEN Refuse(h)
         ELSE /\ Put(m, lands, write[w].force /\ lands = "running")
              /\ logged' = logged \cup {w}
              /\ Release(h, Effect(w, m, TRUE))
              /\ UNCHANGED seen

\* The reopen's transaction.  One found to land in the queue was not asked about
\* the court and stays there.
Reopen(h) ==
  LET w == hand[h].w
      m == write[w].m
      lands == IF hand[h].lands = "scheduled" THEN "scheduled" ELSE ReopenLands(m)
  IN  /\ At(h, "body", "reopen") \/ At(h, "body", "swap")
      /\ IF ~Finished(m) \/ (lands = "running" /\ ~write[w].force /\ CourtOccupied(m))
         THEN Refuse(h)
         ELSE /\ Put(m, lands, write[w].force /\ lands = "running")
              /\ logged' = logged \cup {w}
              /\ Release(h, Effect(w, m, TRUE))
              /\ UNCHANGED seen

\* The form a faulty move would take: the bounds are read outside the lock.
LockMoveTooLate(h) ==
  LET r == write[hand[h].w]
  IN  /\ At(h, "court", "move")
      /\ hand' = [hand EXCEPT ![h].pc = "body",
                              ![h].bounds = CourtQueueBounds(match, r.to, r.m)]
      /\ UNCHANGED <<match, logged, seen, courtLock, write, left>>

LockMove(h) ==
  LET r == write[hand[h].w]
  IN  /\ At(h, "court", "move")
      /\ Lock(h)
      /\ hand' = [hand EXCEPT ![h].pc = "body",
                              ![h].bounds = CourtQueueBounds(match, r.to, r.m)]
      /\ UNCHANGED <<match, logged, seen, write, left>>

\* The move's transaction.  A running match moves only when its stop was
\* confirmed; only that move leaves its id in the score log.
Move(h) ==
  LET w == hand[h].w
      m == write[w].m
      stops == Running(m)
      moved == [match EXCEPT
        ![m].court = write[w].to,
        ![m].status = IF stops THEN "scheduled" ELSE @,
        ![m].ungated = FALSE,
        ![m].time = MovedQueueTime(stops, @, match[m].status, hand[h].bounds)]
  IN  /\ At(h, "body", "move")
      /\ \/ /\ w \in logged \/ match[m].court = write[w].to
            /\ seen' = seen \cup {w}
            /\ Release(h, write)
            /\ UNCHANGED <<match, logged>>
         \/ /\ w \notin logged /\ match[m].court # write[w].to
            /\ stops /\ ~write[w].force
            /\ Refuse(h)
         \/ /\ w \notin logged /\ match[m].court # write[w].to
            /\ stops => write[w].force
            /\ match' = IF m \in InPool THEN PushKnockoutPastPools(moved, CompOf[m])
                                        ELSE moved
            /\ logged' = IF stops THEN logged \cup {w} ELSE logged
            /\ seen' = seen \cup {w}
            /\ Release(h, Effect(w, m, stops))

-----------------------------------------------------------------------------
\* What happens under the competition's lock alone, and the process ending.

\* A decision or a bulk score finishes a match.
Finish(m) ==
  /\ ~Finished(m)
  /\ Spend
  /\ Put(m, "completed", FALSE)
  /\ write' = Effect(Nobody, m, TRUE)
  /\ hand' = Noted(m, hand)
  /\ UNCHANGED <<logged, seen, courtLock>>

\* Another match bars a side of m, or its withdrawal is taken back.
Bar(m) ==
  /\ Spend
  /\ match' = [match EXCEPT ![m].barred = ~@]
  /\ UNCHANGED <<logged, seen, courtLock, hand, write>>

UpdateMatchTime(m, t) ==
  /\ match[m].time # t
  /\ Spend
  /\ match' = [match EXCEPT ![m].time = t]
  /\ hand' = Noted(m, hand)
  /\ UNCHANGED <<logged, seen, courtLock, write>>

\* A representative bout the organiser adds, or a kachinuki pairing an advance
\* appends, sets the match running and asks no court.
RunUngated(m) ==
  /\ ~Running(m)
  /\ Spend
  /\ Put(m, "running", TRUE)
  /\ write' = Effect(Nobody, m, TRUE)
  /\ hand' = Noted(m, hand)
  /\ UNCHANGED <<logged, seen, courtLock>>

\* The process ends and is started again: its requests, its locks and the ids
\* it remembered are gone.
Restart ==
  /\ Spend
  /\ hand' = [h \in Handlers |-> Idle]
  /\ courtLock' = Nobody
  /\ seen' = {}
  /\ write' = [w \in Writes |->
       [write[w] EXCEPT !.forgot = @ \/ w \in seen \ logged]]
  /\ UNCHANGED <<match, logged>>

Work(h) ==
  \/ SendBack(h) \/ EnterMove(h)
  \/ LockStart(h) \/ Start(h)
  \/ LockReopen(h) \/ Reopen(h)
  \/ LockSwap(h) \/ RevertBlocker(h) \/ GateSwap(h)
  \/ LockMove(h) \/ Move(h)

Unlocked(m) ==
  Finish(m) \/ Bar(m) \/ RunUngated(m) \/ \E t \in EditTimes : UpdateMatchTime(m, t)

Next ==
  \/ \E w \in Writes : Ask(w)
  \/ \E h \in Handlers, w \in Writes : Receive(h, w)
  \/ \E h \in Handlers : Work(h)
  \/ \E m \in Matches : Unlocked(m)
  \/ Restart

Spec == Init /\ [][Next]_vars

-----------------------------------------------------------------------------
\* Properties.

\* Two matches never run on one court on the gates' word: of two that do, one
\* was forced there, or put there by a door that asks no court (engine's
\* checkCourtExclusivityTx and CheckCrossCompCourtBusyOnStart, bc-adna).
OneGatedMatchPerCourt ==
  \A m, n \in Matches :
    /\ m # n /\ Running(m) /\ Running(n)
    /\ match[m].court = match[n].court
    => match[m].ungated \/ match[n].ungated

\* A write changes its match once, however often it arrives: a resend is known
\* by its id in the score log or, for a move, to the process.  Only a waiting
\* match's move, which leaves no line, is made again after a restart.
WritesLandOnce ==
  \A w \in Writes : write[w].done > 1 => write[w].forgot

\* A reopen that sends the court's occupant back does so to a match of its own
\* court, and then reopens, unless the court held a second match, one was put
\* there past the gates meanwhile, or the target itself was changed
\* (RequeueBlockerAndReopen: one lock section for both).
SwapIsWhole ==
  [][\A h \in Handlers :
       LET m == write[hand[h].w].m
           b == write[hand[h].w].to
       IN  /\ hand[h].pc = "revert" /\ hand'[h].pc = "gate"
              => match[b].court = match[m].court /\ match'[b].status = "scheduled"
           /\ GateSwap(h) \/ (At(h, "body", "swap") /\ Reopen(h))
              => \/ hand'[h].pc = "body"
                 \/ match'[m].status # "completed"
                 \/ hand[h].crowd
                 \/ \E n \in Matches : /\ Running(n) /\ match[n].ungated
                                       /\ match[n].court = match[m].court
    ]_vars

\* Where a match stands in the queue of the court it was moved to: a match
\* stopped for the move first, a waiting one last, among the timed matches
\* nobody else changed since; a tie only where the day has no minute left
\* (UpdateMatchCourt's bounds are read before its transaction).  A pool bout that
\* moves leaves no knockout match of its competition waiting ahead of a pool bout
\* on a court where the knockout has not started.
MovedStandsWhereItWas ==
  [][\A h \in Handlers :
       LET m == write[hand[h].w].m
           others == {n \in QueueOn(match', match'[m].court, m) \ hand[h].since :
                        match'[n].time # NoTime}
       IN  At(h, "body", "move") /\ match'[m].court # match[m].court =>
             /\ \A n \in others :
               /\ Running(m) => match'[m].time < match'[n].time \/ match'[n].time = 0
               /\ Waiting(m) => match'[n].time < match'[m].time
                                  \/ match'[n].time = MaxTime
             /\ m \in InPool => \A n \in Matches \ InPool, q \in InPool :
                  /\ CompOf[n] = CompOf[m] /\ CompOf[q] = CompOf[m]
                  /\ match'[n].court = match'[q].court
                  /\ match'[n].time # NoTime /\ match'[q].time # NoTime
                  /\ \A x \in Matches \ InPool :
                       CompOf[x] = CompOf[m] /\ match'[x].court = match'[n].court
                         => match'[x].status = "scheduled"
                  => match'[q].time < match'[n].time \/ match'[n].time = MaxTime
    ]_vars

\* While a request is worked on, one of them can go on: no door waits for a lock
\* it holds itself, and a refusal frees what it took (the court lock is not
\* reentrant, and RevertMatchToQueue is called under it).
NobodyStuck ==
  (\E h \in Handlers : hand[h] # Idle) => \E h \in Handlers : ENABLED Work(h)
=============================================================================
