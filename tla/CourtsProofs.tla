---------------------------- MODULE CourtsProofs ----------------------------
(***************************************************************************)
(* The court gates and the once-only writes, for any matches, courts,      *)
(* writes and handlers.  The argument for the gates: whoever works under   *)
(* the court lock is the only one who can make a court busier on the       *)
(* gates' word, so what it found free when it took the lock is free when   *)
(* it writes, unless its write has become too old to land meanwhile.       *)
(***************************************************************************)
EXTENDS Courts, TLAPS

MatchFields == {"status", "court", "time", "ungated", "barred"}
HandFields == {"pc", "w", "over", "lands", "bounds", "crowd", "since"}

WriteRecords ==
  [at : {"client", "sent", "answered"},
   kind : {"none", "start", "back", "reopen", "swap", "move"},
   m : Matches \cup {Nobody}, to : Matches \cup CourtSet \cup {Nobody},
   force : BOOLEAN, late : BOOLEAN, done : Nat, forgot : BOOLEAN]

WriteType == [Writes -> WriteRecords]

\* The shapes the argument needs; times and queue bounds are free.
Shape ==
  /\ DOMAIN match = Matches
  /\ \A m \in Matches : DOMAIN match[m] = MatchFields
  /\ DOMAIN hand = Handlers
  /\ \A h \in Handlers : DOMAIN hand[h] = HandFields
  /\ write \in WriteType

Asked(w) ==
  /\ w \in Writes
  /\ write[w].at # "client"
  /\ write[w].m \in Matches
  /\ write[w].kind = "swap" => write[w].to \in Matches

\* A write some client sent asks for a match, and a handler that works has one.
Sent == \A w \in Writes : write[w].at # "client" => Asked(w)
Busy == \A h \in Handlers : hand[h].pc # "idle" => Asked(hand[h].w)

\* Whoever is past a gate holds the court lock.
Locked == \A h \in Handlers : hand[h].pc \in {"revert", "gate", "body"} => courtLock = h

\* m runs on the gates' word.
Holds(m) == Running(m) /\ ~match[m].ungated

\* No other competition holds m's court on the gates' word.
ClearCourt(m) ==
  \A n \in Matches : CompOf[n] # CompOf[m] /\ Holds(n) => match[n].court # match[m].court

\* A correction stays one, or has become too old to land.
Corrections ==
  \A h \in Handlers : hand[h].pc # "idle" /\ hand[h].over =>
     LET r == write[hand[h].w] IN
       r.kind = "start" /\ (Finished(r.m) \/ r.late)

\* What the gate found is still so when the write is made.
GateHolds(h) ==
  LET r == write[hand[h].w] IN
    /\ r.kind = "start" =>
         r.force \/ r.late \/ Finished(r.m) \/ Running(r.m) \/ ClearCourt(r.m)
    /\ r.kind \in {"reopen", "swap"} =>
         r.force \/ hand[h].lands = "scheduled" \/ ClearCourt(r.m)
Cleared ==
  \A h \in Handlers : hand[h].pc = "body" => GateHolds(h)

\* A court whose occupant is being sent back is, but for that occupant, nobody's
\* on the gates' word, unless it held two when the swap began.
SwapHolds(h) ==
  LET r == write[hand[h].w] IN
    /\ hand[h].pc = "revert" => match[r.to].court = match[r.m].court
    /\ hand[h].crowd \/ \A n \in Matches :
         Holds(n) /\ match[n].court = match[r.m].court => hand[h].pc = "revert" /\ n = r.to
Swapping ==
  \A h \in Handlers :
    hand[h].pc \in {"revert", "gate", "body"} /\ write[hand[h].w].kind = "swap" => SwapHolds(h)

Mover(h) == hand[h].pc \in {"court", "body"} /\ write[hand[h].w].kind = "move"

\* A write at work has not landed yet, as far as the log and the process know.
NotYet ==
  /\ \A h \in Handlers :
       /\ /\ hand[h].pc \in {"revert", "gate", "body"}
          /\ write[hand[h].w].kind \in {"reopen", "swap"}
          => hand[h].w \notin logged
       /\ Mover(h) => hand[h].w \notin seen
  /\ \A g, h \in Handlers : Mover(g) /\ Mover(h) /\ g # h =>
       write[hand[g].w].m # write[hand[h].w].m

\* A write that landed is in a log, or is a move the process remembers or was
\* made to forget.
Landed ==
  \A w \in Writes :
    /\ write[w].done > 0 =>
         w \in logged \/ (write[w].kind = "move" /\ (w \in seen \/ write[w].forgot))
    /\ write[w].done > 1 => write[w].forgot

IInv == /\ Shape /\ Sent /\ Busy /\ Locked /\ OneGatedMatchPerCourt
        /\ Corrections /\ Cleared /\ Swapping /\ NotYet /\ Landed

-----------------------------------------------------------------------------
\* What the operators the doors are built from do.

MatchShape(mm) == DOMAIN mm = Matches /\ \A m \in Matches : DOMAIN mm[m] = MatchFields

\* A status is put on one match and nothing else of it changes.
LEMMA PutIs ==
  ASSUME MatchShape(match), NEW m \in Matches, NEW s, NEW u, Put(m, s, u)
  PROVE  /\ MatchShape(match')
         /\ match'[m].status = s /\ match'[m].ungated = u
         /\ match'[m].court = match[m].court
         /\ \A n \in Matches \ {m} : match'[n] = match[n]
  BY DEF Put, MatchShape, MatchFields

\* What a write keeps of the clients' writes as the server works.
Kept(ws) ==
  /\ ws \in WriteType
  /\ \A x \in Writes :
       /\ ws[x].kind = write[x].kind /\ ws[x].m = write[x].m /\ ws[x].to = write[x].to
       /\ ws[x].force = write[x].force /\ ws[x].forgot = write[x].forgot
       /\ write[x].at # "client" <=> ws[x].at # "client"
       /\ write[x].late => ws[x].late

LEMMA EffectIs ==
  ASSUME write \in WriteType, NEW w, NEW m, NEW r \in BOOLEAN
  PROVE  LET e == Effect(w, m, r) IN
         /\ Kept(e)
         /\ \A x \in Writes :
              /\ e[x].at = write[x].at
              /\ r /\ write[x].kind = "start" /\ write[x].m = m => e[x].late
              /\ e[x].done = IF x = w THEN write[x].done + 1 ELSE write[x].done
<1> DEFINE e == Effect(w, m, r)
           late(x) == write[x].late \/ (r /\ write[x].kind = "start" /\ write[x].m = m)
           done(x) == IF x = w THEN write[x].done + 1 ELSE write[x].done
           v(x) == [write[x] EXCEPT !.late = late(x), !.done = done(x)]
<1>1. \A x \in Writes : late(x) \in BOOLEAN /\ done(x) \in Nat
  BY DEF WriteType, WriteRecords
<1>2. e = [x \in Writes |-> v(x)]
  BY DEF Effect
<1>3. ASSUME NEW x \in Writes
      PROVE  /\ v(x) \in WriteRecords
             /\ v(x).at = write[x].at /\ v(x).kind = write[x].kind /\ v(x).m = write[x].m
             /\ v(x).to = write[x].to /\ v(x).force = write[x].force
             /\ v(x).forgot = write[x].forgot /\ v(x).late = late(x) /\ v(x).done = done(x)
  <2> DEFINE l == late(x)
             d == done(x)
  <2>1. l \in BOOLEAN /\ d \in Nat
    BY <1>1
  <2> HIDE DEF l, d
  <2>2. LET u == [write[x] EXCEPT !.late = l, !.done = d] IN
        /\ u \in WriteRecords
        /\ u.at = write[x].at /\ u.kind = write[x].kind /\ u.m = write[x].m
        /\ u.to = write[x].to /\ u.force = write[x].force
        /\ u.forgot = write[x].forgot /\ u.late = l /\ u.done = d
    BY <2>1 DEF WriteType, WriteRecords
  <2> QED BY <2>2, Zenon DEF l, d
<1> HIDE DEF e, v
<1>4. \A x \in Writes : e[x] = v(x)
  BY <1>2
<1>5. e \in WriteType
  BY <1>2, <1>3 DEF WriteType
<1>6. e = Effect(w, m, r)
  BY DEF e
<1> QED BY ZenonT(40), <1>3, <1>4, <1>5, <1>6 DEF Kept, late, done

LEMMA AnswerIs ==
  ASSUME write \in WriteType, NEW h \in Handlers, NEW ws, Kept(ws), NEW hands,
         hand[h].w \in Writes, write[hand[h].w].at # "client", Answer(h, ws, hands)
  PROVE  /\ hand' = [hands EXCEPT ![h] = Idle]
         /\ Kept(write')
         /\ \A x \in Writes : write'[x].done = ws[x].done /\ write'[x].late = ws[x].late
<1>1. hand' = [hands EXCEPT ![h] = Idle]
  BY DEF Answer
<1>2. CASE write' = ws
  BY <1>1, <1>2
<1>3. CASE write' = [ws EXCEPT ![hand[h].w].at = "answered"]
  <2> DEFINE w == hand[h].w
  <2>1. ws \in [Writes -> WriteRecords] /\ w \in Writes
    BY DEF Kept, WriteType
  <2>2. \A x \in Writes : write'[x] = IF x = w THEN [ws[x] EXCEPT !.at = "answered"] ELSE ws[x]
    BY <1>3, <2>1
  <2>3. \A q \in WriteRecords :
          LET a == [q EXCEPT !.at = "answered"] IN
          /\ a \in WriteRecords /\ a.at = "answered"
          /\ a.kind = q.kind /\ a.m = q.m /\ a.to = q.to /\ a.force = q.force
          /\ a.forgot = q.forgot /\ a.late = q.late /\ a.done = q.done
    BY DEF WriteRecords
  <2>4. write' \in WriteType
    BY <1>3, <2>1, <2>2, <2>3 DEF WriteType
  <2>5. \A x \in Writes :
          /\ write'[x].kind = ws[x].kind /\ write'[x].m = ws[x].m /\ write'[x].to = ws[x].to
          /\ write'[x].force = ws[x].force /\ write'[x].forgot = ws[x].forgot
          /\ write'[x].late = ws[x].late /\ write'[x].done = ws[x].done
          /\ x # w => write'[x].at = ws[x].at
          /\ x = w => write'[x].at = "answered"
    <3>1. ASSUME NEW x \in Writes
          PROVE  /\ write'[x].kind = ws[x].kind /\ write'[x].m = ws[x].m /\ write'[x].to = ws[x].to
                 /\ write'[x].force = ws[x].force /\ write'[x].forgot = ws[x].forgot
                 /\ write'[x].late = ws[x].late /\ write'[x].done = ws[x].done
                 /\ x # w => write'[x].at = ws[x].at
                 /\ x = w => write'[x].at = "answered"
      <4>1. ws[x] \in WriteRecords
        BY <2>1
      <4>2. CASE x = w
        <5>1. write'[x] = [ws[x] EXCEPT !.at = "answered"]
          BY <2>2, <4>2
        <5> QED
          BY <2>3, <4>1, <4>2, <5>1
      <4>3. CASE x # w
        BY <2>2, <4>3
      <4> QED
        BY <4>2, <4>3
    <3> QED
      BY <3>1
  <2> QED
    BY <1>1, <2>4, <2>5 DEF Kept
<1> QED
  BY <1>2, <1>3 DEF Answer

\* Nothing but what was noted changes in the other requests.
LEMMA NotedIs ==
  ASSUME NEW m, DOMAIN hand = Handlers, \A h \in Handlers : DOMAIN hand[h] = HandFields
  PROVE  LET n == Noted(m, hand) IN
         /\ DOMAIN n = Handlers
         /\ \A h \in Handlers :
              /\ DOMAIN n[h] = HandFields
              /\ n[h].pc = hand[h].pc /\ n[h].w = hand[h].w
              /\ n[h].over = hand[h].over /\ n[h].lands = hand[h].lands
              /\ n[h].crowd = hand[h].crowd
  BY DEF Noted, HandFields

\* Pushing the knockout past its pools changes times only.
LEMMA PushChangesTimesOnly ==
  ASSUME NEW mm, MatchShape(mm), NEW c
  PROVE  LET p == PushKnockoutPastPools(mm, c) IN
         /\ MatchShape(p)
         /\ \A m \in Matches :
              /\ p[m].status = mm[m].status /\ p[m].court = mm[m].court
              /\ p[m].ungated = mm[m].ungated /\ p[m].barred = mm[m].barred
  BY ZenonT(40) DEF PushKnockoutPastPools, MatchShape, MatchFields

LEMMA InitInv == Init => IInv
<1> SUFFICES ASSUME Init PROVE IInv
  OBVIOUS
<1> USE LayoutsAssumption DEF Init
<1>1. Shape
  BY DEF Shape, WriteType, WriteRecords, MatchFields, HandFields, Idle, Unsent
<1>2. OneGatedMatchPerCourt
  BY DEF OneGatedMatchPerCourt, Running
<1>3. \A h \in Handlers : hand[h].pc = "idle"
  BY DEF Idle
<1>4. Landed /\ Sent
  BY DEF Landed, Sent, Unsent
<1> QED BY <1>1, <1>2, <1>3, <1>4 DEF IInv, Sent, Asked, Busy, Locked, Corrections, Cleared, Swapping, NotYet, Mover

-----------------------------------------------------------------------------
\* The steps by what they do to the invariant.

\* A request ends with nothing changed but what the process remembers.
LEMMA RequestEnds ==
  ASSUME IInv, NEW h \in Handlers, hand' = [hand EXCEPT ![h] = Idle], Kept(write'),
         \A x \in Writes : write'[x].done = write[x].done,
         UNCHANGED <<match, logged>>,
         courtLock' = courtLock \/ (courtLock' = Nobody /\ courtLock \in {Nobody, h}),
         seen' = seen \/ (seen' = seen \cup {hand[h].w} /\ Mover(h))
  PROVE  IInv'
<1> USE LayoutsAssumption DEF IInv, Kept
<1>1. Shape' /\ OneGatedMatchPerCourt'
  BY DEF Shape, HandFields, Idle, OneGatedMatchPerCourt, Running
<1>2. /\ hand'[h].pc = "idle"
      /\ \A g \in Handlers \ {h} : hand'[g] = hand[g]
  BY DEF Shape, Idle
<1>3. Sent' /\ Busy' /\ Locked'
  BY <1>2 DEF Sent, Busy, Locked, Asked
<1>4. Corrections'
  BY SMTT(30), <1>2 DEF Corrections, Busy, Asked, Finished
<1>5. Cleared'
  <2> SUFFICES ASSUME NEW g \in Handlers, hand'[g].pc = "body" PROVE GateHolds(g)'
    BY DEF Cleared
  <2>1. hand'[g] = hand[g] /\ GateHolds(g) /\ hand[g].w \in Writes
    BY <1>2 DEF Cleared, Busy, Asked
  <2>2. /\ write'[hand[g].w].kind = write[hand[g].w].kind /\ write'[hand[g].w].m = write[hand[g].w].m
        /\ write'[hand[g].w].force = write[hand[g].w].force
        /\ write[hand[g].w].late => write'[hand[g].w].late
    BY <2>1
  <2> QED BY <2>1, <2>2 DEF GateHolds, ClearCourt, Holds, Running, Finished
<1>6. NotYet'
  BY <1>2 DEF NotYet, Mover, Busy, Asked
<1>7. Landed'
  BY DEF Landed
<1>8. Swapping'
  BY <1>2 DEF Swapping, SwapHolds, Holds, Running, Busy, Asked
<1> QED BY <1>1, <1>3, <1>4, <1>5, <1>6, <1>7, <1>8

\* A request goes on and takes, or keeps, the court lock.
LEMMA RequestGoesOn ==
  ASSUME IInv, NEW h \in Handlers, hand[h].pc # "idle",
         DOMAIN hand' = Handlers, DOMAIN hand'[h] = HandFields, 
         \A g \in Handlers \ {h} : hand'[g] = hand[g],
         hand'[h].w = hand[h].w, hand'[h].over = hand[h].over,
         UNCHANGED <<match, logged, seen, write>>,
         courtLock' = courtLock \/ courtLock = Nobody,
         hand'[h].pc \in {"revert", "gate", "body"} => courtLock' = h,
         hand'[h].pc = "body" => GateHolds(h)',
         hand'[h].pc \in {"revert", "gate", "body"} /\ write[hand[h].w].kind = "swap" => SwapHolds(h)',
         NotYet'
  PROVE  IInv'
<1> USE LayoutsAssumption DEF IInv
<1>1. Shape' /\ OneGatedMatchPerCourt' /\ Landed'
  BY DEF Shape, OneGatedMatchPerCourt, Running, Landed
<1>2. Sent' /\ Locked'
  BY DEF Sent, Locked, Asked
<1>6. Busy'
  BY DEF Sent, Busy, Asked
<1>3. Corrections'
  BY DEF Corrections, Busy, Asked, Finished
<1>4. Cleared'
  <2> SUFFICES ASSUME NEW g \in Handlers, hand'[g].pc = "body" PROVE GateHolds(g)'
    BY DEF Cleared
  <2>1. CASE g = h
    BY <2>1
  <2>2. CASE g # h
    <3>1. hand'[g] = hand[g] /\ GateHolds(g)
      BY <2>2 DEF Cleared
    <3> QED BY <3>1 DEF GateHolds, ClearCourt, Holds, Running, Finished
  <2> QED BY <2>1, <2>2
<1>5. Swapping'
  BY DEF Swapping, SwapHolds, Holds, Running
<1> QED BY <1>1, <1>2, <1>3, <1>4, <1>5, <1>6

LEMMA AskKeeps == ASSUME IInv, NEW w \in Writes, Ask(w) PROVE IInv'
<1> USE LayoutsAssumption DEF IInv
<1>0. PICK m \in Matches : \E x \in Asks(m) : write' = [write EXCEPT ![w] = x]
  BY DEF Ask
<1>1. PICK x \in Asks(m) : write' = [write EXCEPT ![w] = x]
  BY <1>0
<1>2. /\ x \in WriteRecords /\ x.at = "sent" /\ x.m = m /\ x.done = 0 /\ x.forgot = FALSE
      /\ x.kind = "swap" => x.to \in Matches
  <2>1. PICK k \in {"start", "back", "reopen", "swap", "move"},
             t \in Matches \cup CourtSet \cup {Nobody}, f \in BOOLEAN :
          x = Asking(k, m, t, f) /\ (k = "swap" => t \in Matches)
    <3>1. Running(m) \in BOOLEAN
      BY DEF Running
    <3> DEFINE forced == IF Taken(m) /\ ~Running(m) THEN BOOLEAN ELSE {FALSE}
               others == {n \in Matches \ {m} : Running(n) /\ match[n].court = match[m].court}
    <3>2. forced \subseteq BOOLEAN /\ others \subseteq Matches
      OBVIOUS
    <3>3. \/ x \in {Asking("start", m, Nobody, f) : f \in forced}
          \/ x = Asking("back", m, Nobody, FALSE)
          \/ x \in {Asking("reopen", m, Nobody, f) : f \in forced}
          \/ x \in {Asking("swap", m, b, FALSE) : b \in others}
          \/ x \in {Asking("move", m, c, Running(m)) : c \in CourtSet \ {match[m].court}}
      <4> HIDE DEF forced, others
      <4> QED BY Zenon DEF Asks, forced, others
    <3> HIDE DEF forced, others
    <3> QED BY <3>1, <3>2, <3>3
  <2> DEFINE a == Asking(k, m, t, f)
  <2>2. /\ a \in WriteRecords /\ a.at = "sent" /\ a.m = m /\ a.done = 0 /\ a.forgot = FALSE
        /\ a.kind = k /\ a.to = t
    BY DEF Unsent, Asking, WriteRecords
  <2> HIDE DEF a
  <2>3. x = a
    BY <2>1 DEF a
  <2> QED BY <2>1, <2>2, <2>3
<1>3. UNCHANGED <<match, logged, seen, courtLock, hand>> /\ write[w].at = "client"
  BY DEF Ask, Unsent
<1>4. \A h \in Handlers : hand[h].pc # "idle" => hand[h].w # w
  BY <1>3 DEF Busy, Asked
<1>5. \A y \in Writes \ {w} : write'[y] = write[y]
  BY <1>1 DEF Shape, WriteType
<1>6. write'[w] = x
  BY <1>1 DEF Shape, WriteType
<1>7. Shape' /\ OneGatedMatchPerCourt'
  BY <1>1, <1>2, <1>3 DEF Shape, WriteType, OneGatedMatchPerCourt, Running
<1>8. Sent' /\ Busy' /\ Locked'
  BY <1>2, <1>3, <1>4, <1>5, <1>6 DEF Sent, Busy, Locked, Asked
<1>9. Corrections' /\ Cleared'
  BY SMTT(30), <1>3, <1>4, <1>5 DEF Corrections, Cleared, GateHolds, ClearCourt, Holds, Running, Finished, Busy, Asked
<1>10. NotYet'
  BY <1>3, <1>4, <1>5 DEF NotYet, Mover, Busy, Asked
<1>11. Landed'
  BY <1>2, <1>3, <1>5, <1>6 DEF Landed
<1>12. Swapping'
  BY <1>3, <1>4, <1>5 DEF Swapping, SwapHolds, Holds, Running, Busy, Asked
<1> QED BY <1>7, <1>8, <1>9, <1>10, <1>11, <1>12

LEMMA ReceiveKeeps == ASSUME IInv, NEW h \in Handlers, NEW w \in Writes, Receive(h, w) PROVE IInv'
<1> USE LayoutsAssumption DEF IInv
<1>1. /\ hand'[h].pc = "arrived" /\ hand'[h].w = w /\ DOMAIN hand'[h] = HandFields
      /\ hand'[h].over => write[w].kind = "start" /\ Finished(write[w].m)
      /\ DOMAIN hand' = Handlers
      /\ \A g \in Handlers \ {h} : hand'[g] = hand[g]
  BY DEF Receive, Shape, Idle, HandFields
<1>2. UNCHANGED <<match, logged, seen, courtLock, write>> /\ write[w].at = "sent"
  BY DEF Receive
<1>3. Shape' /\ OneGatedMatchPerCourt' /\ Landed'
  BY <1>1, <1>2 DEF Shape, OneGatedMatchPerCourt, Running, Landed
<1>4. Sent' /\ Busy' /\ Locked'
  BY <1>1, <1>2 DEF Sent, Busy, Locked, Asked
<1>5. Corrections'
  BY <1>1, <1>2 DEF Corrections, Finished
<1>6. Cleared' /\ NotYet'
  BY <1>1, <1>2 DEF Cleared, GateHolds, ClearCourt, Holds, Running, Finished, NotYet, Mover
<1>7. Swapping'
  BY <1>1, <1>2 DEF Swapping, SwapHolds, Holds, Running
<1> QED BY <1>3, <1>4, <1>5, <1>6, <1>7

\* A refusal, or an answer that changes nothing.
LEMMA RefuseKeeps ==
  ASSUME IInv, NEW h \in Handlers, hand[h].pc # "idle", Answer(h, write, hand),
         UNCHANGED <<match, logged>>,
         courtLock' = courtLock \/ (courtLock' = Nobody /\ courtLock \in {Nobody, h}),
         seen' = seen \/ (seen' = seen \cup {hand[h].w} /\ Mover(h))
  PROVE  IInv'
<1>1. Asked(hand[h].w) /\ write \in WriteType /\ Kept(write)
  BY DEF IInv, Busy, Shape, Kept
<1>2. /\ hand' = [hand EXCEPT ![h] = Idle] /\ Kept(write')
      /\ \A x \in Writes : write'[x].done = write[x].done
  BY <1>1, AnswerIs DEF Asked
<1> QED BY <1>2, RequestEnds

LEMMA EnterMoveKeeps == ASSUME IInv, NEW h \in Handlers, EnterMove(h) PROVE IInv'
<1>1. CASE hand[h].w \in seen
  BY <1>1, RefuseKeeps DEF EnterMove, At
<1>2. CASE hand[h].w \notin seen
  <2>1. /\ hand' = [hand EXCEPT ![h].pc = "court"] /\ UNCHANGED <<match, logged, seen, courtLock, write>>
        /\ hand[h].pc = "arrived"
    BY <1>2 DEF EnterMove, At
  <2>2. /\ hand'[h].pc = "court" /\ hand'[h].w = hand[h].w /\ hand'[h].over = hand[h].over
        /\ DOMAIN hand' = Handlers /\ DOMAIN hand'[h] = HandFields
        /\ \A g \in Handlers \ {h} : hand'[g] = hand[g]
    BY <2>1 DEF IInv, Shape, HandFields
  <2>3. hand'[h].pc = "body" => GateHolds(h)'
    BY <2>1, <2>2 DEF GateHolds, ClearCourt, Holds, Running, Finished
  <2>4. NotYet'
    BY <1>2, <2>1, <2>2 DEF IInv, NotYet, Mover, EnterMove, At
  <2> QED BY <2>1, <2>2, <2>3, <2>4, RequestGoesOn
<1> QED BY <1>1, <1>2

LEMMA LockStartKeeps == ASSUME IInv, NEW h \in Handlers, LockStart(h) PROVE IInv'
<1> DEFINE r == write[hand[h].w]
<1>1. CASE ~CrossGateOnStart(r, hand[h])
  BY <1>1, RefuseKeeps DEF LockStart, At, Refuse, Release
<1>2. CASE CrossGateOnStart(r, hand[h])
  <2>1. /\ hand' = [hand EXCEPT ![h].pc = "body"] /\ UNCHANGED <<match, logged, seen, write>>
        /\ hand[h].pc = "arrived" /\ courtLock = Nobody /\ courtLock' = h /\ r.kind = "start"
    BY <1>2 DEF LockStart, At, Lock
  <2>2. /\ hand'[h].pc = "body" /\ hand'[h].w = hand[h].w /\ hand'[h].over = hand[h].over
        /\ DOMAIN hand' = Handlers /\ DOMAIN hand'[h] = HandFields
        /\ \A g \in Handlers \ {h} : hand'[g] = hand[g]
    BY <2>1 DEF IInv, Shape, HandFields
  <2>3. r.force \/ r.late \/ Finished(r.m) \/ Running(r.m) \/ ClearCourt(r.m)
    BY <1>2, <2>1 DEF CrossGateOnStart, CrossCompCourtBusy, ClearCourt, Holds, IInv, Corrections
  <2>4. hand'[h].pc = "body" => GateHolds(h)'
    BY ZenonT(40), <2>1, <2>2, <2>3 DEF GateHolds, ClearCourt, Holds, Running, Finished
  <2>5. NotYet'
    BY <2>1, <2>2 DEF IInv, NotYet, Mover
  <2> QED BY <2>1, <2>2, <2>4, <2>5, RequestGoesOn
<1> QED BY <1>1, <1>2

LEMMA LockReopenKeeps == ASSUME IInv, NEW h \in Handlers, LockReopen(h) PROVE IInv'
<1> DEFINE w == hand[h].w
           r == write[w]
           lands == ReopenLands(r.m)
           open == w \notin logged /\ Finished(r.m) /\ CrossGateOnReopen(r, lands)
<1>1. CASE ~open
  BY <1>1, RefuseKeeps DEF LockReopen, At, Refuse, Release
<1>2. CASE open
  <2>1. /\ hand' = [hand EXCEPT ![h].pc = "body", ![h].lands = lands]
        /\ UNCHANGED <<match, logged, seen, write>> /\ r.kind = "reopen"
        /\ hand[h].pc = "arrived" /\ courtLock = Nobody /\ courtLock' = h
    BY <1>2 DEF LockReopen, At, Lock
  <2>2. /\ hand'[h].pc = "body" /\ hand'[h].w = hand[h].w /\ hand'[h].over = hand[h].over
        /\ hand'[h].lands = lands
        /\ DOMAIN hand' = Handlers /\ DOMAIN hand'[h] = HandFields
        /\ \A g \in Handlers \ {h} : hand'[g] = hand[g]
    BY <2>1 DEF IInv, Shape, HandFields
  <2>3. r.force \/ lands = "scheduled" \/ ClearCourt(r.m)
    BY <1>2 DEF CrossGateOnReopen, CrossCompCourtBusy, ClearCourt, Holds
  <2>4. hand'[h].pc = "body" => GateHolds(h)'
    BY ZenonT(40), <2>1, <2>2, <2>3 DEF GateHolds, ClearCourt, Holds, Running, Finished
  <2>5. NotYet'
    BY <1>2, <2>1, <2>2 DEF IInv, NotYet, Mover
  <2> QED BY <2>1, <2>2, <2>4, <2>5, RequestGoesOn
<1> QED BY <1>1, <1>2

LEMMA LockSwapKeeps == ASSUME IInv, NEW h \in Handlers, LockSwap(h) PROVE IInv'
<1> DEFINE w == hand[h].w
           m == write[w].m
           on == {n \in Matches : Running(n) /\ match[n].court = match[m].court}
           open == w \notin logged /\ write[w].to \in on /\ Finished(m) /\ ReopenLands(m) = "running"
<1>1. CASE ~open
  BY <1>1, RefuseKeeps DEF LockSwap, At, Refuse, Release
<1>2. CASE open
  <2>1. /\ hand' = [hand EXCEPT ![h].pc = "revert", ![h].crowd = on # {write[w].to}]
        /\ UNCHANGED <<match, logged, seen, write>> /\ write[w].kind = "swap"
        /\ hand[h].pc = "arrived" /\ courtLock = Nobody /\ courtLock' = h
    BY <1>2 DEF LockSwap, At, Lock
  <2>7. \/ on # {write[w].to}
        \/ \A n \in Matches : Running(n) /\ match[n].court = match[m].court => n = write[w].to
    OBVIOUS
  <2>6. match[write[w].to].court = match[m].court
    BY <1>2
  <2> HIDE DEF on
  <2>2. /\ hand'[h].pc = "revert" /\ hand'[h].crowd = (on # {write[w].to}) /\ hand'[h].w = hand[h].w /\ hand'[h].over = hand[h].over
        /\ DOMAIN hand' = Handlers /\ DOMAIN hand'[h] = HandFields
        /\ \A g \in Handlers \ {h} : hand'[g] = hand[g]
    BY <2>1 DEF IInv, Shape, HandFields
  <2>3. hand'[h].pc = "body" => GateHolds(h)'
    BY <2>1, <2>2 DEF GateHolds, ClearCourt, Holds, Running, Finished
  <2>4. NotYet'
    BY SMTT(30), <1>2, <2>1, <2>2 DEF IInv, NotYet, Mover
  <2>5. SwapHolds(h)'
    BY <2>6, <2>7, <2>1, <2>2 DEF SwapHolds, Holds, Running
  <2> QED BY <2>1, <2>2, <2>3, <2>4, <2>5, RequestGoesOn
<1> QED BY <1>1, <1>2

LEMMA GateSwapKeeps == ASSUME IInv, NEW h \in Handlers, GateSwap(h) PROVE IInv'
<1> DEFINE w == hand[h].w
           r == write[w]
<1>0. hand[h].pc = "gate" /\ r.kind = "swap" /\ courtLock = h
  BY DEF GateSwap, At, IInv, Locked
<1>1. CASE ~CrossGateOnReopen(r, "running")
  BY <1>0, <1>1, RefuseKeeps DEF GateSwap, At, Refuse, Release
<1>2. CASE CrossGateOnReopen(r, "running")
  <2>1. /\ hand' = [hand EXCEPT ![h].pc = "body"]
        /\ UNCHANGED <<match, logged, seen, write, courtLock>>
    BY <1>2 DEF GateSwap
  <2>2. /\ hand'[h].pc = "body" /\ hand'[h].w = hand[h].w /\ hand'[h].over = hand[h].over
        /\ hand'[h].crowd = hand[h].crowd
        /\ DOMAIN hand' = Handlers /\ DOMAIN hand'[h] = HandFields
        /\ \A g \in Handlers \ {h} : hand'[g] = hand[g]
    BY <2>1 DEF IInv, Shape, HandFields
  <2>3. r.force \/ ClearCourt(r.m)
    BY <1>2 DEF CrossGateOnReopen, CrossCompCourtBusy, ClearCourt, Holds
  <2>4. hand'[h].pc = "body" => GateHolds(h)'
    BY ZenonT(40), <1>0, <2>1, <2>2, <2>3 DEF GateHolds, ClearCourt, Holds, Running, Finished
  <2>5. NotYet'
    BY <1>0, <2>1, <2>2 DEF IInv, NotYet, Mover
  <2>6. SwapHolds(h)'
    BY <1>0, <2>1, <2>2 DEF IInv, Swapping, SwapHolds, Holds, Running
  <2> QED BY <1>0, <2>1, <2>2, <2>4, <2>5, <2>6, RequestGoesOn
<1> QED BY <1>1, <1>2

LEMMA LockMoveKeeps == ASSUME IInv, NEW h \in Handlers, LockMove(h) PROVE IInv'
<1> DEFINE r == write[hand[h].w]
           bounds == CourtQueueBounds(match, r.to, r.m)
<1>1. /\ hand' = [hand EXCEPT ![h].pc = "body", ![h].bounds = bounds]
      /\ UNCHANGED <<match, logged, seen, write>> /\ r.kind = "move"
      /\ hand[h].pc = "court" /\ courtLock = Nobody /\ courtLock' = h
  BY DEF LockMove, At, Lock
<1>2. /\ hand'[h].pc = "body" /\ hand'[h].w = hand[h].w /\ hand'[h].over = hand[h].over
      /\ DOMAIN hand' = Handlers /\ DOMAIN hand'[h] = HandFields
      /\ \A g \in Handlers \ {h} : hand'[g] = hand[g]
  BY <1>1 DEF IInv, Shape, HandFields
<1>3. hand'[h].pc = "body" => GateHolds(h)'
  BY <1>1, <1>2 DEF GateHolds, ClearCourt, Holds, Running, Finished
<1>4. NotYet'
  BY <1>1, <1>2 DEF IInv, NotYet, Mover
<1>5. IInv'
  BY <1>1, <1>2, <1>3, <1>4, RequestGoesOn
<1> QED BY <1>5

-----------------------------------------------------------------------------
\* The steps that change a match.

\* The requests go on as they were, end, or have sent the occupant back.
HandsGoOn ==
  /\ DOMAIN hand' = Handlers
  /\ \A h \in Handlers :
       /\ DOMAIN hand'[h] = HandFields
       /\ \/ hand'[h].pc = "idle"
          \/ /\ hand'[h].w = hand[h].w /\ hand'[h].over = hand[h].over
             /\ hand'[h].lands = hand[h].lands /\ hand'[h].crowd = hand[h].crowd
             /\ hand'[h].pc = hand[h].pc \/ (hand[h].pc = "revert" /\ hand'[h].pc = "gate")

\* The lock stays, or is given back by the request that ends.
LockGoesOn ==
  courtLock' = courtLock \/ (courtLock' = Nobody /\ \A h \in Handlers : courtLock = h => hand'[h].pc = "idle")

\* The starts asked before a match's result are too old to land.
StaleStarts(n) ==
  \A x \in Writes : write[x].kind = "start" /\ write[x].m = n => write'[x].late

\* A write lands and is answered.
LEMMA LandsAndAnswers ==
  ASSUME write \in WriteType, NEW h \in Handlers, Asked(hand[h].w), NEW m, NEW r \in BOOLEAN,
         NEW hands, Answer(h, Effect(hand[h].w, m, r), hands)
  PROVE  /\ hand' = [hands EXCEPT ![h] = Idle]
         /\ Kept(write')
         /\ r => StaleStarts(m)
         /\ \A x \in Writes : write'[x].done = IF x = hand[h].w THEN write[x].done + 1
                                                             ELSE write[x].done
<1> DEFINE w == hand[h].w
           e == Effect(w, m, r)
<1>1. /\ Kept(e)
      /\ \A x \in Writes :
           /\ r /\ write[x].kind = "start" /\ write[x].m = m => e[x].late
           /\ e[x].done = IF x = w THEN write[x].done + 1 ELSE write[x].done
  BY EffectIs
<1> HIDE DEF e
<1>2. Answer(h, e, hands)
  BY DEF e
<1>3. /\ hand' = [hands EXCEPT ![h] = Idle] /\ Kept(write')
      /\ \A x \in Writes : write'[x].done = e[x].done /\ write'[x].late = e[x].late
  BY <1>1, <1>2, AnswerIs DEF Asked
<1> QED BY <1>1, <1>3 DEF StaleStarts

LEMMA MatchesChange ==
  ASSUME IInv, MatchShape(match'), Kept(write'), HandsGoOn, LockGoesOn,
         \A n \in Matches : Finished(n) /\ ~Finished(n)' => StaleStarts(n),
         OneGatedMatchPerCourt', Cleared', Swapping', NotYet', Landed'
  PROVE  IInv'
<1> USE LayoutsAssumption DEF IInv
<1>1. Shape'
  BY DEF Shape, MatchShape, HandsGoOn, Kept
<1>2. Sent' /\ Busy'
  BY DEF Sent, Busy, Asked, HandsGoOn, Kept
<1>3. Locked'
  BY DEF Locked, HandsGoOn, LockGoesOn
<1>4. Corrections'
  BY DEF Corrections, Busy, Asked, HandsGoOn, Kept, StaleStarts
<1> QED BY <1>1, <1>2, <1>3, <1>4

\* A change after which no match holds a court it did not hold before.
FreesOnly ==
  \A n \in Matches : /\ match'[n].court = match[n].court
                     /\ Holds(n)' => Holds(n)

LEMMA FreesKeepTheGates ==
  ASSUME IInv, FreesOnly, HandsGoOn, Kept(write'),
         \A n \in Matches : /\ Finished(n) /\ ~Finished(n)' => StaleStarts(n)
                            /\ Running(n) => Running(n)' \/ Finished(n)' \/ StaleStarts(n),
         \A h \in Handlers : hand[h].pc = "revert" /\ hand'[h].pc = "gate" =>
           match'[write[hand[h].w].to].status # "running"
  PROVE  OneGatedMatchPerCourt' /\ Cleared' /\ Swapping'
<1>1. OneGatedMatchPerCourt'
  BY DEF IInv, OneGatedMatchPerCourt, FreesOnly, Holds
<1>2. ASSUME NEW h \in Handlers, hand'[h].pc = "body" PROVE GateHolds(h)'
  <2>1. /\ hand[h].pc = "body" /\ hand'[h].w = hand[h].w /\ hand'[h].lands = hand[h].lands
        /\ Asked(hand[h].w) /\ GateHolds(h)
    BY <1>2 DEF HandsGoOn, IInv, Busy, Cleared
  <2> DEFINE m == write[hand[h].w].m
  <2>2. m \in Matches /\ write'[hand'[h].w].m = m
    BY <2>1 DEF Asked, Kept
  <2>3. ClearCourt(m) => ClearCourt(write[hand[h].w].m)'
    BY <2>1, <2>2 DEF ClearCourt, FreesOnly
  <2> QED BY <2>1, <2>2, <2>3 DEF GateHolds, Kept, Asked, StaleStarts
<1>3. ASSUME NEW h \in Handlers, hand'[h].pc \in {"revert", "gate", "body"},
             write'[hand'[h].w].kind = "swap"
      PROVE  SwapHolds(h)'
  <2>1. /\ hand[h].pc \in {"revert", "gate", "body"} /\ hand'[h].w = hand[h].w
        /\ hand'[h].crowd = hand[h].crowd /\ Asked(hand[h].w)
        /\ hand'[h].pc = hand[h].pc \/ (hand[h].pc = "revert" /\ hand'[h].pc = "gate")
    BY <1>3 DEF HandsGoOn, IInv, Busy
  <2>2. /\ write'[hand'[h].w].m = write[hand[h].w].m /\ write'[hand'[h].w].to = write[hand[h].w].to
        /\ write[hand[h].w].kind = "swap"
    BY <1>3, <2>1 DEF Asked, Kept
  <2>3. SwapHolds(h) /\ write[hand[h].w].m \in Matches /\ write[hand[h].w].to \in Matches
    BY <2>1, <2>2 DEF IInv, Swapping, Asked
  <2>4. \A n \in Matches : Holds(n)' => Holds(n) /\ match'[n].status = "running"
    BY DEF FreesOnly, Holds, Running
  <2> QED BY <2>1, <2>2, <2>3, <2>4 DEF SwapHolds, FreesOnly
<1> QED BY <1>1, <1>2, <1>3 DEF Cleared, Swapping

\* Under the court lock nobody else is past a gate.
LEMMA AloneUnderTheLock ==
  ASSUME IInv, NEW h \in Handlers, hand[h].pc = "body", HandsGoOn, hand'[h].pc = "idle"
  PROVE  Cleared' /\ Swapping'
  BY DEF IInv, Locked, Cleared, Swapping, HandsGoOn

\* The once-only part, when the write that lands is not in the log.
LEMMA NothingLands ==
  ASSUME IInv, HandsGoOn, Kept(write'), UNCHANGED <<logged, seen>>,
         \A x \in Writes : write'[x].done = write[x].done
  PROVE  NotYet' /\ Landed'
<1>1. NotYet'
  BY DEF IInv, NotYet, Mover, HandsGoOn, Kept, Busy, Asked
<1>2. Landed'
  BY DEF IInv, Landed, Kept
<1> QED BY <1>1, <1>2

LEMMA OneLands ==
  ASSUME IInv, NEW h \in Handlers, hand[h].pc # "idle", hand'[h].pc = "idle",
         HandsGoOn, Kept(write'),
         \A x \in Writes : write'[x].done = IF x = hand[h].w THEN write[x].done + 1
                                                        ELSE write[x].done,
         hand[h].w \notin logged,
         \/ logged' = logged \cup {hand[h].w} /\ seen' = seen
            /\ (write[hand[h].w].kind \in {"reopen", "swap"} => hand[h].pc = "body")
            /\ write[hand[h].w].kind # "move"
         \/ /\ Mover(h) /\ seen' = seen \cup {hand[h].w}
            /\ logged' \in {logged, logged \cup {hand[h].w}}
  PROVE  NotYet' /\ Landed'
<1> DEFINE w == hand[h].w
<1>1. Asked(w)
  BY DEF IInv, Busy
<1>2. NotYet'
  BY <1>1 DEF IInv, NotYet, Mover, HandsGoOn, Kept, Busy, Asked, Locked
<1>3. Landed'
  <2>1. /\ write[w].done \in Nat
        /\ write[w].done > 0 => write[w].kind = "move" /\ (w \in seen \/ write[w].forgot)
    BY <1>1 DEF IInv, Landed, Shape, WriteType, WriteRecords, Asked
  <2>2. write[w].kind = "move" => w \notin seen /\ w \in seen'
    BY DEF IInv, NotYet, Mover
  <2>3. write[w].kind # "move" => w \in logged'
    BY DEF Mover
  <2>4. ASSUME NEW x \in Writes, x # w
        PROVE  /\ write'[x].done > 0 =>
                    x \in logged' \/ (write'[x].kind = "move" /\ (x \in seen' \/ write'[x].forgot))
               /\ write'[x].done > 1 => write'[x].forgot
    BY <2>4 DEF IInv, Landed, Kept
  <2>5. /\ write'[w].done = write[w].done + 1 /\ write'[w].kind = write[w].kind
        /\ write'[w].forgot = write[w].forgot
    BY <1>1 DEF Kept, Asked
  <2> QED BY <2>1, <2>2, <2>3, <2>4, <2>5 DEF Landed
<1> QED BY <1>2, <1>3

LEMMA SendBackKeeps == ASSUME IInv, NEW h \in Handlers, SendBack(h) PROVE IInv'
<1> DEFINE w == hand[h].w
           m == write[w].m
<1>0. Asked(w) /\ write \in WriteType /\ MatchShape(match)
      /\ hand[h].pc = "arrived" /\ write[w].kind = "back" /\ UNCHANGED <<seen, courtLock>>
  BY DEF IInv, Busy, Shape, MatchShape, SendBack, At
<1>1. CASE w \in logged \/ Finished(m)
  BY <1>0, <1>1, RefuseKeeps DEF SendBack
<1>2. CASE ~(w \in logged \/ Finished(m))
  <2>1. /\ Put(m, "scheduled", FALSE) /\ logged' = logged \cup {w}
        /\ Answer(h, Effect(w, m, TRUE), Noted(m, hand))
    BY <1>2 DEF SendBack
  <2>2. /\ MatchShape(match') /\ match'[m].status = "scheduled" /\ match'[m].court = match[m].court
        /\ \A n \in Matches \ {m} : match'[n] = match[n]
    BY <1>0, <2>1, PutIs DEF Asked
  <2>3. /\ Kept(write') /\ StaleStarts(m)
        /\ hand' = [Noted(m, hand) EXCEPT ![h] = Idle]
        /\ \A x \in Writes : write'[x].done = IF x = w THEN write[x].done + 1 ELSE write[x].done
    <3> DEFINE n == Noted(m, hand)
    <3>1. Answer(h, Effect(w, m, TRUE), n)
      BY <2>1
    <3> HIDE DEF n
    <3>2. /\ Kept(write') /\ StaleStarts(m) /\ hand' = [n EXCEPT ![h] = Idle]
          /\ \A x \in Writes : write'[x].done = IF x = w THEN write[x].done + 1 ELSE write[x].done
      BY ZenonT(40), <1>0, <3>1, LandsAndAnswers
    <3> QED BY <3>2 DEF n
  <2>4. /\ HandsGoOn /\ hand'[h].pc = "idle" /\ LockGoesOn
        /\ \A g \in Handlers : hand'[g].pc \in {"idle", hand[g].pc}
    <3> DEFINE n == Noted(m, hand)
    <3>1. /\ DOMAIN n = Handlers
          /\ \A g \in Handlers :
              /\ DOMAIN n[g] = HandFields
              /\ n[g].pc = hand[g].pc /\ n[g].w = hand[g].w
              /\ n[g].over = hand[g].over /\ n[g].lands = hand[g].lands
              /\ n[g].crowd = hand[g].crowd
      BY NotedIs DEF IInv, Shape
    <3>2. hand' = [n EXCEPT ![h] = Idle]
      BY <2>3
    <3> HIDE DEF n
    <3> QED BY <1>0, <3>1, <3>2 DEF HandsGoOn, LockGoesOn, Idle, HandFields
  <2>5. NotYet' /\ Landed'
    BY <1>0, <1>2, <2>1, <2>3, <2>4, OneLands
  <2>6. FreesOnly
    BY <2>2 DEF FreesOnly, Holds, Running
  <2>7. \A n \in Matches : /\ Finished(n) /\ ~Finished(n)' => StaleStarts(n)
                           /\ Running(n) => Running(n)' \/ Finished(n)' \/ StaleStarts(n)
    BY <2>2, <2>3 DEF Finished, Running
  <2>8. \A g \in Handlers : ~(hand[g].pc = "revert" /\ hand'[g].pc = "gate")
    BY <2>4
  <2> QED BY <2>2, <2>3, <2>4, <2>5, <2>6, <2>7, <2>8, FreesKeepTheGates, MatchesChange
<1> QED BY <1>1, <1>2

LEMMA StartKeeps == ASSUME IInv, NEW h \in Handlers, Start(h) PROVE IInv'
<1> DEFINE w == hand[h].w
           m == write[w].m
           gated == ~write[w].force /\ ~Running(m)
           held == \/ Finished(m) \/ match[m].barred \/ w \in logged \/ write[w].late
                   \/ gated /\ CourtOccupied(m)
<1>0. /\ Asked(w) /\ write \in WriteType /\ MatchShape(match) /\ courtLock = h
      /\ hand[h].pc = "body" /\ write[w].kind = "start" /\ GateHolds(h)
  BY DEF IInv, Busy, Shape, MatchShape, Start, At, Locked, Cleared
<1>1. CASE held
  BY <1>0, <1>1, RefuseKeeps DEF Start, Refuse, Release
<1>2. CASE ~held
  <2>1. /\ IF Running(m) THEN UNCHANGED match ELSE Put(m, "running", write[w].force)
        /\ logged' = logged \cup {w} /\ UNCHANGED seen /\ courtLock' = Nobody
        /\ Answer(h, Effect(w, m, FALSE), hand)
    BY <1>2 DEF Start, Release
  <2>2. /\ MatchShape(match') /\ match'[m].court = match[m].court
        /\ Running(m) => match' = match
        /\ ~Running(m) => match'[m].status = "running" /\ match'[m].ungated = write[w].force
        /\ \A n \in Matches \ {m} : match'[n] = match[n]
    BY <1>0, <2>1, PutIs DEF Asked
  <2>3. /\ Kept(write') /\ hand' = [hand EXCEPT ![h] = Idle]
        /\ \A x \in Writes : write'[x].done = IF x = w THEN write[x].done + 1 ELSE write[x].done
    BY ZenonT(40), <1>0, <2>1, LandsAndAnswers
  <2>4. HandsGoOn /\ hand'[h].pc = "idle" /\ LockGoesOn
    BY <1>0, <2>1, <2>3 DEF HandsGoOn, LockGoesOn, IInv, Shape, Idle, HandFields
  <2>5. NotYet' /\ Landed'
    BY <1>0, <1>2, <2>1, <2>3, <2>4, OneLands
  <2>6. Cleared' /\ Swapping'
    BY <1>0, <2>4, AloneUnderTheLock
  <2>7. ~Running(m) /\ ~write[w].force =>
           \A n \in Matches \ {m} : Holds(n) => match[n].court # match[m].court
    BY <1>0, <1>2 DEF GateHolds, ClearCourt, CourtOccupied, Holds
  <2>8. OneGatedMatchPerCourt'
    BY <2>2, <2>7 DEF IInv, OneGatedMatchPerCourt, Running, Holds
  <2>9. \A n \in Matches : Finished(n) => Finished(n)'
    BY <1>2, <2>2 DEF Finished
  <2> QED BY <2>2, <2>3, <2>4, <2>5, <2>6, <2>8, <2>9, MatchesChange
<1> QED BY <1>1, <1>2

LEMMA ReopenKeeps == ASSUME IInv, NEW h \in Handlers, Reopen(h) PROVE IInv'
<1> DEFINE w == hand[h].w
           m == write[w].m
           lands == IF hand[h].lands = "scheduled" THEN "scheduled" ELSE ReopenLands(m)
           held == ~Finished(m) \/ (lands = "running" /\ ~write[w].force /\ CourtOccupied(m))
           ungated == write[w].force /\ lands = "running"
<1>0. /\ Asked(w) /\ write \in WriteType /\ MatchShape(match) /\ courtLock = h
      /\ hand[h].pc = "body" /\ write[w].kind \in {"reopen", "swap"} /\ GateHolds(h)
      /\ w \notin logged
  BY DEF IInv, Busy, Shape, MatchShape, Reopen, At, Locked, Cleared, NotYet
<1>1. CASE held
  BY <1>0, <1>1, RefuseKeeps DEF Reopen, Refuse, Release
<1>2. CASE ~held
  <2>1. /\ Put(m, lands, ungated)
        /\ logged' = logged \cup {w} /\ UNCHANGED seen /\ courtLock' = Nobody
        /\ Answer(h, Effect(w, m, TRUE), hand)
    BY <1>2 DEF Reopen, Release
  <2>2. /\ MatchShape(match') /\ match'[m].court = match[m].court
        /\ match'[m].status = lands /\ match'[m].ungated = ungated
        /\ \A n \in Matches \ {m} : match'[n] = match[n]
    BY <1>0, <2>1, PutIs DEF Asked
  <2>3. /\ Kept(write') /\ hand' = [hand EXCEPT ![h] = Idle] /\ StaleStarts(m)
        /\ \A x \in Writes : write'[x].done = IF x = w THEN write[x].done + 1 ELSE write[x].done
    BY ZenonT(40), <1>0, <2>1, LandsAndAnswers
  <2>4. HandsGoOn /\ hand'[h].pc = "idle" /\ LockGoesOn
    BY <1>0, <2>1, <2>3 DEF HandsGoOn, LockGoesOn, IInv, Shape, Idle, HandFields
  <2>5. NotYet' /\ Landed'
    BY <1>0, <2>1, <2>3, <2>4, OneLands
  <2>6. Cleared' /\ Swapping'
    BY <1>0, <2>4, AloneUnderTheLock
  <2>7. lands = "running" /\ ~ungated =>
           \A n \in Matches \ {m} : Holds(n) => match[n].court # match[m].court
    BY <1>0, <1>2 DEF GateHolds, ClearCourt, CourtOccupied, Holds
  <2>8. OneGatedMatchPerCourt'
    <3> HIDE DEF lands, ungated
    <3> QED BY <2>2, <2>7 DEF IInv, OneGatedMatchPerCourt, Running, Holds
  <2>9. \A n \in Matches : Finished(n) /\ ~Finished(n)' => StaleStarts(n)
    BY <2>2, <2>3 DEF Finished
  <2> QED BY <2>2, <2>3, <2>4, <2>5, <2>6, <2>8, <2>9, MatchesChange
<1> QED BY <1>1, <1>2

\* A result the server puts on a match lands no client's write.
LEMMA EffectOfNobody ==
  ASSUME write \in WriteType, NEW m, write' = Effect(Nobody, m, TRUE)
  PROVE  /\ Kept(write') /\ StaleStarts(m)
         /\ \A x \in Writes : write'[x].done = write[x].done
<1>1. PICK r \in BOOLEAN : r = TRUE
  OBVIOUS
<1> DEFINE e == Effect(Nobody, m, r)
<1>2. /\ Kept(e)
      /\ \A x \in Writes :
           /\ r /\ write[x].kind = "start" /\ write[x].m = m => e[x].late
           /\ e[x].done = IF x = Nobody THEN write[x].done + 1 ELSE write[x].done
  BY EffectIs
<1>3. write' = e
  BY <1>1
<1> HIDE DEF e
<1> QED BY <1>1, <1>2, <1>3, LayoutsAssumption DEF StaleStarts

LEMMA NotedHands ==
  ASSUME IInv, NEW m, hand' = Noted(m, hand) PROVE HandsGoOn /\ \A h \in Handlers : hand'[h].pc = hand[h].pc
  BY NotedIs DEF HandsGoOn, IInv, Shape

LEMMA RevertBlockerKeeps == ASSUME IInv, NEW h \in Handlers, RevertBlocker(h) PROVE IInv'
<1> DEFINE b == write[hand[h].w].to
<1>0. /\ Asked(hand[h].w) /\ write \in WriteType /\ MatchShape(match) /\ courtLock = h
      /\ hand[h].pc = "revert" /\ b \in Matches
  BY DEF IInv, Busy, Asked, Shape, MatchShape, RevertBlocker, At, Locked
<1>1. CASE Finished(b)
  BY <1>0, <1>1, RefuseKeeps DEF RevertBlocker, Refuse, Release
<1>2. CASE ~Finished(b)
  <2>1. /\ Put(b, "scheduled", FALSE) /\ write' = Effect(Nobody, b, TRUE)
        /\ hand' = [hand EXCEPT ![h].pc = "gate"] /\ UNCHANGED <<logged, seen, courtLock, left>>
    BY <1>2 DEF RevertBlocker
  <2>2. /\ MatchShape(match') /\ match'[b].status = "scheduled" /\ match'[b].court = match[b].court
        /\ \A n \in Matches \ {b} : match'[n] = match[n]
    BY <1>0, <2>1, PutIs
  <2>3. /\ Kept(write') /\ StaleStarts(b) /\ \A x \in Writes : write'[x].done = write[x].done
    BY <1>0, <2>1, EffectOfNobody
  <2>4. HandsGoOn /\ LockGoesOn
    BY <1>0, <2>1 DEF HandsGoOn, LockGoesOn, IInv, Shape, HandFields
  <2>5. NotYet' /\ Landed'
    BY <2>1, <2>3, <2>4, NothingLands
  <2>6. FreesOnly
    BY <2>2 DEF FreesOnly, Holds, Running
  <2>7. \A n \in Matches : /\ Finished(n) /\ ~Finished(n)' => StaleStarts(n)
                           /\ Running(n) => Running(n)' \/ Finished(n)' \/ StaleStarts(n)
    BY <2>2, <2>3 DEF Finished, Running
  <2>8. \A g \in Handlers : hand[g].pc = "revert" /\ hand'[g].pc = "gate" =>
          match'[write[hand[g].w].to].status # "running"
    BY SMTT(30), <1>0, <2>1, <2>2 DEF IInv, Locked
  <2> QED BY <2>2, <2>3, <2>4, <2>5, <2>6, <2>7, <2>8, FreesKeepTheGates, MatchesChange
<1> QED BY <1>1, <1>2

LEMMA MoveKeeps == ASSUME IInv, NEW h \in Handlers, Move(h) PROVE IInv'
<1> DEFINE w == hand[h].w
           m == write[w].m
           stops == Running(m)
           time == MovedQueueTime(stops, match[m].time, match[m].status, hand[h].bounds)
           moved == [match EXCEPT
             ![m].court = write[w].to,
             ![m].status = IF stops THEN "scheduled" ELSE @,
             ![m].ungated = FALSE,
             ![m].time = MovedQueueTime(stops, @, match[m].status, hand[h].bounds)]
<1>0. /\ Asked(w) /\ write \in WriteType /\ MatchShape(match) /\ courtLock = h
      /\ hand[h].pc = "body" /\ write[w].kind = "move" /\ Mover(h)
  BY DEF IInv, Busy, Shape, MatchShape, Move, At, Locked, Mover
<1>1. ASSUME seen' = seen \cup {w}, Release(h, write), UNCHANGED <<match, logged>> PROVE IInv'
  BY <1>0, <1>1, RefuseKeeps DEF Release
<1>2. ASSUME Refuse(h) PROVE IInv'
  BY <1>0, <1>2, RefuseKeeps DEF Release, Refuse
<1>3. ASSUME w \notin logged,
             match' = IF m \in InPool THEN PushKnockoutPastPools(moved, CompOf[m]) ELSE moved,
             logged' = IF stops THEN logged \cup {w} ELSE logged,
             seen' = seen \cup {w},
             Release(h, Effect(w, m, stops))
      PROVE  IInv'
  <2>1. /\ MatchShape(moved)
        /\ moved[m].status = IF stops THEN "scheduled" ELSE match[m].status
        /\ \A n \in Matches \ {m} : moved[n] = match[n]
    <3> HIDE DEF stops
    <3> QED BY <1>0 DEF MatchShape, MatchFields, Asked
  <2>2. /\ MatchShape(match')
        /\ \A n \in Matches : /\ match'[n].status = moved[n].status
                              /\ match'[n].court = moved[n].court
                              /\ match'[n].ungated = moved[n].ungated
    <3> HIDE DEF moved
    <3>1. CASE m \in InPool
      <4>1. match' = PushKnockoutPastPools(moved, CompOf[m])
        BY <1>3, <3>1
      <4> QED BY ZenonT(40), <2>1, <4>1, PushChangesTimesOnly
    <3>2. CASE m \notin InPool
      BY <1>3, <2>1, <3>2
    <3> QED BY <3>1, <3>2
  <2> HIDE DEF moved
  <2>3. /\ match'[m].status # "running"
        /\ match[m].status = "completed" => match'[m].status = "completed"
    BY <1>0, <2>1, <2>2 DEF Running, Finished, Asked
  <2>4. \A n \in Matches \ {m} : /\ match'[n].status = match[n].status
                                 /\ match'[n].court = match[n].court
                                 /\ match'[n].ungated = match[n].ungated
    BY <2>1, <2>2
  <2>5. stops \in BOOLEAN
    BY DEF Running
  <2>6. Answer(h, Effect(w, m, stops), hand) /\ courtLock' = Nobody
    BY <1>3 DEF Release
  <2> HIDE DEF stops
  <2>7. /\ Kept(write') /\ hand' = [hand EXCEPT ![h] = Idle]
        /\ \A x \in Writes : write'[x].done = IF x = w THEN write[x].done + 1 ELSE write[x].done
    BY ZenonT(40), <1>0, <2>5, <2>6, LandsAndAnswers
  <2>8. HandsGoOn /\ hand'[h].pc = "idle" /\ LockGoesOn
    BY <1>0, <2>6, <2>7 DEF HandsGoOn, LockGoesOn, IInv, Shape, Idle, HandFields
  <2>9. logged' \in {logged, logged \cup {w}}
    BY <1>3
  <2>10. NotYet' /\ Landed'
    BY <1>0, <1>3, <2>7, <2>8, <2>9, OneLands
  <2>11. Cleared' /\ Swapping'
    BY <1>0, <2>8, AloneUnderTheLock
  <2>12. OneGatedMatchPerCourt'
    BY <2>3, <2>4 DEF IInv, OneGatedMatchPerCourt, Running
  <2>13. \A n \in Matches : Finished(n) => Finished(n)'
    BY <2>3, <2>4 DEF Finished
  <2> QED BY SMTT(30), <2>2, <2>7, <2>8, <2>10, <2>11, <2>12, <2>13, MatchesChange
<1> QED BY ZenonT(40), <1>1, <1>2, <1>3 DEF Move

LEMMA FinishKeeps == ASSUME IInv, NEW m \in Matches, Finish(m) PROVE IInv'
<1>0. write \in WriteType /\ MatchShape(match)
  BY DEF IInv, Shape, MatchShape
<1>1. /\ Put(m, "completed", FALSE) /\ write' = Effect(Nobody, m, TRUE)
      /\ hand' = Noted(m, hand) /\ UNCHANGED <<logged, seen, courtLock>>
  BY DEF Finish
<1>2. /\ MatchShape(match') /\ match'[m].status = "completed" /\ match'[m].court = match[m].court
      /\ \A n \in Matches \ {m} : match'[n] = match[n]
  BY <1>0, <1>1, PutIs
<1>3. /\ Kept(write') /\ \A x \in Writes : write'[x].done = write[x].done
  BY <1>0, <1>1, EffectOfNobody
<1>4. HandsGoOn /\ LockGoesOn /\ \A h \in Handlers : hand'[h].pc = hand[h].pc
  BY <1>1, NotedHands DEF LockGoesOn
<1>5. NotYet' /\ Landed'
  BY <1>1, <1>3, <1>4, NothingLands
<1>6. FreesOnly
  BY <1>2 DEF FreesOnly, Holds, Running
<1>7. \A n \in Matches : /\ Finished(n) => Finished(n)'
                         /\ Running(n) => Running(n)' \/ Finished(n)'
  BY <1>2 DEF Finished, Running
<1>8. \A h \in Handlers : ~(hand[h].pc = "revert" /\ hand'[h].pc = "gate")
  BY <1>4
<1> QED BY <1>2, <1>3, <1>4, <1>5, <1>6, <1>7, <1>8, FreesKeepTheGates, MatchesChange

LEMMA RunUngatedKeeps == ASSUME IInv, NEW m \in Matches, RunUngated(m) PROVE IInv'
<1>0. write \in WriteType /\ MatchShape(match)
  BY DEF IInv, Shape, MatchShape
<1>1. /\ Put(m, "running", TRUE) /\ write' = Effect(Nobody, m, TRUE)
      /\ hand' = Noted(m, hand) /\ UNCHANGED <<logged, seen, courtLock>>
  BY DEF RunUngated
<1>2. /\ MatchShape(match') /\ match'[m].status = "running" /\ match'[m].court = match[m].court
      /\ match'[m].ungated = TRUE
      /\ \A n \in Matches \ {m} : match'[n] = match[n]
  BY <1>0, <1>1, PutIs
<1>3. /\ Kept(write') /\ StaleStarts(m) /\ \A x \in Writes : write'[x].done = write[x].done
  BY <1>0, <1>1, EffectOfNobody
<1>4. HandsGoOn /\ LockGoesOn /\ \A h \in Handlers : hand'[h].pc = hand[h].pc
  BY <1>1, NotedHands DEF LockGoesOn
<1>5. NotYet' /\ Landed'
  BY <1>1, <1>3, <1>4, NothingLands
<1>6. FreesOnly
  BY <1>2 DEF FreesOnly, Holds, Running
<1>7. \A n \in Matches : /\ Finished(n) /\ ~Finished(n)' => StaleStarts(n)
                         /\ Running(n) => Running(n)'
  BY <1>2, <1>3 DEF Finished, Running
<1>8. \A h \in Handlers : ~(hand[h].pc = "revert" /\ hand'[h].pc = "gate")
  BY <1>4
<1> QED BY <1>2, <1>3, <1>4, <1>5, <1>6, <1>7, <1>8, FreesKeepTheGates, MatchesChange

LEMMA BarOrTimeKeeps ==
  ASSUME IInv, NEW m \in Matches, Bar(m) \/ \E t \in EditTimes : UpdateMatchTime(m, t)
  PROVE  IInv'
<1>1. /\ MatchShape(match')
      /\ \A n \in Matches : /\ match'[n].status = match[n].status
                            /\ match'[n].court = match[n].court
                            /\ match'[n].ungated = match[n].ungated
  BY DEF IInv, Shape, MatchShape, MatchFields, Bar, UpdateMatchTime
<1>2. UNCHANGED <<logged, seen, courtLock, write>> /\ (hand' = hand \/ hand' = Noted(m, hand))
  BY DEF Bar, UpdateMatchTime
<1>3. Kept(write') /\ \A x \in Writes : write'[x].done = write[x].done
  BY <1>2 DEF Kept, IInv, Shape
<1>4. HandsGoOn /\ LockGoesOn /\ \A h \in Handlers : hand'[h].pc = hand[h].pc
  <2>1. hand' = hand => HandsGoOn
    BY DEF HandsGoOn, IInv, Shape
  <2> QED BY <1>2, <2>1, NotedHands DEF LockGoesOn
<1>5. NotYet' /\ Landed'
  BY <1>2, <1>3, <1>4, NothingLands
<1>6. FreesOnly
  BY <1>1 DEF FreesOnly, Holds, Running
<1>7. \A n \in Matches : /\ Finished(n) => Finished(n)'
                         /\ Running(n) => Running(n)'
  BY <1>1 DEF Finished, Running
<1>8. \A h \in Handlers : ~(hand[h].pc = "revert" /\ hand'[h].pc = "gate")
  BY <1>4
<1> QED BY <1>1, <1>3, <1>4, <1>5, <1>6, <1>7, <1>8, FreesKeepTheGates, MatchesChange

LEMMA RestartKeeps == ASSUME IInv, Restart PROVE IInv'
<1> USE DEF IInv
<1>1. DOMAIN hand' = Handlers /\ \A h \in Handlers : hand'[h] = Idle
  BY DEF Restart
<1>2. UNCHANGED <<match, logged>> /\ seen' = {}
  BY DEF Restart
<1>3. /\ write' \in WriteType
      /\ \A x \in Writes :
           /\ write'[x].at = write[x].at /\ write'[x].kind = write[x].kind
           /\ write'[x].m = write[x].m /\ write'[x].to = write[x].to
           /\ write'[x].done = write[x].done
           /\ write'[x].forgot = (write[x].forgot \/ x \in seen \ logged)
  <2> DEFINE f(x) == write[x].forgot \/ x \in seen \ logged
  <2>1. write' = [x \in Writes |-> [write[x] EXCEPT !.forgot = f(x)]]
    BY DEF Restart
  <2>2. \A x \in Writes : f(x) \in BOOLEAN
    BY DEF Shape, WriteType, WriteRecords
  <2> HIDE DEF f
  <2>3. write' \in WriteType
    BY <2>1, <2>2 DEF Shape, WriteType, WriteRecords
  <2>4. \A x \in Writes :
           /\ write'[x].at = write[x].at /\ write'[x].kind = write[x].kind
           /\ write'[x].m = write[x].m /\ write'[x].to = write[x].to
           /\ write'[x].done = write[x].done /\ write'[x].forgot = f(x)
    BY <2>1 DEF Shape, WriteType, WriteRecords
  <2> QED BY <2>3, <2>4 DEF f
<1>4. Shape' /\ OneGatedMatchPerCourt'
  BY <1>1, <1>2, <1>3 DEF Shape, Idle, HandFields, OneGatedMatchPerCourt, Running
<1>5. Sent'
  BY <1>3 DEF Sent, Asked
<1>6. Busy' /\ Locked' /\ Corrections' /\ Cleared' /\ Swapping' /\ NotYet'
  BY <1>1 DEF Idle, Busy, Locked, Corrections, Cleared, Swapping, NotYet, Mover
<1>7. Landed'
  BY <1>2, <1>3 DEF Landed
<1> QED BY <1>4, <1>5, <1>6, <1>7

-----------------------------------------------------------------------------
\* Every step keeps the invariant.
LEMMA InvStep == IInv /\ [Next]_vars => IInv'
<1> SUFFICES ASSUME IInv, [Next]_vars PROVE IInv'
  OBVIOUS
<1>1. ASSUME NEW h \in Handlers, Work(h) PROVE IInv'
  BY <1>1, SendBackKeeps, EnterMoveKeeps, LockStartKeeps, StartKeeps, LockReopenKeeps, ReopenKeeps,
     LockSwapKeeps, RevertBlockerKeeps, GateSwapKeeps, LockMoveKeeps, MoveKeeps DEF Work
<1>2. ASSUME NEW m \in Matches, Unlocked(m) PROVE IInv'
  BY <1>2, FinishKeeps, RunUngatedKeeps, BarOrTimeKeeps DEF Unlocked
<1>3. CASE UNCHANGED vars
  <2>1. Shape' /\ Sent' /\ Busy' /\ Locked' /\ OneGatedMatchPerCourt'
    BY <1>3 DEF vars, IInv, Shape, Sent, Asked, Busy, Locked, OneGatedMatchPerCourt, Running
  <2>2. Corrections' /\ Cleared'
    BY <1>3 DEF vars, IInv, Corrections, Cleared, GateHolds, ClearCourt, Holds, Running, Finished
  <2>3. Swapping' /\ NotYet' /\ Landed'
    BY <1>3 DEF vars, IInv, Swapping, SwapHolds, Holds, Running, NotYet, Mover, Landed
  <2> QED BY <2>1, <2>2, <2>3 DEF IInv
<1> QED BY <1>1, <1>2, <1>3, AskKeeps, ReceiveKeeps, RestartKeeps DEF Next

\* The invariant holds in every behaviour.
THEOREM CourtInvariant == Spec => []IInv
<1> QED BY InitInv, InvStep, PTL DEF Spec

\* The gates keep two matches from running on one court, in whatever order
\* starts, reopens, moves, send backs and finishes meet, and whatever restarts.
THEOREM GatesExclude == Spec => []OneGatedMatchPerCourt
<1>1. IInv => OneGatedMatchPerCourt
  BY DEF IInv
<1> QED BY <1>1, CourtInvariant, PTL

\* No write lands twice, however often it is sent again, but the move of a
\* waiting match that a restart made the process forget.
THEOREM ResendsLandOnce == Spec => []WritesLandOnce
<1>1. IInv => WritesLandOnce
  BY DEF IInv, Landed, WritesLandOnce
<1> QED BY <1>1, CourtInvariant, PTL

-----------------------------------------------------------------------------
\* A request reaches its second gate by sending the occupant back.
LEMMA OnlyRevertReachesTheGate ==
  ASSUME IInv, Next, NEW h \in Handlers, hand[h].pc = "revert", hand'[h].pc = "gate"
  PROVE  RevertBlocker(h)
<1> USE DEF IInv, Shape
<1>1. \A m : Noted(m, hand)[h].pc = "revert"
  BY NotedIs
<1>2. ASSUME NEW g \in Handlers, NEW ws, Answer(g, ws, hand) PROVE FALSE
  BY <1>2 DEF Answer, Idle
<1>3. ASSUME NEW g \in Handlers, Work(g) PROVE RevertBlocker(h)
  <2>1. CASE SendBack(g)
    <3>1. ASSUME NEW ws, NEW m, Answer(g, ws, Noted(m, hand)) PROVE FALSE
      <4> DEFINE n == Noted(m, hand)
      <4>1. hand' = [n EXCEPT ![g] = Idle] /\ n[h].pc = "revert"
        BY <1>1, <3>1 DEF Answer
      <4> HIDE DEF n
      <4> QED BY <4>1 DEF Idle
    <3> QED BY <1>2, <2>1, <3>1 DEF SendBack
  <2>2. CASE EnterMove(g) \/ LockMove(g)
    BY <1>2, <2>2 DEF EnterMove, LockMove, HandFields
  <2>3. CASE LockStart(g) \/ LockReopen(g) \/ LockSwap(g)
    BY SMTT(30), <1>2, <2>3 DEF LockStart, LockReopen, LockSwap, Refuse, Release, HandFields
  <2>4. CASE Start(g) \/ Reopen(g) \/ Move(g)
    BY <1>2, <2>4 DEF Start, Reopen, Move, Refuse, Release
  <2>5. CASE GateSwap(g)
    BY <1>2, <2>5 DEF GateSwap, Refuse, Release, HandFields
  <2>6. CASE RevertBlocker(g)
    BY <1>2, <2>6 DEF RevertBlocker, Refuse, Release, HandFields
  <2> QED BY <1>3, <2>1, <2>2, <2>3, <2>4, <2>5, <2>6 DEF Work
<1>4. ASSUME NEW m \in Matches, Unlocked(m) PROVE FALSE
  BY <1>1, <1>4 DEF Unlocked, Finish, Bar, RunUngated, UpdateMatchTime
<1>5. ASSUME NEW w \in Writes, Ask(w) PROVE FALSE
  BY <1>5 DEF Ask
<1>6. ASSUME NEW g \in Handlers, NEW w \in Writes, Receive(g, w) PROVE FALSE
  BY <1>6 DEF Receive, Idle
<1>7. CASE Restart
  BY <1>7 DEF Restart, Idle
<1> QED BY <1>3, <1>4, <1>5, <1>6, <1>7 DEF Next

\* What the code promises of one step of a swap.
WholeStep ==
  \A h \in Handlers :
    LET m == write[hand[h].w].m
        b == write[hand[h].w].to
    IN  /\ hand[h].pc = "revert" /\ hand'[h].pc = "gate"
           => match[b].court = match[m].court /\ match'[b].status = "scheduled"
        /\ GateSwap(h) \/ (At(h, "body", "swap") /\ Reopen(h))
           => \/ hand'[h].pc = "body"
              \/ match'[m].status # "completed"
              \/ hand[h].crowd
              \/ \E n \in Matches : /\ Running(n) /\ match[n].ungated
                                    /\ match[n].court = match[m].court

LEMMA SwapStep == IInv /\ [Next]_vars => [WholeStep]_vars
<1> SUFFICES ASSUME IInv, Next, NEW h \in Handlers
             PROVE  LET m == write[hand[h].w].m
                        b == write[hand[h].w].to
                    IN  /\ hand[h].pc = "revert" /\ hand'[h].pc = "gate"
                           => match[b].court = match[m].court /\ match'[b].status = "scheduled"
                        /\ GateSwap(h) \/ (At(h, "body", "swap") /\ Reopen(h))
                           => \/ hand'[h].pc = "body"
                              \/ match'[m].status # "completed"
                              \/ hand[h].crowd
                              \/ \E n \in Matches : /\ Running(n) /\ match[n].ungated
                                                    /\ match[n].court = match[m].court
  BY DEF WholeStep
<1> DEFINE m == write[hand[h].w].m
           b == write[hand[h].w].to
           past == \E n \in Matches : /\ Running(n) /\ match[n].ungated
                                      /\ match[n].court = match[m].court
<1>1. MatchShape(match) /\ DOMAIN hand = Handlers /\ DOMAIN hand[h] = HandFields
  BY DEF IInv, Shape, MatchShape
<1>2. ASSUME hand[h].pc = "revert", hand'[h].pc = "gate"
      PROVE  match[b].court = match[m].court /\ match'[b].status = "scheduled"
  <2>1. At(h, "revert", "swap") /\ Put(b, "scheduled", FALSE)
    <3>1. RevertBlocker(h)
      BY <1>2, OnlyRevertReachesTheGate
    <3>2. ~Finished(b)
      <4>1. Finished(b) => hand'[h].pc = "idle"
        BY <1>1, <3>1 DEF RevertBlocker, Refuse, Release, Answer, Idle
      <4> QED BY <1>2, <4>1
    <3> QED BY <3>1, <3>2 DEF RevertBlocker
  <2>2. SwapHolds(h) /\ b \in Matches
    BY <2>1 DEF At, IInv, Swapping, Busy, Asked
  <2>3. match'[b].status = "scheduled"
    BY <1>1, <2>1, <2>2, PutIs
  <2> QED BY <1>2, <2>2, <2>3 DEF SwapHolds
<1>3. ASSUME hand[h].pc \in {"gate", "body"}, write[hand[h].w].kind = "swap",
             CourtOccupied(m) \/ CrossCompCourtBusy(m)
      PROVE  hand[h].crowd \/ past
  <2>1. SwapHolds(h)
    BY <1>3 DEF IInv, Swapping
  <2> QED BY <1>3, <2>1 DEF SwapHolds, Holds, CourtOccupied, CrossCompCourtBusy
<1>4. ASSUME GateSwap(h) PROVE hand'[h].pc = "body" \/ hand[h].crowd \/ past
  <2>1. At(h, "gate", "swap")
    BY <1>4 DEF GateSwap
  <2>2. CrossGateOnReopen(write[hand[h].w], "running") => hand'[h].pc = "body"
    BY <1>1, <1>4 DEF GateSwap, HandFields
  <2>3. ~CrossGateOnReopen(write[hand[h].w], "running") => CrossCompCourtBusy(m)
    BY DEF CrossGateOnReopen
  <2> QED BY <1>3, <2>1, <2>2, <2>3 DEF At
<1>5. ASSUME At(h, "body", "swap"), Reopen(h)
      PROVE  match'[m].status # "completed" \/ hand[h].crowd \/ past
  <2> DEFINE lands == IF hand[h].lands = "scheduled" THEN "scheduled" ELSE ReopenLands(m)
             held == ~Finished(m) \/ (lands = "running" /\ ~write[hand[h].w].force /\ CourtOccupied(m))
  <2>1. CASE held
    <3>1. match' = match
      BY <1>5, <2>1 DEF Reopen, Refuse
    <3> QED BY <1>3, <1>5, <2>1, <3>1 DEF At, Finished
  <2>2. CASE ~held
    <3>1. m \in Matches /\ lands # "completed"
      BY <1>5 DEF At, IInv, Busy, Asked, ReopenLands
    <3>2. Put(m, lands, write[hand[h].w].force /\ lands = "running")
      BY <1>5, <2>2 DEF Reopen
    <3> HIDE DEF lands
    <3>3. match'[m].status = lands
      BY <1>1, <3>1, <3>2, PutIs
    <3> QED BY <3>1, <3>3
  <2> QED BY <2>1, <2>2
<1> QED BY <1>2, <1>4, <1>5

\* A reopen that sends a court's occupant back finishes what it began, or the
\* court was not the gates' to give.
THEOREM SwapsAreWhole == Spec => SwapIsWhole
<1> QED BY SwapStep, CourtInvariant, PTL DEF Spec, SwapIsWhole, WholeStep
=============================================================================
