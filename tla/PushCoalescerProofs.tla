------------------------ MODULE PushCoalescerProofs ------------------------
(***************************************************************************)
(* The pushes of one match are serialized and never go backwards, for any  *)
(* number of requests and timers.  The argument is the one of              *)
(* matchBroadcastCoalescer.lock: whoever sends holds the lock of an entry  *)
(* found alive after locking it, an entry not dropped is the one in the    *)
(* map, so there is one sender; and it reads the stored match after the    *)
(* last push went out.  And no timer outlives Close: the WaitGroup counts  *)
(* the timers under way, an entry that holds a push has one, and once Close*)
(* has ranged over the map only the entry it found can hold a push.        *)
(***************************************************************************)
EXTENDS PushCoalescer, FiniteSetTheorems, TLAPS

Sending == {"read", "cast"}

\* The types the argument needs.
Shape ==
    /\ made \in Objs /\ keys \in Nat /\ version \in Nat /\ sent \in Nat
    /\ holder \in [Objs -> Threads \cup {None}]
    /\ pc \in [Threads -> {"idle", "get", "wait", "armed", "fired", "read", "cast",
                           "range", "flight", "done"}]
    /\ obj \in [Threads -> Nat] /\ read \in [Threads -> Nat]
    /\ \A x \in Threads : pc[x] \in {"wait", "armed", "fired"} \cup Sending => obj[x] \in 1 .. made

\* An entry that was not dropped is the map's.
OneAlive == keys \in 0 .. made /\ \A o \in 1 .. made : o \notin dead => o = keys

\* A thread that sends holds the lock of such an entry.
Holding == \A x \in Threads : pc[x] \in Sending => holder[obj[x]] = x /\ obj[x] \notin dead

\* What a sender has read is stored, and newer than what was last pushed.
Fresh ==
    /\ sent <= version
    /\ \A x \in Threads : pc[x] = "cast" => read[x] = 0 \/ (sent <= read[x] /\ read[x] <= version)

IInv == Shape /\ OneAlive /\ Holding /\ Fresh

-----------------------------------------------------------------------------
\* "The pushes are serialized": at most one thread sends.
LEMMA OneSender ==
  ASSUME IInv, NEW x \in Threads, NEW y \in Threads, pc[x] \in Sending, pc[y] \in Sending
  PROVE  x = y
  BY DEF IInv, Shape, OneAlive, Holding

\* A match whose first push has gone out.
LEMMA InitInv == Init => IInv
  BY MaxEntriesAssumption DEF Init, IInv, Shape, OneAlive, Holding, Fresh, Objs, Sending

\* The timers a cancellation stops were not sending.
LEMMA StoppedAreArmed == \A o : Stopped(o) \subseteq {t \in Timers : pc[t] = "armed"}
  BY DEF Stopped

\* Every step keeps the invariant.
LEMMA InvStep == IInv /\ [Next]_vars => IInv'
<1> SUFFICES ASSUME IInv, [Next]_vars PROVE IInv'
  OBVIOUS
<1> USE MaxEntriesAssumption, ThreadsAssumption DEF IInv, Objs, Sending, Threads
<1>1. ASSUME NEW w \in Writers, Save(w) PROVE IInv'
  BY <1>1 DEF Save, Shape, OneAlive, Holding, Fresh, entries, locals
<1>2. ASSUME Discard PROVE IInv'
  BY <1>2 DEF Discard, Shape, OneAlive, Holding, Fresh, entries, locals
<1>3. ASSUME NEW w \in Writers, Get(w) PROVE IInv'
  BY <1>3 DEF Get, Shape, OneAlive, Holding, Fresh, entries, store
<1>4. ASSUME NEW w \in Writers, FoundDead(w) PROVE IInv'
  BY <1>4 DEF FoundDead, Free, Shape, OneAlive, Holding, Fresh, entries, store, locals
<1>5. ASSUME NEW w \in Writers, SendNow(w) PROVE IInv'
  BY <1>5, StoppedAreArmed DEF SendNow, FoundLive, Free, Goto, Cancel, Shape, OneAlive, Holding,
     Fresh, store, locals
<1>6. ASSUME NEW w \in Writers, SubmitNow(w) PROVE IInv'
  BY <1>6, StoppedAreArmed DEF SubmitNow, FoundLive, Free, Goto, Cancel, Shape, OneAlive,
     Holding, Fresh, store, locals
<1>7. ASSUME NEW w \in Writers, SubmitHeld(w) PROVE IInv'
  BY <1>7 DEF SubmitHeld, FoundLive, Free, Shape, OneAlive, Holding, Fresh, store, locals
<1>8. ASSUME NEW w \in Writers, SubmitClosed(w) PROVE IInv'
  BY <1>8 DEF SubmitClosed, FoundLive, Free, Shape, OneAlive, Holding, Fresh, store, locals
<1>9. ASSUME NEW x \in Threads, ReadStored(x) PROVE IInv'
  BY <1>9 DEF ReadStored, Shape, OneAlive, Holding, Fresh, store, entries
<1>10. ASSUME NEW x \in Threads, Cast(x) PROVE IInv'
  BY SMTT(30), <1>10, StoppedAreArmed, OneSender DEF Cast, Pushed, Goto, Cancel, Release, Shape, OneAlive,
     Holding, Fresh, store, locals
<1>11. ASSUME NEW o \in Objs, WindowEnds(o) PROVE IInv'
  BY <1>11 DEF WindowEnds, Shape, OneAlive, Holding, Fresh, store, locals
<1>12. ASSUME NEW t \in Timers, Fire(t) PROVE IInv'
  BY <1>12 DEF Fire, Shape, OneAlive, Holding, Fresh, store, entries, locals
<1>13. ASSUME NEW t \in Timers, FlushNothing(t) PROVE IInv'
  BY <1>13 DEF FlushNothing, Goto, Release, Shape, OneAlive, Holding, Fresh, store, locals
<1>14. ASSUME NEW t \in Timers, Flush(t) PROVE IInv'
  BY <1>14 DEF Flush, Current, Shape, OneAlive, Holding, Fresh, store, locals
<1>15. ASSUME BeginClose PROVE IInv'
  BY <1>15 DEF BeginClose, Shape, OneAlive, Holding, Fresh, store, entries, locals
<1>16. ASSUME CloseRange PROVE IInv'
  BY <1>16 DEF CloseRange, Shape, OneAlive, Holding, Fresh, store, entries
<1>17. ASSUME CloseDead PROVE IInv'
  BY <1>17 DEF CloseDead, Free, Shape, OneAlive, Holding, Fresh, store, entries, locals
<1>18. ASSUME CloseEntry PROVE IInv'
  <2> DEFINE o == obj[Closer]
  <2>1. /\ o \in 1 .. made /\ o \notin dead /\ o = keys /\ holder[o] = None
        /\ pc[Closer] = "wait" /\ Closer \in Threads /\ store' = store /\ locals' = locals
        /\ made' = made /\ sent' = sent
    BY <1>18 DEF CloseEntry, Free, Shape, OneAlive
  <2>2. CASE o \in pending
    <3>1. /\ pc' = [y \in Threads |-> IF y = Closer THEN "read"
                                   ELSE IF y \in Stopped(o) THEN "done" ELSE pc[y]]
          /\ holder' = [holder EXCEPT ![o] = Closer] /\ dead' = dead /\ keys' = keys
      BY <1>18, <2>2 DEF CloseEntry, Goto
    <3>2. Shape'
      BY <2>1, <3>1, StoppedAreArmed DEF Shape, store, locals
    <3>3. OneAlive' /\ Fresh'
      BY <2>1, <3>1, StoppedAreArmed DEF Shape, OneAlive, Fresh, store, locals
    <3>4. Holding'
      BY <2>1, <3>1, StoppedAreArmed DEF Shape, Holding, locals
    <3> QED BY <3>2, <3>3, <3>4
  <2>3. CASE o \notin pending
    <3>1. /\ pc' = [y \in Threads |-> IF y = Closer THEN "flight"
                                   ELSE IF y \in Stopped(o) THEN "done" ELSE pc[y]]
          /\ holder' = [holder EXCEPT ![o] = None]
          /\ (dead' = dead /\ keys' = keys) \/ (dead' = dead \cup {o} /\ keys' = 0)
      BY <1>18, <2>1, <2>3 DEF CloseEntry, Goto, Release
    <3>2. Shape'
      BY <2>1, <3>1, StoppedAreArmed DEF Shape, store, locals
    <3>3. OneAlive' /\ Fresh'
      BY <2>1, <3>1, StoppedAreArmed DEF Shape, OneAlive, Fresh, store, locals
    <3>4. Holding'
      BY <2>1, <3>1, StoppedAreArmed DEF Shape, Holding, locals
    <3> QED BY <3>2, <3>3, <3>4
  <2> QED BY <2>2, <2>3
<1>19. ASSUME CloseCast PROVE IInv'
  BY <1>19, OneSender DEF CloseCast, Pushed, Goto, Release, Shape, OneAlive, Holding, Fresh,
     store, locals
<1>20. ASSUME CloseEnds PROVE IInv'
  BY <1>20 DEF CloseEnds, Shape, OneAlive, Holding, Fresh, store, entries, locals
<1>21. ASSUME NEW w \in Writers, NEW t \in Timers, SubmitArms(w, t) PROVE IInv'
  BY <1>21 DEF SubmitArms, FoundLive, Free, Shape, OneAlive, Holding, Fresh, store
<1>22. CASE UNCHANGED vars
  BY <1>22 DEF vars, Shape, OneAlive, Holding, Fresh, store, entries, locals
<1> QED
  BY <1>1, <1>2, <1>3, <1>4, <1>5, <1>6, <1>7, <1>8, <1>9, <1>10, <1>11, <1>12, <1>13, <1>14,
     <1>15, <1>16, <1>17, <1>18, <1>19, <1>20, <1>21, <1>22
     DEF Next, Progress, Push, Trail, Send, Close

\* The invariant holds in every behaviour.
THEOREM PushInvariant == Spec => []IInv
<1> QED BY InitInv, InvStep, PTL DEF Spec

\* A step that changes what was last pushed is a send, of something newer.
LEMMA StepForward == IInv /\ [Next]_vars => sent' >= sent
<1> SUFFICES ASSUME IInv, [Next]_vars PROVE sent' >= sent
  OBVIOUS
<1>1. ASSUME NEW x \in Threads, Cast(x) PROVE sent' >= sent
  BY <1>1 DEF Cast, Pushed, IInv, Shape, Fresh
<1>2. ASSUME CloseCast PROVE sent' >= sent
  BY <1>2 DEF CloseCast, Pushed, IInv, Shape, Fresh, Threads
<1>3. ASSUME sent' = sent PROVE sent' >= sent
  BY <1>3 DEF IInv, Shape
<1> QED
  BY <1>1, <1>2, <1>3 DEF Next, Progress, Push, Trail, Send, Close, vars, Save, Discard, Get,
     FoundDead, SendNow, SubmitNow, SubmitHeld, SubmitArms, SubmitClosed, ReadStored, WindowEnds,
     Fire,
     FlushNothing, Flush, BeginClose, CloseRange, CloseDead, CloseEntry, CloseEnds

\* The devices never see a match go back to an older state, whatever the order
\* its requests commit, ask for a push and are flushed in.
THEOREM PushesNeverGoBack == Spec => NeverBackwards
<1>1. IInv /\ [Next]_vars => [sent' >= sent]_vars
  BY StepForward
<1> QED BY <1>1, PushInvariant, PTL DEF Spec, NeverBackwards

-----------------------------------------------------------------------------
\* The timers the WaitGroup counts: armed, fired, or sending.
Underway == {t \in Timers : pc[t] \in {"armed", "fired"} \cup Sending}

Counted == inflight = Cardinality(Underway)

\* The types this argument adds.
Dated ==
    /\ timer \in [Objs -> Timers \cup {None}] /\ gen \in [Objs -> Nat]
    /\ armedFor \in [Timers -> Nat] /\ pending \subseteq Objs
    /\ \A t \in Timers : pc[t] \in {"idle", "armed", "fired", "done"} \cup Sending

\* An entry that holds a push has a timer that will send it, of the entry's
\* generation, and one dropped holds nothing.
Armed ==
    /\ pending \cap dead = {}
    /\ \A o \in Objs : o \in pending <=> timer[o] # None
    /\ \A o \in pending : /\ o \in 1 .. made /\ obj[timer[o]] = o
                          /\ pc[timer[o]] \in {"armed", "fired"} /\ armedFor[timer[o]] = gen[o]

\* Close meets what is held: once it has ranged over the map, only the entry it
\* found can hold a push, and once that is cancelled none does.
Closing ==
    /\ closed <=> pc[Closer] # "idle"
    /\ pc[Closer] = "wait" => pending \subseteq {obj[Closer]}
    /\ pc[Closer] \in {"flight", "done"} \cup Sending => pending = {}
    /\ pc[Closer] = "done" => inflight = 0

CInv == IInv /\ Dated /\ Counted /\ Armed /\ Closing



\* What each kind of step does to the Closer and to the timers.
CloserStays == pc'[Closer] = pc[Closer] /\ obj'[Closer] = obj[Closer] /\ closed' = closed
Closers == BeginClose \/ Close \/ ReadStored(Closer)
Arms == \E w \in Writers, t \in Timers : SubmitArms(w, t)
TimersLeave ==
    \A t \in Timers : \/ pc'[t] = pc[t]
                      \/ pc[t] \in {"armed", "fired"} \cup Sending
                         /\ pc'[t] \in {"fired", "done"} \cup Sending

\* Only Close moves the Closer.
LEMMA CloserMoves == CInv /\ [Next]_vars => CloserStays \/ Closers
<1> SUFFICES ASSUME CInv, [Next]_vars PROVE CloserStays \/ Closers
  OBVIOUS
<1> USE ThreadsAssumption, MaxEntriesAssumption DEF Sending, Objs, Threads, store, entries, locals
<1>1. ASSUME NEW w \in Writers, Save(w) PROVE CloserStays \/ Closers
  BY <1>1 DEF Save, CloserStays, Closers, Close, CInv, IInv, Shape, Stopped
<1>2. ASSUME Discard PROVE CloserStays \/ Closers
  BY <1>2 DEF Discard, CloserStays, Closers, Close, CInv, IInv, Shape, Stopped
<1>3. ASSUME NEW w \in Writers, Get(w) PROVE CloserStays \/ Closers
  BY <1>3 DEF Get, CloserStays, Closers, Close, CInv, IInv, Shape, Stopped
<1>4. ASSUME NEW w \in Writers, FoundDead(w) PROVE CloserStays \/ Closers
  BY <1>4 DEF FoundDead, Free, CloserStays, Closers, Close, CInv, IInv, Shape, Stopped
<1>5. ASSUME NEW w \in Writers, SendNow(w) PROVE CloserStays \/ Closers
  BY <1>5 DEF SendNow, FoundLive, Free, Goto, Cancel, CloserStays, Closers, Close, CInv, IInv,
     Shape, Stopped
<1>6. ASSUME NEW w \in Writers, SubmitNow(w) PROVE CloserStays \/ Closers
  BY <1>6 DEF SubmitNow, FoundLive, Free, Goto, Cancel, CloserStays, Closers, Close, CInv, IInv,
     Shape, Stopped
<1>7. ASSUME NEW w \in Writers, SubmitHeld(w) PROVE CloserStays \/ Closers
  BY <1>7 DEF SubmitHeld, FoundLive, Free, CloserStays, Closers, Close, CInv, IInv, Shape, Stopped
<1>8. ASSUME NEW w \in Writers, SubmitClosed(w) PROVE CloserStays \/ Closers
  BY <1>8 DEF SubmitClosed, FoundLive, Free, CloserStays, Closers, Close, CInv, IInv, Shape, Stopped
<1>9. ASSUME NEW x \in Threads, ReadStored(x) PROVE CloserStays \/ Closers
  BY <1>9 DEF ReadStored, CloserStays, Closers, Close, CInv, IInv, Shape, Stopped
<1>10. ASSUME NEW x \in Threads, Cast(x) PROVE CloserStays \/ Closers
  BY <1>10 DEF Cast, Goto, Cancel, Release, CloserStays, Closers, Close, CInv, IInv, Shape, Stopped
<1>11. ASSUME NEW o \in Objs, WindowEnds(o) PROVE CloserStays \/ Closers
  BY <1>11 DEF WindowEnds, CloserStays, Closers, Close, CInv, IInv, Shape, Stopped
<1>12. ASSUME NEW t \in Timers, Fire(t) PROVE CloserStays \/ Closers
  BY <1>12 DEF Fire, CloserStays, Closers, Close, CInv, IInv, Shape, Stopped
<1>13. ASSUME NEW t \in Timers, FlushNothing(t) PROVE CloserStays \/ Closers
  BY <1>13 DEF FlushNothing, Goto, Release, Current, CloserStays, Closers, Close, CInv, IInv,
     Shape, Stopped
<1>14. ASSUME NEW t \in Timers, Flush(t) PROVE CloserStays \/ Closers
  BY <1>14 DEF Flush, Current, CloserStays, Closers, Close, CInv, IInv, Shape, Stopped
<1>15. ASSUME BeginClose PROVE CloserStays \/ Closers
  BY <1>15 DEF BeginClose, CloserStays, Closers, Close, CInv, IInv, Shape, Stopped
<1>16. ASSUME CloseRange PROVE CloserStays \/ Closers
  BY <1>16 DEF CloseRange, CloserStays, Closers, Close, CInv, IInv, Shape, Stopped
<1>17. ASSUME CloseDead PROVE CloserStays \/ Closers
  BY <1>17 DEF CloseDead, Free, CloserStays, Closers, Close, CInv, IInv, Shape, Stopped
<1>18. ASSUME CloseEntry PROVE CloserStays \/ Closers
  BY <1>18 DEF CloseEntry, Free, Goto, Cancel, Release, CloserStays, Closers, Close, CInv, IInv,
     Shape, Stopped
<1>19. ASSUME CloseCast PROVE CloserStays \/ Closers
  BY <1>19 DEF CloseCast, Goto, Release, CloserStays, Closers, Close, CInv, IInv, Shape, Stopped
<1>20. ASSUME CloseEnds PROVE CloserStays \/ Closers
  BY <1>20 DEF CloseEnds, CloserStays, Closers, Close, CInv, IInv, Shape, Stopped
<1>21. ASSUME NEW w \in Writers, NEW t \in Timers, SubmitArms(w, t) PROVE CloserStays \/ Closers
  BY <1>21 DEF SubmitArms, FoundLive, Free, CloserStays, Closers, Close, CInv, IInv, Shape, Stopped
<1>22. CASE UNCHANGED vars
  BY <1>22 DEF vars, CloserStays, Closers, Close, CInv, IInv, Shape, Stopped
<1> QED
  BY <1>1, <1>2, <1>3, <1>4, <1>5, <1>6, <1>7, <1>8, <1>9, <1>10, <1>11, <1>12, <1>13, <1>14,
     <1>15, <1>16, <1>17, <1>18, <1>19, <1>20, <1>21, <1>22
     DEF Next, Progress, Push, Trail, Send, Close

\* Only a first push held in a window adds to what is held.
LEMMA PendingGoes == CInv /\ [Next]_vars => pending' \subseteq pending \/ Arms
<1> SUFFICES ASSUME CInv, [Next]_vars PROVE pending' \subseteq pending \/ Arms
  OBVIOUS
<1> USE ThreadsAssumption, MaxEntriesAssumption DEF Sending, Objs, Threads, store, entries, locals
<1>1. ASSUME NEW w \in Writers, Save(w) PROVE pending' \subseteq pending \/ Arms
  BY <1>1 DEF Save, Arms, CInv, IInv, Shape, OneAlive, Armed, Dated
<1>2. ASSUME Discard PROVE pending' \subseteq pending \/ Arms
  BY <1>2 DEF Discard, Arms, CInv, IInv, Shape, OneAlive, Armed, Dated
<1>3. ASSUME NEW w \in Writers, Get(w) PROVE pending' \subseteq pending \/ Arms
  BY <1>3 DEF Get, Arms, CInv, IInv, Shape, OneAlive, Armed, Dated
<1>4. ASSUME NEW w \in Writers, FoundDead(w) PROVE pending' \subseteq pending \/ Arms
  BY <1>4 DEF FoundDead, Free, Arms, CInv, IInv, Shape, OneAlive, Armed, Dated
<1>5. ASSUME NEW w \in Writers, SendNow(w) PROVE pending' \subseteq pending \/ Arms
  BY <1>5 DEF SendNow, FoundLive, Free, Goto, Cancel, Arms, CInv, IInv, Shape, OneAlive, Armed,
     Dated
<1>6. ASSUME NEW w \in Writers, SubmitNow(w) PROVE pending' \subseteq pending \/ Arms
  BY <1>6 DEF SubmitNow, FoundLive, Free, Goto, Cancel, Arms, CInv, IInv, Shape, OneAlive, Armed,
     Dated
<1>7. ASSUME NEW w \in Writers, SubmitHeld(w) PROVE pending' \subseteq pending \/ Arms
  BY <1>7 DEF SubmitHeld, FoundLive, Free, Arms, CInv, IInv, Shape, OneAlive, Armed, Dated
<1>8. ASSUME NEW w \in Writers, SubmitClosed(w) PROVE pending' \subseteq pending \/ Arms
  BY <1>8 DEF SubmitClosed, FoundLive, Free, Arms, CInv, IInv, Shape, OneAlive, Armed, Dated
<1>9. ASSUME NEW x \in Threads, ReadStored(x) PROVE pending' \subseteq pending \/ Arms
  BY <1>9 DEF ReadStored, Arms, CInv, IInv, Shape, OneAlive, Armed, Dated
<1>10. ASSUME NEW x \in Threads, Cast(x) PROVE pending' \subseteq pending \/ Arms
  BY <1>10 DEF Cast, Goto, Cancel, Release, Arms, CInv, IInv, Shape, OneAlive, Armed, Dated
<1>11. ASSUME NEW o \in Objs, WindowEnds(o) PROVE pending' \subseteq pending \/ Arms
  BY <1>11 DEF WindowEnds, Arms, CInv, IInv, Shape, OneAlive, Armed, Dated
<1>12. ASSUME NEW t \in Timers, Fire(t) PROVE pending' \subseteq pending \/ Arms
  BY <1>12 DEF Fire, Arms, CInv, IInv, Shape, OneAlive, Armed, Dated
<1>13. ASSUME NEW t \in Timers, FlushNothing(t) PROVE pending' \subseteq pending \/ Arms
  BY <1>13 DEF FlushNothing, Goto, Release, Current, Arms, CInv, IInv, Shape, OneAlive, Armed, Dated
<1>14. ASSUME NEW t \in Timers, Flush(t) PROVE pending' \subseteq pending \/ Arms
  BY <1>14 DEF Flush, Current, Arms, CInv, IInv, Shape, OneAlive, Armed, Dated
<1>15. ASSUME BeginClose PROVE pending' \subseteq pending \/ Arms
  BY <1>15 DEF BeginClose, Arms, CInv, IInv, Shape, OneAlive, Armed, Dated
<1>16. ASSUME CloseRange PROVE pending' \subseteq pending \/ Arms
  BY <1>16 DEF CloseRange, Arms, CInv, IInv, Shape, OneAlive, Armed, Dated
<1>17. ASSUME CloseDead PROVE pending' \subseteq pending \/ Arms
  BY <1>17 DEF CloseDead, Free, Arms, CInv, IInv, Shape, OneAlive, Armed, Dated
<1>18. ASSUME CloseEntry PROVE pending' \subseteq pending \/ Arms
  BY <1>18 DEF CloseEntry, Free, Goto, Cancel, Release, Arms, CInv, IInv, Shape, OneAlive, Armed,
     Dated
<1>19. ASSUME CloseCast PROVE pending' \subseteq pending \/ Arms
  BY <1>19 DEF CloseCast, Goto, Release, Arms, CInv, IInv, Shape, OneAlive, Armed, Dated
<1>20. ASSUME CloseEnds PROVE pending' \subseteq pending \/ Arms
  BY <1>20 DEF CloseEnds, Arms, CInv, IInv, Shape, OneAlive, Armed, Dated
<1>21. ASSUME NEW w \in Writers, NEW t \in Timers, SubmitArms(w, t)
       PROVE  pending' \subseteq pending \/ Arms
  BY <1>21 DEF SubmitArms, FoundLive, Free, Arms, CInv, IInv, Shape, OneAlive, Armed, Dated
<1>22. CASE UNCHANGED vars
  BY <1>22 DEF vars, Arms, CInv, IInv, Shape, OneAlive, Armed, Dated
<1> QED
  BY <1>1, <1>2, <1>3, <1>4, <1>5, <1>6, <1>7, <1>8, <1>9, <1>10, <1>11, <1>12, <1>13, <1>14,
     <1>15, <1>16, <1>17, <1>18, <1>19, <1>20, <1>21, <1>22
     DEF Next, Progress, Push, Trail, Send, Close

\* Only a first push held in a window starts a timer.
LEMMA TimersGo == CInv /\ [Next]_vars => TimersLeave \/ Arms
<1> SUFFICES ASSUME CInv, [Next]_vars PROVE TimersLeave \/ Arms
  OBVIOUS
<1> USE ThreadsAssumption, MaxEntriesAssumption DEF Sending, Objs, Threads, store, entries, locals
<1>1. ASSUME NEW w \in Writers, Save(w) PROVE TimersLeave \/ Arms
  BY <1>1 DEF Save, TimersLeave, Arms, CInv, IInv, Shape, Dated, Stopped
<1>2. ASSUME Discard PROVE TimersLeave \/ Arms
  BY <1>2 DEF Discard, TimersLeave, Arms, CInv, IInv, Shape, Dated, Stopped
<1>3. ASSUME NEW w \in Writers, Get(w) PROVE TimersLeave \/ Arms
  BY <1>3 DEF Get, TimersLeave, Arms, CInv, IInv, Shape, Dated, Stopped
<1>4. ASSUME NEW w \in Writers, FoundDead(w) PROVE TimersLeave \/ Arms
  BY <1>4 DEF FoundDead, Free, TimersLeave, Arms, CInv, IInv, Shape, Dated, Stopped
<1>5. ASSUME NEW w \in Writers, SendNow(w) PROVE TimersLeave \/ Arms
  BY <1>5 DEF SendNow, FoundLive, Free, Goto, Cancel, TimersLeave, Arms, CInv, IInv, Shape,
     Dated, Stopped
<1>6. ASSUME NEW w \in Writers, SubmitNow(w) PROVE TimersLeave \/ Arms
  BY <1>6 DEF SubmitNow, FoundLive, Free, Goto, Cancel, TimersLeave, Arms, CInv, IInv, Shape,
     Dated, Stopped
<1>7. ASSUME NEW w \in Writers, SubmitHeld(w) PROVE TimersLeave \/ Arms
  BY <1>7 DEF SubmitHeld, FoundLive, Free, TimersLeave, Arms, CInv, IInv, Shape, Dated, Stopped
<1>8. ASSUME NEW w \in Writers, SubmitClosed(w) PROVE TimersLeave \/ Arms
  BY <1>8 DEF SubmitClosed, FoundLive, Free, TimersLeave, Arms, CInv, IInv, Shape, Dated, Stopped
<1>9. ASSUME NEW x \in Threads, ReadStored(x) PROVE TimersLeave \/ Arms
  BY <1>9 DEF ReadStored, TimersLeave, Arms, CInv, IInv, Shape, Dated, Stopped
<1>10. ASSUME NEW x \in Threads, Cast(x) PROVE TimersLeave \/ Arms
  <2>1. CASE still[x]
    BY <1>10, <2>1 DEF Cast, Goto, TimersLeave, CInv, IInv, Shape, Dated
  <2>2. CASE ~still[x]
    BY <1>10, <2>2 DEF Cast, Goto, TimersLeave, CInv, IInv, Shape, Dated, Stopped
  <2> QED BY <2>1, <2>2
<1>11. ASSUME NEW o \in Objs, WindowEnds(o) PROVE TimersLeave \/ Arms
  BY <1>11 DEF WindowEnds, TimersLeave, Arms, CInv, IInv, Shape, Dated, Stopped
<1>12. ASSUME NEW t \in Timers, Fire(t) PROVE TimersLeave \/ Arms
  BY <1>12 DEF Fire, TimersLeave, Arms, CInv, IInv, Shape, Dated, Stopped
<1>13. ASSUME NEW t \in Timers, FlushNothing(t) PROVE TimersLeave \/ Arms
  BY <1>13 DEF FlushNothing, Goto, Release, Current, TimersLeave, Arms, CInv, IInv, Shape, Dated,
     Stopped
<1>14. ASSUME NEW t \in Timers, Flush(t) PROVE TimersLeave \/ Arms
  BY <1>14 DEF Flush, Current, TimersLeave, Arms, CInv, IInv, Shape, Dated, Stopped
<1>15. ASSUME BeginClose PROVE TimersLeave \/ Arms
  BY <1>15 DEF BeginClose, TimersLeave, Arms, CInv, IInv, Shape, Dated, Stopped
<1>16. ASSUME CloseRange PROVE TimersLeave \/ Arms
  BY <1>16 DEF CloseRange, TimersLeave, Arms, CInv, IInv, Shape, Dated, Stopped
<1>17. ASSUME CloseDead PROVE TimersLeave \/ Arms
  BY <1>17 DEF CloseDead, Free, TimersLeave, Arms, CInv, IInv, Shape, Dated, Stopped
<1>18. ASSUME CloseEntry PROVE TimersLeave \/ Arms
  <2>1. CASE obj[Closer] \in pending
    BY <1>18, <2>1 DEF CloseEntry, Goto, TimersLeave, CInv, IInv, Shape, Dated, Stopped
  <2>2. CASE obj[Closer] \notin pending
    BY <1>18, <2>2 DEF CloseEntry, Goto, TimersLeave, CInv, IInv, Shape, Dated, Stopped
  <2> QED BY <2>1, <2>2
<1>19. ASSUME CloseCast PROVE TimersLeave \/ Arms
  BY <1>19 DEF CloseCast, Goto, Release, TimersLeave, Arms, CInv, IInv, Shape, Dated, Stopped
<1>20. ASSUME CloseEnds PROVE TimersLeave \/ Arms
  BY <1>20 DEF CloseEnds, TimersLeave, Arms, CInv, IInv, Shape, Dated, Stopped
<1>21. ASSUME NEW w \in Writers, NEW t \in Timers, SubmitArms(w, t) PROVE TimersLeave \/ Arms
  BY <1>21 DEF SubmitArms, FoundLive, Free, TimersLeave, Arms, CInv, IInv, Shape, Dated, Stopped
<1>22. CASE UNCHANGED vars
  BY <1>22 DEF vars, TimersLeave, Arms, CInv, IInv, Shape, Dated, Stopped
<1> QED
  BY <1>1, <1>2, <1>3, <1>4, <1>5, <1>6, <1>7, <1>8, <1>9, <1>10, <1>11, <1>12, <1>13, <1>14,
     <1>15, <1>16, <1>17, <1>18, <1>19, <1>20, <1>21, <1>22
     DEF Next, Progress, Push, Trail, Send, Close

\* The types of the entries.
EntriesTyped == timer \in [Objs -> Timers \cup {None}] /\ gen \in [Objs -> Nat]

\* Every step keeps the types of the entries.
LEMMA EntriesStep == CInv /\ [Next]_vars => EntriesTyped'
<1> SUFFICES ASSUME CInv, [Next]_vars PROVE EntriesTyped'
  OBVIOUS
<1> USE ThreadsAssumption, MaxEntriesAssumption DEF Sending, Objs, Threads, store, entries, locals
<1>1. ASSUME NEW w \in Writers, Save(w) PROVE EntriesTyped'
  BY <1>1 DEF Save, CInv, IInv, Shape, Dated, EntriesTyped
<1>2. ASSUME Discard PROVE EntriesTyped'
  BY <1>2 DEF Discard, CInv, IInv, Shape, Dated, EntriesTyped
<1>3. ASSUME NEW w \in Writers, Get(w) PROVE EntriesTyped'
  BY <1>3 DEF Get, CInv, IInv, Shape, Dated, EntriesTyped
<1>4. ASSUME NEW w \in Writers, FoundDead(w) PROVE EntriesTyped'
  BY <1>4 DEF FoundDead, Free, CInv, IInv, Shape, Dated, EntriesTyped
<1>5. ASSUME NEW w \in Writers, SendNow(w) PROVE EntriesTyped'
  BY <1>5 DEF SendNow, FoundLive, Free, Goto, Cancel, CInv, IInv, Shape, Dated, EntriesTyped
<1>6. ASSUME NEW w \in Writers, SubmitNow(w) PROVE EntriesTyped'
  BY <1>6 DEF SubmitNow, FoundLive, Free, Goto, Cancel, CInv, IInv, Shape, Dated, EntriesTyped
<1>7. ASSUME NEW w \in Writers, SubmitHeld(w) PROVE EntriesTyped'
  BY <1>7 DEF SubmitHeld, FoundLive, Free, CInv, IInv, Shape, Dated, EntriesTyped
<1>8. ASSUME NEW w \in Writers, SubmitClosed(w) PROVE EntriesTyped'
  BY <1>8 DEF SubmitClosed, FoundLive, Free, CInv, IInv, Shape, Dated, EntriesTyped
<1>9. ASSUME NEW x \in Threads, ReadStored(x) PROVE EntriesTyped'
  BY <1>9 DEF ReadStored, CInv, IInv, Shape, Dated, EntriesTyped
<1>10. ASSUME NEW x \in Threads, Cast(x) PROVE EntriesTyped'
  <2>1. CASE still[x]
    BY <1>10, <2>1 DEF Cast, CInv, Dated, EntriesTyped
  <2>2. CASE ~still[x]
    <3>1. obj[x] \in Objs
      BY <1>10 DEF Cast, CInv, IInv, Shape
    <3>2. timer' = [timer EXCEPT ![obj[x]] = None] /\ gen' = [gen EXCEPT ![obj[x]] = @ + 1]
      BY <1>10, <2>2 DEF Cast, Cancel
    <3> QED BY <3>1, <3>2 DEF CInv, Dated, EntriesTyped
  <2> QED BY <2>1, <2>2
<1>11. ASSUME NEW o \in Objs, WindowEnds(o) PROVE EntriesTyped'
  BY <1>11 DEF WindowEnds, CInv, IInv, Shape, Dated, EntriesTyped
<1>12. ASSUME NEW t \in Timers, Fire(t) PROVE EntriesTyped'
  BY <1>12 DEF Fire, CInv, IInv, Shape, Dated, EntriesTyped
<1>13. ASSUME NEW t \in Timers, FlushNothing(t) PROVE EntriesTyped'
  BY <1>13 DEF FlushNothing, Goto, Release, Current, CInv, IInv, Shape, Dated, EntriesTyped
<1>14. ASSUME NEW t \in Timers, Flush(t) PROVE EntriesTyped'
  BY <1>14 DEF Flush, Current, CInv, IInv, Shape, Dated, EntriesTyped
<1>15. ASSUME BeginClose PROVE EntriesTyped'
  BY <1>15 DEF BeginClose, CInv, IInv, Shape, Dated, EntriesTyped
<1>16. ASSUME CloseRange PROVE EntriesTyped'
  BY <1>16 DEF CloseRange, CInv, IInv, Shape, Dated, EntriesTyped
<1>17. ASSUME CloseDead PROVE EntriesTyped'
  BY <1>17 DEF CloseDead, Free, CInv, IInv, Shape, Dated, EntriesTyped
<1>18. ASSUME CloseEntry PROVE EntriesTyped'
  BY <1>18 DEF CloseEntry, Free, Goto, Cancel, Release, CInv, IInv, Shape, Dated, EntriesTyped
<1>19. ASSUME CloseCast PROVE EntriesTyped'
  BY <1>19 DEF CloseCast, Goto, Release, CInv, IInv, Shape, Dated, EntriesTyped
<1>20. ASSUME CloseEnds PROVE EntriesTyped'
  BY <1>20 DEF CloseEnds, CInv, IInv, Shape, Dated, EntriesTyped
<1>21. ASSUME NEW w \in Writers, NEW t \in Timers, SubmitArms(w, t) PROVE EntriesTyped'
  BY <1>21 DEF SubmitArms, FoundLive, Free, CInv, IInv, Shape, Dated, EntriesTyped
<1>22. CASE UNCHANGED vars
  BY <1>22 DEF vars, CInv, IInv, Shape, Dated, EntriesTyped
<1> QED
  BY <1>1, <1>2, <1>3, <1>4, <1>5, <1>6, <1>7, <1>8, <1>9, <1>10, <1>11, <1>12, <1>13, <1>14,
     <1>15, <1>16, <1>17, <1>18, <1>19, <1>20, <1>21, <1>22
     DEF Next, Progress, Push, Trail, Send, Close

\* Every step keeps the types.
LEMMA DatedStep == CInv /\ [Next]_vars => Dated'
<1> SUFFICES ASSUME CInv, [Next]_vars PROVE Dated'
  OBVIOUS
<1> USE ThreadsAssumption, MaxEntriesAssumption DEF Sending, Objs, Threads, store, entries, locals
<1>1. pending' \subseteq Objs
  <2>1. CASE Arms
    <3>1. PICK w \in Writers, t \in Timers : SubmitArms(w, t)
      BY <2>1 DEF Arms
    <3>2. pending' = pending \cup {obj[w]}
      BY <3>1 DEF SubmitArms
    <3>3. obj[w] \in 1 .. MaxEntries
      BY <3>1 DEF SubmitArms, FoundLive, Free, CInv, IInv, Shape
    <3> QED BY <3>2, <3>3 DEF CInv, Dated
  <2> QED BY <2>1, PendingGoes DEF CInv, Dated
<1>2. armedFor' \in [Timers -> Nat]
  <2>1. CASE Arms
    <3>1. PICK w \in Writers, t \in Timers : SubmitArms(w, t)
      BY <2>1 DEF Arms
    <3>2. armedFor' = [armedFor EXCEPT ![t] = gen[obj[w]]] /\ obj[w] \in Objs
      BY <3>1 DEF SubmitArms, FoundLive, Free, CInv, IInv, Shape
    <3>3. gen[obj[w]] \in Nat
      BY <3>2 DEF CInv, Dated
    <3> QED BY <3>2, <3>3 DEF CInv, Dated
  <2>2. CASE ~Arms
    <3>1. armedFor' = armedFor
      BY <2>2 DEF Next, Progress, Push, Trail, Send, Close, vars, Arms, Save, Discard, Get,
         FoundDead,
         SendNow, SubmitNow, SubmitHeld, SubmitClosed, ReadStored, Cast, WindowEnds, Fire,
         FlushNothing,
         Flush, BeginClose, CloseRange, CloseDead, CloseEntry, CloseCast, CloseEnds
    <3> QED BY <3>1 DEF CInv, Dated
  <2> QED BY <2>1, <2>2
<1>3. \A t \in Timers : pc'[t] \in {"idle", "armed", "fired", "done"} \cup Sending
  <2>1. CASE Arms
    <3>1. PICK w \in Writers, t \in Timers : SubmitArms(w, t)
      BY <2>1 DEF Arms
    <3>2. pc' = [pc EXCEPT ![w] = "done", ![t] = "armed"]
      BY <3>1 DEF SubmitArms
    <3> QED BY <3>2 DEF CInv, IInv, Shape, Dated
  <2>2. CASE TimersLeave
    BY <2>2 DEF TimersLeave, CInv, Dated
  <2> QED BY <2>1, <2>2, TimersGo
<1> QED BY <1>1, <1>2, <1>3, EntriesStep DEF Dated, EntriesTyped

\* What is held keeps its timer, and a timer its entry.
LEMMA ArmedStep == CInv /\ [Next]_vars => Armed'
<1> SUFFICES ASSUME CInv, [Next]_vars PROVE Armed'
  OBVIOUS
<1> USE ThreadsAssumption, MaxEntriesAssumption DEF Sending, Objs, Threads, store, entries, locals
<1>1. ASSUME NEW w \in Writers, Save(w) PROVE Armed'
  BY <1>1, StoppedAreArmed DEF Save, CInv, IInv, Shape, OneAlive, Holding, Dated, Armed, Stopped
<1>2. ASSUME Discard PROVE Armed'
  BY <1>2, StoppedAreArmed DEF Discard, CInv, IInv, Shape, OneAlive, Holding, Dated, Armed, Stopped
<1>3. ASSUME NEW w \in Writers, Get(w) PROVE Armed'
  BY <1>3, StoppedAreArmed DEF Get, CInv, IInv, Shape, OneAlive, Holding, Dated, Armed, Stopped
<1>4. ASSUME NEW w \in Writers, FoundDead(w) PROVE Armed'
  BY <1>4, StoppedAreArmed DEF FoundDead, Free, CInv, IInv, Shape, OneAlive, Holding, Dated,
     Armed, Stopped
<1>5. ASSUME NEW w \in Writers, SendNow(w) PROVE Armed'
  BY <1>5, StoppedAreArmed DEF SendNow, FoundLive, Free, Goto, Cancel, CInv, IInv, Shape,
     OneAlive, Holding, Dated, Armed, Stopped
<1>6. ASSUME NEW w \in Writers, SubmitNow(w) PROVE Armed'
  BY <1>6, StoppedAreArmed DEF SubmitNow, FoundLive, Free, Goto, Cancel, CInv, IInv, Shape,
     OneAlive, Holding, Dated, Armed, Stopped
<1>7. ASSUME NEW w \in Writers, SubmitHeld(w) PROVE Armed'
  BY <1>7, StoppedAreArmed DEF SubmitHeld, FoundLive, Free, CInv, IInv, Shape, OneAlive, Holding,
     Dated, Armed, Stopped
<1>8. ASSUME NEW w \in Writers, SubmitClosed(w) PROVE Armed'
  BY <1>8, StoppedAreArmed DEF SubmitClosed, FoundLive, Free, CInv, IInv, Shape, OneAlive,
     Holding, Dated, Armed, Stopped
<1>9. ASSUME NEW x \in Threads, ReadStored(x) PROVE Armed'
  BY <1>9, StoppedAreArmed DEF ReadStored, CInv, IInv, Shape, OneAlive, Holding, Dated, Armed,
     Stopped
<1>10. ASSUME NEW x \in Threads, Cast(x) PROVE Armed'
  <2>0. /\ obj[x] \in 1 .. made /\ obj[x] \notin dead
        /\ obj' = obj /\ armedFor' = armedFor /\ made' = made
        /\ x \in Threads /\ pc[x] = "cast"
    BY <1>10 DEF Cast, CInv, IInv, Shape, Holding
  <2>1. CASE still[x]
    <3>1. /\ pending' = pending /\ timer' = timer /\ gen' = gen
          /\ \A t \in Timers \ {x} : pc'[t] = pc[t]
      BY <1>10, <2>1 DEF Cast, Goto, CInv, IInv, Shape, Dated
    <3>2. \A o \in pending : timer[o] # x
      BY <2>0 DEF CInv, Armed
    <3>3. dead' = dead \/ (dead' = dead \cup {obj[x]} /\ obj[x] \notin pending')
      BY <1>10 DEF Cast, Release
    <3>4. \A o \in pending : timer[o] \in Timers
      BY DEF CInv, Dated, Armed
    <3> QED BY <2>0, <3>1, <3>2, <3>3, <3>4 DEF CInv, Armed, Dated
  <2>2. CASE ~still[x]
    <3>1. /\ pending' = pending \ {obj[x]} /\ timer' = [timer EXCEPT ![obj[x]] = None]
          /\ gen' = [gen EXCEPT ![obj[x]] = @ + 1]
          /\ \A t \in Timers \ {x} : pc'[t] = pc[t] \/ timer[obj[x]] = t
      BY <1>10, <2>2 DEF Cast, Goto, Cancel, Stopped, CInv, IInv, Shape, Dated
    <3>2. \A o \in pending : timer[o] # x /\ (timer[o] = timer[obj[x]] => o = obj[x])
      <4>1. obj[x] \in Objs
        BY <2>0 DEF CInv, IInv, Shape
      <4>2. \A o \in pending : o \in Objs /\ timer[o] # None /\ obj[timer[o]] = o /\ timer[o] # x
        BY <2>0 DEF CInv, Armed, Dated
      <4>3. obj[x] \notin pending => timer[obj[x]] = None
        BY <4>1 DEF CInv, Armed
      <4> QED BY <4>2, <4>3
    <3>3. dead' = dead \/ dead' = dead \cup {obj[x]}
      BY <1>10 DEF Cast, Release
    <3>4. /\ \A o \in pending : timer[o] \in Timers
          /\ \A o \in Objs \ {obj[x]} : timer'[o] = timer[o] /\ gen'[o] = gen[o]
          /\ timer'[obj[x]] = None
      BY <2>0, <3>1 DEF CInv, Dated, Armed, IInv, Shape
    <3>5. \A o \in pending' : /\ o \in pending /\ o \in 1 .. made' /\ timer'[o] = timer[o]
                              /\ pc'[timer[o]] = pc[timer[o]]
      BY <2>0, <3>1, <3>2, <3>4 DEF CInv, Armed, Dated
    <3>6. \A o \in Objs : o \in pending' <=> timer'[o] # None
      BY <2>0, <3>1, <3>4 DEF CInv, Armed
    <3>7. pending' \cap dead' = {}
      BY <3>1, <3>3 DEF CInv, Armed
    <3> QED BY <2>0, <3>1, <3>4, <3>5, <3>6, <3>7 DEF CInv, Armed, Dated
  <2> QED BY <2>1, <2>2
<1>11. ASSUME NEW o \in Objs, WindowEnds(o) PROVE Armed'
  BY <1>11, StoppedAreArmed DEF WindowEnds, CInv, IInv, Shape, OneAlive, Holding, Dated, Armed,
     Stopped
<1>12. ASSUME NEW t \in Timers, Fire(t) PROVE Armed'
  BY <1>12, StoppedAreArmed DEF Fire, CInv, IInv, Shape, OneAlive, Holding, Dated, Armed, Stopped
<1>13. ASSUME NEW t \in Timers, FlushNothing(t) PROVE Armed'
  BY <1>13, StoppedAreArmed DEF FlushNothing, Goto, Release, Current, CInv, IInv, Shape,
     OneAlive, Holding, Dated, Armed, Stopped
<1>14. ASSUME NEW t \in Timers, Flush(t) PROVE Armed'
  BY <1>14, StoppedAreArmed DEF Flush, Current, CInv, IInv, Shape, OneAlive, Holding, Dated,
     Armed, Stopped
<1>15. ASSUME BeginClose PROVE Armed'
  BY <1>15, StoppedAreArmed DEF BeginClose, CInv, IInv, Shape, OneAlive, Holding, Dated, Armed,
     Stopped
<1>16. ASSUME CloseRange PROVE Armed'
  BY <1>16, StoppedAreArmed DEF CloseRange, CInv, IInv, Shape, OneAlive, Holding, Dated, Armed,
     Stopped
<1>17. ASSUME CloseDead PROVE Armed'
  BY <1>17, StoppedAreArmed DEF CloseDead, Free, CInv, IInv, Shape, OneAlive, Holding, Dated,
     Armed, Stopped
<1>18. ASSUME CloseEntry PROVE Armed'
  BY <1>18, StoppedAreArmed DEF CloseEntry, Free, Goto, Cancel, Release, CInv, IInv, Shape,
     OneAlive, Holding, Dated, Armed, Stopped
<1>19. ASSUME CloseCast PROVE Armed'
  BY <1>19, StoppedAreArmed DEF CloseCast, Goto, Release, CInv, IInv, Shape, OneAlive, Holding,
     Dated, Armed, Stopped
<1>20. ASSUME CloseEnds PROVE Armed'
  BY <1>20, StoppedAreArmed DEF CloseEnds, CInv, IInv, Shape, OneAlive, Holding, Dated, Armed,
     Stopped
<1>21. ASSUME NEW w \in Writers, NEW t \in Timers, SubmitArms(w, t) PROVE Armed'
  BY SMTT(30), <1>21, StoppedAreArmed DEF SubmitArms, FoundLive, Free, CInv, IInv, Shape, OneAlive,
     Holding, Dated, Armed, Stopped
<1>22. CASE UNCHANGED vars
  BY <1>22 DEF vars, CInv, IInv, Shape, OneAlive, Holding, Dated, Armed, Stopped
<1> QED
  BY <1>1, <1>2, <1>3, <1>4, <1>5, <1>6, <1>7, <1>8, <1>9, <1>10, <1>11, <1>12, <1>13, <1>14,
     <1>15, <1>16, <1>17, <1>18, <1>19, <1>20, <1>21, <1>22
     DEF Next, Progress, Push, Trail, Send, Close

-----------------------------------------------------------------------------
\* The timers a cancellation stops are under way.
LEMMA StoppedUnderway == \A o : Stopped(o) \in SUBSET Underway
  BY DEF Stopped, Underway

\* Whoever moves on with Goto, and the timers that leave with it, keep the count:
\* a timer that ends is among those that leave, and nobody else starts one.
LEMMA GotoCounts ==
  ASSUME CInv, NEW x \in Threads, NEW where, NEW S \in SUBSET Underway, Goto(x, where, S),
         x \in Timers => where = "done" /\ x \in S
  PROVE  Counted'
<1>1. Underway' = Underway \ S
  BY DEF Goto, Underway, CInv, IInv, Shape, Sending, Threads
<1>2. IsFiniteSet(Underway) /\ Underway \cap S = S
  BY ThreadsAssumption, FS_Subset DEF Underway
<1>3. Cardinality(Underway \ S) = Cardinality(Underway) - Cardinality(S)
  BY <1>2, FS_Difference
<1>4. inflight' = inflight - Cardinality(S)
  BY DEF Goto
<1> QED BY <1>1, <1>3, <1>4 DEF CInv, Counted

\* The WaitGroup counts the timers under way.
LEMMA CountedStep == CInv /\ [Next]_vars => Counted'
<1> SUFFICES ASSUME CInv, [Next]_vars PROVE Counted'
  OBVIOUS
<1> USE ThreadsAssumption, MaxEntriesAssumption DEF Sending, Objs, Threads, store, entries, locals
<1>1. ASSUME NEW w \in Writers, Save(w) PROVE Counted'
  <2>1. Underway' = Underway /\ inflight' = inflight
    BY <1>1 DEF Save, Underway, CInv, IInv, Shape
  <2> QED BY <2>1 DEF CInv, Counted
<1>2. ASSUME Discard PROVE Counted'
  <2>1. Underway' = Underway /\ inflight' = inflight
    BY <1>2 DEF Discard, Underway, CInv, IInv, Shape
  <2> QED BY <2>1 DEF CInv, Counted
<1>3. ASSUME NEW w \in Writers, Get(w) PROVE Counted'
  <2>1. Underway' = Underway /\ inflight' = inflight
    BY <1>3 DEF Get, Underway, CInv, IInv, Shape
  <2> QED BY <2>1 DEF CInv, Counted
<1>4. ASSUME NEW w \in Writers, FoundDead(w) PROVE Counted'
  <2>1. Underway' = Underway /\ inflight' = inflight
    BY <1>4 DEF FoundDead, Free, Underway, CInv, IInv, Shape
  <2> QED BY <2>1 DEF CInv, Counted
<1>5. ASSUME NEW w \in Writers, SendNow(w) PROVE Counted'
  BY <1>5, GotoCounts, StoppedUnderway DEF SendNow
<1>6. ASSUME NEW w \in Writers, SubmitNow(w) PROVE Counted'
  BY <1>6, GotoCounts, StoppedUnderway DEF SubmitNow
<1>7. ASSUME NEW w \in Writers, SubmitHeld(w) PROVE Counted'
  <2>1. Underway' = Underway /\ inflight' = inflight
    BY <1>7 DEF SubmitHeld, FoundLive, Free, Underway, CInv, IInv, Shape
  <2> QED BY <2>1 DEF CInv, Counted
<1>8. ASSUME NEW w \in Writers, SubmitClosed(w) PROVE Counted'
  <2>1. Underway' = Underway /\ inflight' = inflight
    BY <1>8 DEF SubmitClosed, FoundLive, Free, Underway, CInv, IInv, Shape
  <2> QED BY <2>1 DEF CInv, Counted
<1>9. ASSUME NEW x \in Threads, ReadStored(x) PROVE Counted'
  <2>1. Underway' = Underway /\ inflight' = inflight
    BY <1>9 DEF ReadStored, Underway, CInv, IInv, Shape
  <2> QED BY <2>1 DEF CInv, Counted
<1>10. ASSUME NEW x \in Threads, Cast(x) PROVE Counted'
  <2> DEFINE own == IF x \in Timers THEN {x} ELSE {}
  <2>1. own \in SUBSET Underway /\ (x \in Timers => x \in own)
    BY <1>10 DEF Cast, Underway
  <2>2. Goto(x, "done", own) \/ Goto(x, "done", Stopped(obj[x]) \cup own)
    BY <1>10 DEF Cast
  <2>3. Stopped(obj[x]) \cup own \in SUBSET Underway
    BY <2>1, StoppedUnderway
  <2> HIDE DEF own
  <2>4. CASE Goto(x, "done", own)
    BY <2>1, <2>4, GotoCounts
  <2>5. CASE Goto(x, "done", Stopped(obj[x]) \cup own)
    BY <2>1, <2>3, <2>5, GotoCounts
  <2> QED BY <2>2, <2>4, <2>5
<1>11. ASSUME NEW o \in Objs, WindowEnds(o) PROVE Counted'
  <2>1. Underway' = Underway /\ inflight' = inflight
    BY <1>11 DEF WindowEnds, Underway, CInv, IInv, Shape
  <2> QED BY <2>1 DEF CInv, Counted
<1>12. ASSUME NEW t \in Timers, Fire(t) PROVE Counted'
  <2>1. Underway' = Underway /\ inflight' = inflight
    BY <1>12 DEF Fire, Underway, CInv, IInv, Shape
  <2> QED BY <2>1 DEF CInv, Counted
<1>13. ASSUME NEW t \in Timers, FlushNothing(t) PROVE Counted'
  <2>1. {t} \in SUBSET Underway
    BY <1>13 DEF FlushNothing, Underway
  <2> QED BY <1>13, <2>1, GotoCounts DEF FlushNothing
<1>14. ASSUME NEW t \in Timers, Flush(t) PROVE Counted'
  <2>1. Underway' = Underway /\ inflight' = inflight
    BY <1>14 DEF Flush, Current, Underway, CInv, IInv, Shape
  <2> QED BY <2>1 DEF CInv, Counted
<1>15. ASSUME BeginClose PROVE Counted'
  <2>1. Underway' = Underway /\ inflight' = inflight
    BY <1>15 DEF BeginClose, Underway, CInv, IInv, Shape
  <2> QED BY <2>1 DEF CInv, Counted
<1>16. ASSUME CloseRange PROVE Counted'
  <2>1. Underway' = Underway /\ inflight' = inflight
    BY <1>16 DEF CloseRange, Underway, CInv, IInv, Shape
  <2> QED BY <2>1 DEF CInv, Counted
<1>17. ASSUME CloseDead PROVE Counted'
  <2>1. Underway' = Underway /\ inflight' = inflight
    BY <1>17 DEF CloseDead, Free, Underway, CInv, IInv, Shape
  <2> QED BY <2>1 DEF CInv, Counted
<1>18. ASSUME CloseEntry PROVE Counted'
  <2>1. CASE obj[Closer] \in pending
    BY <1>18, <2>1, GotoCounts, StoppedUnderway DEF CloseEntry
  <2>2. CASE obj[Closer] \notin pending
    BY <1>18, <2>2, GotoCounts, StoppedUnderway DEF CloseEntry
  <2> QED BY <2>1, <2>2
<1>19. ASSUME CloseCast PROVE Counted'
  BY <1>19, GotoCounts DEF CloseCast
<1>20. ASSUME CloseEnds PROVE Counted'
  <2>1. Underway' = Underway /\ inflight' = inflight
    BY <1>20 DEF CloseEnds, Underway, CInv, IInv, Shape
  <2> QED BY <2>1 DEF CInv, Counted
<1>21. ASSUME NEW w \in Writers, NEW t \in Timers, SubmitArms(w, t) PROVE Counted'
  <2>1. Underway' = Underway \cup {t} /\ t \notin Underway /\ inflight' = inflight + 1
    BY <1>21 DEF SubmitArms, FoundLive, Free, Underway, CInv, IInv, Shape
  <2>2. IsFiniteSet(Underway)
    BY FS_Subset DEF Underway
  <2>3. Cardinality(Underway \cup {t}) = Cardinality(Underway) + 1
    BY <2>1, <2>2, FS_AddElement
  <2> QED BY <2>1, <2>3 DEF CInv, Counted
<1>22. CASE UNCHANGED vars
  <2>1. Underway' = Underway /\ inflight' = inflight
    BY <1>22 DEF vars, Underway
  <2> QED BY <2>1 DEF CInv, Counted
<1> QED
  BY <1>1, <1>2, <1>3, <1>4, <1>5, <1>6, <1>7, <1>8, <1>9, <1>10, <1>11, <1>12, <1>13, <1>14,
     <1>15, <1>16, <1>17, <1>18, <1>19, <1>20, <1>21, <1>22
     DEF Next, Progress, Push, Trail, Send, Close

\* Once Close has begun, what is held and what is under way only go: Close, which
\* finds every entry that can hold a push, is the last to send.
LEMMA ClosingStep == CInv /\ [Next]_vars => Closing'
<1> SUFFICES ASSUME CInv, [Next]_vars PROVE Closing'
  OBVIOUS
<1> USE ThreadsAssumption, MaxEntriesAssumption DEF Sending, Objs, Threads, store, entries, locals
<1>1. Arms => ~closed /\ ~closed' /\ pc'[Closer] = pc[Closer]
  <2> SUFFICES ASSUME NEW w \in Writers, NEW t \in Timers, SubmitArms(w, t)
               PROVE  ~closed /\ ~closed' /\ pc'[Closer] = pc[Closer]
    BY DEF Arms
  <2> QED BY DEF SubmitArms, CInv, IInv, Shape
<1>2. CASE Arms
  BY <1>1, <1>2 DEF CInv, Closing
<1>3. CASE ~Arms /\ CloserStays
  <2>1. pending' \subseteq pending
    BY <1>3, PendingGoes
  <2>2. pc[Closer] = "done" => inflight' = 0
    <3> SUFFICES ASSUME pc[Closer] = "done" PROVE inflight' = 0
      OBVIOUS
    <3>1. Cardinality(Underway) = 0 /\ IsFiniteSet(Underway)
      BY FS_Subset DEF CInv, Counted, Closing, Underway
    <3>2. Underway = {}
      BY <3>1, FS_EmptySet
    <3>3. TimersLeave
      BY <1>3, TimersGo
    <3>4. Underway' = {}
      BY <3>2, <3>3 DEF TimersLeave, Underway
    <3> QED BY <3>4, CountedStep, FS_EmptySet DEF Counted
  <2> QED BY <1>3, <2>1, <2>2 DEF CloserStays, CInv, Closing
<1>4. CASE BeginClose
  BY <1>4 DEF BeginClose, CInv, IInv, Shape, Closing
<1>5. CASE CloseRange
  <2>1. pending \subseteq {keys}
    BY DEF CInv, Armed, IInv, Shape, OneAlive
  <2>2. keys = 0 => pending = {}
    BY <2>1 DEF CInv, Dated
  <2> QED BY <1>5, <2>1, <2>2 DEF CloseRange, CInv, IInv, Shape, Closing
<1>6. CASE CloseDead
  BY <1>6 DEF CloseDead, Free, CInv, IInv, Shape, Armed, Closing
<1>7. CASE CloseEntry
  <2>1. pending' = pending \ {obj[Closer]} /\ pc[Closer] = "wait" /\ closed' = closed
    BY <1>7 DEF CloseEntry, Free, Cancel
  <2>2. pc'[Closer] \in {"read", "flight"}
    <3>1. Goto(Closer, "read", Stopped(obj[Closer])) \/ Goto(Closer, "flight", Stopped(obj[Closer]))
      BY <1>7 DEF CloseEntry
    <3> QED BY <3>1 DEF Goto
  <2>3. pending' = {}
    BY <2>1 DEF CInv, Closing
  <2> QED BY <2>1, <2>2, <2>3 DEF CInv, Closing
<1>8. CASE CloseCast
  BY <1>8 DEF CloseCast, Goto, CInv, IInv, Shape, Closing
<1>9. CASE CloseEnds
  BY <1>9 DEF CloseEnds, CInv, IInv, Shape, Closing
<1>10. CASE ReadStored(Closer)
  BY <1>10 DEF ReadStored, CInv, IInv, Shape, Closing
<1> QED
  BY <1>2, <1>3, <1>4, <1>5, <1>6, <1>7, <1>8, <1>9, <1>10, CloserMoves DEF Closers, Close

\* A match whose first push has gone out, and nothing held.
LEMMA CInit == Init => CInv
<1> SUFFICES ASSUME Init PROVE CInv
  OBVIOUS
<1> USE ThreadsAssumption, MaxEntriesAssumption
<1>1. Underway = {}
  BY DEF Init, Underway, Threads, Sending
<1>2. Counted
  BY <1>1, FS_EmptySet DEF Counted, Init
<1>3. Dated
  BY DEF Init, Dated, Threads, Objs, Sending
<1>4. Armed
  BY DEF Init, Armed, Objs
<1>5. Closing
  BY DEF Init, Closing, Threads, Sending
<1> QED BY <1>2, <1>3, <1>4, <1>5, InitInv DEF CInv

\* "No timer outlives Close": whatever is submitted, fires or is sent while the
\* process shuts down, once Close has returned no timer is armed or sending and
\* no push is held.
THEOREM CloseIsTheEnd == Spec => []NothingOutlivesClose
<1>1. CInv /\ [Next]_vars => CInv'
  BY InvStep, DatedStep, CountedStep, ArmedStep, ClosingStep DEF CInv
<1>2. CInv => NothingOutlivesClose
  <2> SUFFICES ASSUME CInv, pc[Closer] = "done"
               PROVE  inflight = 0 /\ pending = {} /\ \A t \in Timers : pc[t] \in {"idle", "done"}
    BY DEF NothingOutlivesClose
  <2>1. IsFiniteSet(Underway) /\ Cardinality(Underway) = 0 /\ inflight = 0 /\ pending = {}
    BY ThreadsAssumption, FS_Subset DEF CInv, Counted, Closing, Underway
  <2>2. Underway = {}
    BY <2>1, FS_EmptySet
  <2> QED BY <2>1, <2>2 DEF Underway, CInv, Dated
<1> QED BY <1>1, <1>2, CInit, PTL DEF Spec
============================================================
