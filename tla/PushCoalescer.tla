--------------------------- MODULE PushCoalescer ---------------------------
(***************************************************************************)
(* internal/mobileapp/broadcast_coalescer.go: the match_updated pushes of  *)
(* one match.  Every writer saves the match and then, with no lock between *)
(* the two, asks for a push; the pushes of the match are serialized by a   *)
(* lock in an entry of a concurrent map that is dropped when it holds      *)
(* nothing, running pushes are paced by a window with a trailing timer, and*)
(* Close flushes at shutdown.                                              *)
(*                                                                         *)
(* An entry (coalescerKey) is a number, in the order they are made.  What  *)
(* a push carries is the version of the stored match it read.  The store   *)
(* answers every read (freshMatchRead falls back on the payload the writer *)
(* captured when it does not).                                             *)
(***************************************************************************)
EXTENDS Integers, FiniteSets

CONSTANTS
    Writers,   \* requests that write the match
    Runners,   \* those that leave it running; the others may or may not
    Timers,    \* identities of trailing-send timers
    Closer,    \* the goroutine that runs Close
    None,
    MaxEntries \* bound: entries made (one more than the threads is enough)

ASSUME MaxEntriesAssumption == MaxEntries \in Nat \ {0}

ASSUME ThreadsAssumption ==
    /\ Runners \subseteq Writers /\ Writers \cap Timers = {} /\ Closer \notin Writers \cup Timers
    /\ None \notin Writers \cup Timers \cup {Closer}
    /\ IsFiniteSet(Timers)

Threads == Writers \cup Timers \cup {Closer}

VARIABLES
    version,   \* of the stored match
    running,   \* the stored match is running
    found,     \* the match exists (FALSE: its draw was discarded)
    sent,      \* version of the last push
    keys,      \* the entry the map holds for the match, 0 for none
    made,      \* entries made so far
    dead,      \* entries dropped from the map
    holder,    \* who holds an entry's lock
    window,    \* an entry's hasLast and last: "none", "on", "over" (the window ended)
    pending,   \* entries holding a push
    timer,     \* coalescerKey.timer
    gen,       \* coalescerKey.gen
    armedFor,  \* the generation a timer was armed for
    pc,        \* where each thread is
    kind,      \* what a writer writes: a running match, or one no longer running
    obj,       \* the entry a thread works on
    read,      \* the version a thread has read to push
    still,     \* whether the match it read is running
    closed,    \* matchBroadcastCoalescer.closed
    inflight   \* its WaitGroup

store == <<version, running, found>>
entries == <<dead, window, pending, timer, gen>>
locals == <<kind, obj, read, still>>
vars == <<store, sent, keys, made, entries, holder, armedFor, pc, locals, closed, inflight>>

Objs == 1 .. MaxEntries

TypeOK ==
    /\ version \in Nat /\ running \in BOOLEAN /\ found \in BOOLEAN /\ sent \in 0 .. version
    /\ keys \in {0} \cup (1 .. made) /\ made \in Objs
    /\ dead \subseteq 1 .. made /\ pending \subseteq (1 .. made) \ dead /\ keys \notin dead
    /\ holder \in [Objs -> Threads \cup {None}]
    /\ window \in [Objs -> {"none", "on", "over"}]
    /\ timer \in [Objs -> Timers \cup {None}]
    /\ gen \in [Objs -> Nat] /\ armedFor \in [Timers -> Nat]
    /\ pc \in [Threads -> {"idle", "get", "wait", "armed", "fired", "read", "cast",
                           "range", "flight", "done"}]
    /\ kind \in [Writers -> {"running", "settled"}]
    /\ obj \in [Threads -> 0 .. made] /\ read \in [Threads -> 0 .. version]
    /\ still \in [Threads -> BOOLEAN]
    /\ closed \in BOOLEAN /\ inflight \in 0 .. Cardinality(Timers)

\* A running match whose first push has just gone out.
Init ==
    /\ version = 1 /\ running = TRUE /\ found = TRUE /\ sent = 1
    /\ keys = 1 /\ made = 1 /\ dead = {} /\ pending = {}
    /\ holder = [o \in Objs |-> None]
    /\ window = [o \in Objs |-> IF o = 1 THEN "on" ELSE "none"]
    /\ timer = [o \in Objs |-> None] /\ gen = [o \in Objs |-> 0]
    /\ armedFor = [t \in Timers |-> 0]
    /\ pc = [x \in Threads |-> "idle"] 
    /\ kind \in {k \in [Writers -> {"running", "settled"}] : \A w \in Runners : k[w] = "running"}
    /\ obj = [x \in Threads |-> 0] /\ read = [x \in Threads |-> 0]
    /\ still = [x \in Threads |-> FALSE]
    /\ closed = FALSE /\ inflight = 0

-----------------------------------------------------------------------------
\* Helpers under an entry's lock.

\* The timers cancelLocked stops before they fire.
Stopped(o) == {t \in Timers : timer[o] = t /\ pc[t] = "armed"}

\* Mutant: a cancelled timer is counted out whether or not it had fired.
GotoDoneTwice(x, where, stopped) ==
    /\ pc' = [y \in Threads |-> IF y = x THEN where ELSE IF y \in stopped THEN "done" ELSE pc[y]]
    /\ inflight' = inflight - Cardinality(stopped \cup {t \in Timers : timer[obj[x]] = t})

\* Thread x moves on; the timers stopped or finished here leave the WaitGroup.
Goto(x, where, stopped) ==
    /\ pc' = [y \in Threads |-> IF y = x THEN where ELSE IF y \in stopped THEN "done" ELSE pc[y]]
    /\ inflight' = inflight - Cardinality(stopped)

\* Mutant: a cancellation keeps the generation.
CancelSameGen(o) ==
    /\ gen' = gen /\ pending' = pending \ {o} /\ timer' = [timer EXCEPT ![o] = None]

\* cancelLocked
Cancel(o) ==
    /\ gen' = [gen EXCEPT ![o] = @ + 1] /\ pending' = pending \ {o}
    /\ timer' = [timer EXCEPT ![o] = None]

\* Mutant: an entry stays in the map whatever it holds.
ReleaseKeeps(o) == holder' = [holder EXCEPT ![o] = None] /\ UNCHANGED <<dead, keys>>

\* release: an entry that holds nothing is dropped.
Release(o) ==
    /\ holder' = [holder EXCEPT ![o] = None]
    /\ IF window'[o] = "none" /\ o \notin pending'
       THEN dead' = dead \cup {o} /\ keys' = IF keys = o THEN 0 ELSE keys
       ELSE UNCHANGED <<dead, keys>>

-----------------------------------------------------------------------------
\* A writer: save, then Submit (running) or SendNow.

Save(w) ==
    /\ pc[w] = "idle" /\ found
    /\ version' = version + 1 /\ running' = (kind[w] = "running")
    /\ pc' = [pc EXCEPT ![w] = "get"]
    /\ UNCHANGED <<found, sent, keys, made, entries, holder, armedFor, locals, closed, inflight>>

\* The draw is discarded, or the competition deleted.
Discard ==
    /\ found /\ found' = FALSE
    /\ UNCHANGED <<version, running, sent, keys, made, entries, holder, armedFor, pc, locals,
                   closed, inflight>>

\* LoadOrStore
Get(w) ==
    /\ pc[w] = "get" /\ (keys = 0 => made < MaxEntries)
    /\ IF keys = 0 THEN made' = made + 1 /\ keys' = made + 1 ELSE UNCHANGED <<made, keys>>
    /\ obj' = [obj EXCEPT ![w] = keys']
    /\ pc' = [pc EXCEPT ![w] = "wait"]
    /\ UNCHANGED <<store, sent, entries, holder, armedFor, kind, read, still, closed, inflight>>

Free(x) == pc[x] = "wait" /\ holder[obj[x]] = None

\* Mutant: a dropped entry is taken as it is.
FoundAlive(x) == Free(x)

\* The entry is still the map's.
FoundLive(x) == Free(x) /\ obj[x] \notin dead

\* The entry was dropped meanwhile: retry.
FoundDead(w) ==
    /\ Free(w) /\ obj[w] \in dead
    /\ pc' = [pc EXCEPT ![w] = "get"]
    /\ UNCHANGED <<store, sent, keys, made, entries, holder, armedFor, locals, closed, inflight>>

\* A push that is not a running one: cancels what is held, ends the window.
SendNow(w) ==
    LET o == obj[w] IN
    /\ FoundLive(w) /\ kind[w] = "settled"
    /\ Goto(w, "read", Stopped(o)) /\ Cancel(o)
    /\ window' = [window EXCEPT ![o] = "none"]
    /\ holder' = [holder EXCEPT ![o] = w]
    /\ UNCHANGED <<store, sent, keys, made, dead, armedFor, locals, closed>>

\* A running push outside the window (allowLocked).
SubmitNow(w) ==
    LET o == obj[w] IN
    /\ FoundLive(w) /\ kind[w] = "running" /\ window[o] # "on"
    /\ Goto(w, "read", Stopped(o)) /\ Cancel(o)
    /\ window' = [window EXCEPT ![o] = "on"]
    /\ holder' = [holder EXCEPT ![o] = w]
    /\ UNCHANGED <<store, sent, keys, made, dead, armedFor, locals, closed>>

\* A running push inside the window is held; the timer there will send it.
SubmitHeld(w) ==
    LET o == obj[w] IN
    /\ FoundLive(w) /\ kind[w] = "running" /\ window[o] = "on" /\ timer[o] # None
    /\ pending' = pending \cup {o}
    /\ pc' = [pc EXCEPT ![w] = "done"]
    /\ UNCHANGED <<store, sent, keys, made, dead, window, timer, gen, holder, armedFor, locals, closed,
                   inflight>>

\* The first one held in a window arms a timer.
SubmitArms(w, t) ==
    LET o == obj[w] IN
    /\ FoundLive(w) /\ kind[w] = "running" /\ window[o] = "on" /\ timer[o] = None /\ ~closed
    /\ pc[t] = "idle"
    /\ pending' = pending \cup {o} /\ timer' = [timer EXCEPT ![o] = t]
    /\ armedFor' = [armedFor EXCEPT ![t] = gen[o]]
    /\ pc' = [pc EXCEPT ![w] = "done", ![t] = "armed"]
    /\ obj' = [obj EXCEPT ![t] = o]
    /\ inflight' = inflight + 1
    /\ UNCHANGED <<store, sent, keys, made, dead, window, gen, holder, kind, read, still, closed>>

\* The same once Close has begun: no timer is armed, the push goes out.
SubmitClosed(w) ==
    LET o == obj[w] IN
    /\ FoundLive(w) /\ kind[w] = "running" /\ window[o] = "on"
    /\ timer[o] = None /\ closed
    /\ pending' = pending \ {o}
    /\ pc' = [pc EXCEPT ![w] = "read"] /\ holder' = [holder EXCEPT ![o] = w]
    /\ UNCHANGED <<store, sent, keys, made, dead, window, timer, gen, armedFor, locals, closed, inflight>>

-----------------------------------------------------------------------------
\* The send, under the entry's lock: freshMatchRead, then Broadcast.

ReadStored(x) ==
    /\ pc[x] = "read"
    /\ pc' = [pc EXCEPT ![x] = "cast"]
    /\ read' = [read EXCEPT ![x] = IF found THEN version ELSE 0]
    /\ still' = [still EXCEPT ![x] = found /\ running]
    /\ UNCHANGED <<store, sent, keys, made, entries, holder, armedFor, kind, obj, closed, inflight>>

\* A discarded match is not pushed.
Pushed(x) == sent' = IF read[x] = 0 THEN sent ELSE read[x]

\* The push goes out; one that found the match no longer running ends the
\* window (sentLocked).
Cast(x) ==
    LET o == obj[x] IN
    /\ x # Closer /\ pc[x] = "cast"
    /\ Pushed(x)
    /\ IF still[x]
       THEN Goto(x, "done", IF x \in Timers THEN {x} ELSE {}) /\ UNCHANGED <<gen, pending, timer, window>>
       ELSE /\ Goto(x, "done", Stopped(o) \cup (IF x \in Timers THEN {x} ELSE {}))
            /\ Cancel(o) /\ window' = [window EXCEPT ![o] = "none"]
    /\ Release(o)
    /\ UNCHANGED <<store, made, armedFor, locals, closed>>

-----------------------------------------------------------------------------
\* Time and timers.

WindowEnds(o) ==
    /\ window[o] = "on" /\ window' = [window EXCEPT ![o] = "over"]
    /\ UNCHANGED <<store, sent, keys, made, dead, pending, timer, gen, holder, armedFor, pc, locals,
                   closed, inflight>>

\* A timer's delay is what was left of its window.
Fire(t) ==
    /\ pc[t] = "armed" /\ window[obj[t]] = "over"
    /\ pc' = [pc EXCEPT ![t] = "fired"]
    /\ UNCHANGED <<store, sent, keys, made, entries, holder, armedFor, locals, closed, inflight>>

Current(t) == obj[t] \notin dead /\ gen[obj[t]] = armedFor[t] /\ obj[t] \in pending

\* flushPending of a timer cancelled meanwhile.
FlushNothing(t) ==
    LET o == obj[t] IN
    /\ pc[t] = "fired" /\ holder[o] = None /\ ~Current(t)
    /\ Goto(t, "done", {t})
    /\ UNCHANGED <<window, pending, timer, gen>> /\ Release(o)
    /\ UNCHANGED <<store, sent, made, armedFor, locals, closed>>

Flush(t) ==
    LET o == obj[t] IN
    /\ pc[t] = "fired" /\ holder[o] = None /\ Current(t)
    /\ pending' = pending \ {o} /\ timer' = [timer EXCEPT ![o] = None]
    /\ window' = [window EXCEPT ![o] = "on"]
    /\ pc' = [pc EXCEPT ![t] = "read"] /\ holder' = [holder EXCEPT ![o] = t]
    /\ UNCHANGED <<store, sent, keys, made, dead, gen, armedFor, locals, closed, inflight>>

-----------------------------------------------------------------------------
\* Close, at shutdown.

BeginClose ==
    /\ pc[Closer] = "idle"
    /\ closed' = TRUE /\ pc' = [pc EXCEPT ![Closer] = "range"]
    /\ UNCHANGED <<store, sent, keys, made, entries, holder, armedFor, locals, inflight>>

\* keys.Range
CloseRange ==
    /\ pc[Closer] = "range"
    /\ obj' = [obj EXCEPT ![Closer] = keys]
    /\ pc' = [pc EXCEPT ![Closer] = IF keys = 0 THEN "flight" ELSE "wait"]
    /\ UNCHANGED <<store, sent, keys, made, entries, holder, armedFor, kind, read, still, closed, inflight>>

CloseDead ==
    /\ Free(Closer) /\ obj[Closer] \in dead
    /\ pc' = [pc EXCEPT ![Closer] = "flight"]
    /\ UNCHANGED <<store, sent, keys, made, entries, holder, armedFor, locals, closed, inflight>>

\* Mutant: what the entry holds is dropped, not sent.
CloseDrops ==
    LET o == obj[Closer] IN
    /\ Free(Closer) /\ o \notin dead
    /\ Cancel(o) /\ window' = [window EXCEPT ![o] = "none"]
    /\ Goto(Closer, "flight", Stopped(o)) /\ Release(o)
    /\ UNCHANGED <<store, sent, made, armedFor, locals, closed>>

\* Mutant: the timers are left armed.
CloseKeepsTimer ==
    LET o == obj[Closer] IN
    /\ Free(Closer) /\ o \notin dead
    /\ UNCHANGED <<gen, pending, timer, window>>
    /\ Goto(Closer, "done", {}) /\ Release(o)
    /\ UNCHANGED <<store, sent, made, armedFor, locals, closed>>

\* The entry's timer is stopped; the push it held is sent, under its lock.
CloseEntry ==
    LET o == obj[Closer] IN
    /\ Free(Closer) /\ o \notin dead
    /\ Cancel(o)
    /\ IF o \in pending
       THEN /\ Goto(Closer, "read", Stopped(o)) /\ holder' = [holder EXCEPT ![o] = Closer]
            /\ UNCHANGED <<window, dead, keys>>
       ELSE /\ Goto(Closer, "flight", Stopped(o)) /\ window' = [window EXCEPT ![o] = "none"]
            /\ Release(o)
    /\ UNCHANGED <<store, sent, made, armedFor, locals, closed>>

CloseCast ==
    LET o == obj[Closer] IN
    /\ pc[Closer] = "cast" /\ Pushed(Closer)
    /\ window' = [window EXCEPT ![o] = "none"]
    /\ UNCHANGED <<gen, pending, timer>>
    /\ Goto(Closer, "flight", {}) /\ Release(o)
    /\ UNCHANGED <<store, made, armedFor, locals, closed>>

\* inflight.Wait
CloseEnds ==
    /\ pc[Closer] = "flight" /\ inflight = 0
    /\ pc' = [pc EXCEPT ![Closer] = "done"]
    /\ UNCHANGED <<store, sent, keys, made, entries, holder, armedFor, locals, closed, inflight>>

-----------------------------------------------------------------------------
Push(w) ==
    /\ pc[w] \in {"get", "wait"}
    /\ \/ Get(w) \/ FoundDead(w) \/ SendNow(w) \/ SubmitNow(w) \/ SubmitHeld(w) \/ SubmitClosed(w)
       \/ \E t \in Timers : SubmitArms(w, t)
Trail(t) == pc[t] \in {"armed", "fired"} /\ (Fire(t) \/ FlushNothing(t) \/ Flush(t))
Close == CloseRange \/ CloseDead \/ CloseEntry \/ CloseCast \/ CloseEnds
Send(x) == pc[x] \in {"read", "cast"} /\ (ReadStored(x) \/ Cast(x))

Progress ==
    \/ \E w \in Writers : Push(w)
    \/ \E t \in Timers : Trail(t)
    \/ \E x \in Threads : Send(x)
    \/ \E o \in Objs : WindowEnds(o)
    \/ Close

Next == Progress \/ (\E w \in Writers : Save(w)) \/ Discard \/ BeginClose

Spec == Init /\ [][Next]_vars

\* Requests that have saved go on to push, time passes, timers fire and their
\* sends run, Close goes through.  No step is taken for ever, so it is enough
\* that some goroutine that can move does.
Fairness == WF_vars(Progress)

FairSpec == Spec /\ Fairness

-----------------------------------------------------------------------------
\* "A push always sends the LATEST STORED match, and the pushes are
\* serialized": no push carries an older state than one before it, though the
\* requests save and push in any order.
NeverBackwards == [][sent' >= sent]_vars

\* "The last state of a burst is always broadcast": every saved state is
\* followed by a push of it or of a later one, unless the match is discarded.
EveryStateSent == \A v \in 2 .. Cardinality(Writers) + 1 : (version = v) ~> (sent >= v \/ ~found)

\* A timer that fires late never sends inside a window another push opened
\* (gen): at most one running push a window.
TimersArePaced ==
    [][\A t \in Timers : pc[t] = "fired" /\ pc'[t] = "read" => window[obj[t]] # "on"]_vars

Busy == \E x \in Threads : pc[x] \in {"get", "wait", "read", "cast", "range"}

\* "No timer outlives Close": once it has returned none is armed or sending,
\* and nothing is held.
NothingOutlivesClose ==
    pc[Closer] = "done" => /\ inflight = 0 /\ \A t \in Timers : pc[t] \in {"idle", "done"}
                           /\ pending = {}

\* "The map is bounded by the set of currently-RUNNING matches": between
\* pushes it has an entry only for a match that runs.
OnlyRunningKept == ~Busy /\ keys # 0 => running \/ ~found
=============================================================================
