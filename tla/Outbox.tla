------------------------------- MODULE Outbox -------------------------------
(***************************************************************************)
(* web-mobile/js/api_client.jsx: the outbox.  Every write of an operator is*)
(* queued in the page (a tab), stored in the browser storage all tabs of   *)
(* the device share, and sent by a pass that takes the matches side by side*)
(* and each match strictly in order.  A tab learns of what another stored  *)
(* through storage events, later and in order.  Requests are lost, refused *)
(* or answered; the password is reset; tabs close and open; storage refuses*)
(* writes.                                                                 *)
(*                                                                         *)
(* One step is one task of the browser's event loop with the microtasks it *)
(* leaves.  Left out: the clock-skew re-stamp, the gate of minted members, *)
(* a queue an older build stored, and the flags that only reach the screen *)
(* (held).                                                                 *)
(***************************************************************************)
EXTENDS OutboxQueue, Sequences

CONSTANTS
    Tabs,
    Bases,      \* the matches written to
    BatchMax,   \* TAP_BATCH_MAX
    Shapes      \* what a run lets happen, one record per case (see MCOutbox)

ASSUME OutboxAssumption ==
    /\ BatchMax \in Nat \ {0}
    /\ \A s \in Shapes : s.tabs \subseteq Tabs /\ s.bases \subseteq Bases /\ s.kinds \in [Tabs -> SUBSET Kinds]

VARIABLES
    shape,      \* the case at hand
    clock,      \* the writes made so far
    made,       \* by which page each write was made, and after which others
    tab,        \* each page: its queue, its pass, what it settled
    stored,     \* the outbox in browser storage
    events,     \* the storage events each page has yet to hear
    refusing,   \* browser storage refuses what is written to it
    pw,         \* the version of the tournament password the server takes
    met,        \* the writes the server has taken or refused
    gone,       \* the writes a person gave up: discarded, signed out of, never stored
    unsaved,    \* the writes whose operator was told they are not stored
    spent       \* how often each fault has happened

vars == <<shape, clock, made, tab, stored, events, refusing, pw, met, gone, unsaved, spent>>

Fresh(q, password) ==
    [open |-> TRUE, queue |-> q, settled |-> {}, here |-> {}, adopted |-> {}, left |-> FALSE,
     pass |-> FALSE, requested |-> FALSE, cut |-> FALSE, timer |-> FALSE, anyFailed |-> FALSE,
     failed |-> {}, turns |-> {}, discarded |-> {}, pw |-> password]

Faults == {"drop", "err", "no", "close", "reset", "logout", "refuse"}

Init ==
    /\ shape \in Shapes
    /\ clock = 0 /\ made = <<>> /\ pw = 1
    /\ tab = [t \in Tabs |-> [Fresh({}, 1) EXCEPT !.open = t \in shape.tabs]]
    /\ stored = [there |-> FALSE, has |-> {}]
    /\ events = [t \in Tabs |-> <<>>]
    /\ refusing = FALSE
    /\ met = {} /\ gone = {} /\ unsaved = {}
    /\ spent = [f \in Faults |-> 0]

Named(e) == <<e.key, e.at>>
Queued(tb, p) == \E e \in tb.queue : Named(e) = p

\* The entries a request carries: one, or a batch of taps.
NamesOf(u) == {Named(e) : e \in u.sent}
IsTaps(u) == \A e \in u.sent : e.kind = "tap"

\* The entries a request is out for (taps are not counted: _sendTapBatch).
InFlight(tb) == {Named(e) : e \in {f \in UNION {u.sent : u \in tb.turns} : f.kind # "tap"}}

---------------------------------------------------------------------------
(* What one task does, as functions of w: the page, storage, the storage   *)
(* events it raises, and whether a write waiting on another was freed.     *)

World(t) == [tb |-> tab[t], stored |-> stored, news |-> <<>>, kick |-> FALSE]

Store(w, s) ==
    IF s = w.stored THEN w
    ELSE [w EXCEPT !.stored = s, !.news = Append(@, [old |-> w.stored, new |-> s])]

\* As Persist, forgetting what was settled even when storage refuses it.
PersistForgets(w) ==
    LET merged == Merge(w.stored.has, w.tb.queue, w.tb.settled)
        landed == [w EXCEPT !.tb.settled = {}, !.tb.left = FALSE]
    IN  IF refusing \/ (merged = {} /\ ~w.stored.there) THEN landed
        ELSE Store(landed, [there |-> TRUE, has |-> merged])

Persist(w) ==
    LET merged == Merge(w.stored.has, w.tb.queue, w.tb.settled)
        landed == [w EXCEPT !.tb.settled = {}, !.tb.left = FALSE]
    IN  IF merged = {} /\ ~w.stored.there THEN landed
        ELSE IF refusing THEN [w EXCEPT !.tb.left = \E e \in w.stored.has : IsSettled(w.tb.settled, e)]
        ELSE Store(landed, [there |-> TRUE, has |-> merged])

\* As Dequeue, without waking what followed the entries.
DequeueUnheard(w, ps) ==
    LET leaving == {e \in w.tb.queue : Named(e) \in ps}
    IN  [w EXCEPT !.tb.queue = @ \ leaving,
                  !.tb.settled = @ \cup {Named(e) : e \in leaving},
                  !.tb.here = @ \cup {Named(e) : e \in leaving}]

Dequeue(w, ps) ==
    LET leaving == {e \in w.tb.queue : Named(e) \in ps}
        q == w.tb.queue \ leaving
    IN  [w EXCEPT !.tb.queue = q,
                  !.tb.settled = @ \cup {Named(e) : e \in leaving},
                  !.tb.here = @ \cup {Named(e) : e \in leaving},
                  !.kick = @ \/ \E e \in leaving : IsFollowed(q, e.key)]

\* The taps at the head of a list, in their order, that go in one request.
BatchOf(q, list) ==
    LET upTo(e) == {f \in list : f.at <= e.at}
        goes(e) == /\ e.kind = "tap" /\ e.by = Oldest(list).by
                   /\ ~e.authBlocked /\ ~e.parked /\ WaitsOn(q, e) = {}
    IN  {e \in list : Cardinality(upTo(e)) <= BatchMax /\ \A f \in upTo(e) : goes(f)}

\* One match's turn, over the entries it listed: a request, or why it ends.
TurnFrom(tb, base, listed) ==
    LET list == {e \in tb.queue : Named(e) \in listed}
        Turn(phase, sent) ==
            [base |-> base, phase |-> phase, sent |-> sent, rest |-> {Named(f) : f \in list \ sent}]
        e == Oldest(list)
    IN  IF list = {} THEN Turn("settled", {})
        ELSE IF e.authBlocked \/ e.parked THEN Turn("kept", {})
        ELSE IF WaitsOn(tb.queue, e) # {}
             THEN Turn(IF \E k \in WaitsOn(tb.queue, e) : BlockedByHeld(tb.queue, k) THEN "kept" ELSE "after", {})
        ELSE Turn("sent", IF e.kind = "tap" THEN BatchOf(tb.queue, list) ELSE {e})

\* Starts every match that is neither out nor failed in this pass.
Launch(w) ==
    LET idle == {e.base : e \in w.tb.queue} \ ({u.base : u \in w.tb.turns} \cup w.tb.failed)
        begun == {TurnFrom(w.tb, base, {Named(e) : e \in EntriesFor(w.tb.queue, base)}) : base \in idle}
    IN  IF w.tb.cut THEN w
        ELSE [w EXCEPT !.tb.turns = @ \cup {u \in begun : u.phase = "sent"},
                       !.tb.failed = @ \cup {u.base : u \in {v \in begun : v.phase = "kept"}}]

Begin(w) ==
    Launch([w EXCEPT !.tb.pass = TRUE, !.tb.requested = FALSE, !.tb.cut = FALSE, !.tb.timer = FALSE,
                     !.tb.anyFailed = FALSE, !.tb.failed = {}])

Finish(w) ==
    LET p == Persist(w)
    IN  [p EXCEPT !.tb.pass = FALSE, !.tb.cut = FALSE, !.tb.failed = {}, !.tb.anyFailed = FALSE,
                  !.tb.timer = p.tb.queue # {} /\ p.tb.anyFailed]

\* The end of a pass in which no request is out: it runs again when asked to.
PassEnd(w) ==
    IF ~w.tb.pass \/ w.tb.turns # {} THEN w
    ELSE IF ~w.tb.requested THEN Finish(w)
    ELSE LET again == Begin(Persist(w)) IN IF again.tb.turns = {} THEN Finish(again) ELSE again

FlushQueue(w) ==
    IF w.tb.pass THEN Launch([w EXCEPT !.tb.requested = TRUE]) ELSE PassEnd(Begin(w))

\* A fresh write, a sign-in or a discard does not wait for the backoff.
FlushNow(w) == FlushQueue([w EXCEPT !.tb.timer = FALSE])

RerunFlushSoon(w) ==
    IF ~w.kick \/ (~w.tb.pass /\ w.tb.queue = {}) THEN w ELSE FlushQueue([w EXCEPT !.kick = FALSE])

EndTurn(w, turn, outcome) ==
    LET ended == [w EXCEPT !.tb.turns = @ \ {turn},
                           !.tb.failed = @ \cup (IF outcome = "kept" THEN {turn.base} ELSE {})]
    IN  IF outcome \in {"settled", "restamped"} /\ EntriesFor(w.tb.queue, turn.base) # {}
        THEN Launch(ended) ELSE ended

\* The turn goes on with what it listed, unless the queue was wiped meanwhile.
GoOn(w, turn) ==
    LET next == TurnFrom(w.tb, turn.base, turn.rest)
    IN  IF turn.rest # {} /\ w.tb.cut THEN EndTurn(w, turn, "cut")
        ELSE IF next.phase # "sent" THEN EndTurn(w, turn, next.phase)
        ELSE [w EXCEPT !.tb.turns = (@ \ {turn}) \cup {next}]

Do(t, w) ==
    /\ tab' = [tab EXCEPT ![t] = w.tb]
    /\ stored' = w.stored
    /\ events' = [u \in Tabs |-> IF u # t /\ tab[u].open THEN events[u] \o w.news ELSE events[u]]

Spend(fault) ==
    /\ spent[fault] < shape[fault]
    /\ spent' = [spent EXCEPT ![fault] = @ + 1]

---------------------------------------------------------------------------
(* What an operator does.                                                  *)

\* A write is queued behind what its match holds, or takes the place of its
\* last entry, is stored, and a pass is started or woken.  A send back frees
\* the court of the other match: it follows that match's last entry, and a
\* later write of that match follows it.  A start may follow a send back.
Write(t, base, kind) ==
    /\ tab[t].open /\ tab[t].pw # 0 /\ clock < shape.writes
    /\ \E other \in (IF kind = "back" THEN shape.bases \ {base} ELSE {base}),
          start \in {{}} \cup (IF kind # "run" THEN {} ELSE
                              {{e.key} : e \in {f \in tab[t].queue : f.kind = "back" /\ f.base # base}}) :
       LET q == tab[t].queue
           blocker == EntriesFor(q, other)
           after == IF kind = "back" /\ blocker # {} THEN {Newest(blocker).key} ELSE start
           holds == IF kind = "back" THEN {other} ELSE {}
           d == PlaceWrite(q, InFlight(tab[t]), Entry(base, kind, clock + 1, after, holds, tab[t].pw, t))
           w == Persist([World(t) EXCEPT !.tb.queue = QueueSet(@, d)])
       IN  /\ Do(t, FlushNow(w))
           /\ made' = Append(made, [by |-> t, kind |-> kind,
                                    after |-> CarriedBy({e \in q : e.base = base \/ e.key \in after \cup HeldBy(q, base)})])
           /\ unsaved' = IF d \in w.stored.has THEN unsaved ELSE unsaved \cup {d.at}
    /\ clock' = clock + 1
    /\ UNCHANGED <<shape, refusing, pw, met, gone, spent>>

\* The operator gives up an entry the server keeps refusing.
DiscardHeldWrite(t) ==
    /\ tab[t].open
    /\ \E e \in tab[t].queue :
       LET left == Dequeue(World(t), {Named(e)})
           out == IF Named(e) \in InFlight(tab[t]) THEN {Named(e)} ELSE {}
           w == RerunFlushSoon(Persist([left EXCEPT !.tb.discarded = @ \cup out]))
       IN  /\ RefusedByServer(e)
           /\ Do(t, IF w.tb.queue = {} THEN w ELSE FlushNow(w))
           /\ gone' = gone \cup (e.carries \ met)
    /\ UNCHANGED <<shape, clock, made, refusing, pw, met, unsaved, spent>>

\* Another admin resets the password.
ResetPassword ==
    /\ Spend("reset") /\ pw' = pw + 1
    /\ UNCHANGED <<shape, clock, made, tab, stored, events, refusing, met, gone, unsaved>>

Parked(e) == [e EXCEPT !.pw = 0, !.authBlocked = TRUE]

\* A page hears of the reset: what it holds, and what storage holds, waits for
\* the next sign-in with its password blanked, and the pass is cut short.
ParkQueueForReauth(t) ==
    /\ tab[t].open /\ tab[t].pw \notin {0, pw}
    /\ LET q == {Parked(e) : e \in tab[t].queue}
           w == [World(t) EXCEPT !.tb.queue = q, !.tb.pw = 0, !.tb.timer = FALSE, !.tb.cut = tab[t].pass]
           s == [stored EXCEPT !.has = {Parked(e) : e \in @}]
           scrubbed == IF refusing THEN w ELSE Store(w, s)
       IN  Do(t, IF q = {} THEN scrubbed ELSE Persist(scrubbed))
    /\ UNCHANGED <<shape, clock, made, refusing, pw, met, gone, unsaved, spent>>

\* A sign-in frees what waits for it, and what still carries a password the
\* server has refused.
ResumeAfterAuth(t) ==
    /\ tab[t].open /\ tab[t].pw # pw
    /\ LET stale == {e.pw : e \in {f \in tab[t].queue : f.authBlocked /\ f.pw # 0}}
           resumed == \E e \in tab[t].queue : e.authBlocked
           q == {IF e.authBlocked \/ e.pw \in stale
                 THEN [e EXCEPT !.authBlocked = FALSE, !.pw = pw, !.attempts = 0] ELSE e : e \in tab[t].queue}
           w == [World(t) EXCEPT !.tb.queue = q, !.tb.pw = pw]
       IN  Do(t, IF resumed THEN FlushNow(Persist(w)) ELSE w)
    /\ UNCHANGED <<shape, clock, made, refusing, pw, met, gone, unsaved, spent>>

\* A sign-out wipes the page and storage; the operator was asked.
ClearQueue(t) ==
    /\ tab[t].open /\ tab[t].pw # 0 /\ Spend("logout")
    /\ LET wiped == [World(t) EXCEPT !.tb.queue = {}, !.tb.settled = {}, !.tb.here = {}, !.tb.left = FALSE,
                                     !.tb.timer = FALSE, !.tb.cut = tab[t].pass, !.tb.pw = 0]
       IN  Do(t, Store(wiped, [there |-> FALSE, has |-> {}]))
    /\ gone' = gone \cup (CarriedBy(tab[t].queue \cup stored.has) \ met)
    /\ UNCHANGED <<shape, clock, made, refusing, pw, met, unsaved>>

\* A page goes away with what it held in memory alone, its requests unsent.
Close(t) ==
    /\ tab[t].open /\ Spend("close")
    /\ tab' = [tab EXCEPT ![t] = [Fresh({}, tab[t].pw) EXCEPT !.open = FALSE]]
    /\ events' = [events EXCEPT ![t] = <<>>]
    /\ LET others == UNION {tab[u].queue : u \in {v \in Tabs \ {t} : tab[v].open}}
       IN  gone' = gone \cup ((unsaved \cap CarriedBy(tab[t].queue)) \ (met \cup CarriedBy(stored.has \cup others)))
    /\ UNCHANGED <<shape, clock, made, stored, refusing, pw, met, unsaved>>

\* A page loads: what storage holds is its queue (_rehydrateQueue).
Open(t) ==
    /\ ~tab[t].open /\ t \in shape.tabs
    /\ LET w == [World(t) EXCEPT !.tb = Fresh(stored.has, tab[t].pw)]
       IN  Do(t, IF stored.has = {} THEN w ELSE FlushQueue(w))
    /\ UNCHANGED <<shape, clock, made, refusing, pw, met, gone, unsaved, spent>>

---------------------------------------------------------------------------
(* What the network, the server, the timers and storage do.                *)

\* The server takes a request, refuses it on its merits (the taps of a batch
\* are then not recorded), fails for now, or refuses its password.
ServerAnswers(t) ==
    /\ \E u \in {v \in tab[t].turns : v.phase = "sent"}, answer \in {"ok", "no", "err", "auth"} :
       LET counts == answer = "ok" \/ (answer = "no" /\ ~IsTaps(u))
       IN  /\ answer = "auth" <=> Oldest(u.sent).pw # pw
           /\ IF answer \in {"no", "err"} THEN Spend(answer) ELSE UNCHANGED spent
           /\ tab' = [tab EXCEPT ![t].turns = (@ \ {u}) \cup {[u EXCEPT !.phase = answer]}]
           /\ met' = IF counts THEN met \cup CarriedBy(u.sent) ELSE met
    /\ UNCHANGED <<shape, clock, made, stored, events, refusing, pw, gone, unsaved>>

\* An entry after a request that failed, needs another password or was refused.
Marked(e, answer) ==
    [e EXCEPT !.attempts = IF answer = "err" /\ @ < Notice THEN @ + 1 ELSE @,
              !.authBlocked = @ \/ answer = "auth", !.parked = @ \/ answer = "no"]

\* The mark is set on the entries of the request that the queue still holds.
Mark(w, u) ==
    [w EXCEPT !.tb.queue = {IF Named(e) \in NamesOf(u) THEN Marked(e, u.phase) ELSE e : e \in @},
              !.tb.anyFailed = @ \/ u.phase = "err"]

\* A request that was answered: the entry leaves the queue and storage at
\* once, or is replaced, refused for now or waiting for a password.
SendEntry(w, u) ==
    LET e == Oldest(u.sent)
        p == Named(e)
        heard == [w EXCEPT !.tb.discarded = @ \ {p}]
        left == RerunFlushSoon(Persist(Dequeue(heard, {p})))
    IN  IF p \in w.tb.discarded THEN GoOn(heard, u)
        ELSE IF u.phase \in {"err", "auth"} THEN EndTurn(Mark(w, u), u, "kept")
        ELSE IF Queued(w.tb, p) THEN GoOn(left, u)
        ELSE IF e.key \in KeysOf(w.tb.queue) THEN EndTurn([w EXCEPT !.tb.requested = TRUE], u, "restamped")
        ELSE GoOn(w, u)

\* As SendEntry for a batch of taps, which a refusal of the batch parks.
SendTapBatch(w, u) ==
    IF u.phase \in {"err", "auth"} THEN EndTurn(Mark(w, u), u, "kept")
    ELSE IF u.phase = "no" THEN EndTurn(Persist(Mark(w, u)), u, "kept")
    ELSE IF \E p \in NamesOf(u) : Queued(w.tb, p)
         THEN GoOn(RerunFlushSoon(Persist(Dequeue(w, NamesOf(u)))), u)
    ELSE GoOn(w, u)

Hears(t) ==
    /\ \E u \in {v \in tab[t].turns : v.phase # "sent"} :
          Do(t, PassEnd(IF IsTaps(u) THEN SendTapBatch(World(t), u) ELSE SendEntry(World(t), u)))
    /\ UNCHANGED <<shape, clock, made, refusing, pw, met, gone, unsaved, spent>>

\* A request, or its answer, is lost, or given up at its deadline.
GivesUp(t) ==
    /\ Spend("drop")
    /\ \E u \in tab[t].turns :
          LET w == [World(t) EXCEPT !.tb.anyFailed = TRUE, !.tb.discarded = @ \ NamesOf(u)]
          IN  Do(t, PassEnd(EndTurn(w, u, "kept")))
    /\ UNCHANGED <<shape, clock, made, refusing, pw, met, gone, unsaved>>

\* The backoff timer, or the browser's online event.
TimerFires(t) ==
    /\ tab[t].open /\ tab[t].timer
    /\ Do(t, FlushNow(World(t)))
    /\ UNCHANGED <<shape, clock, made, refusing, pw, met, gone, unsaved, spent>>

\* What a page makes of a copy of the queue another page stored: what the other
\* took out is dropped (unless its request is out here), what it added is taken
\* up.
HearStored(w, ev) ==
    LET Had(e) == \E f \in ev.old.has : Named(f) = Named(e)
        left == {e \in w.tb.queue :
                   IF ~ev.new.there THEN Named(e) \in w.tb.adopted
                   ELSE e.key \notin KeysOf(ev.new.has) /\ Had(e) /\ Named(e) \notin InFlight(w.tb)}
        kept == Dequeue(w, {Named(e) : e \in left})
        taken == {d \in ev.new.has :
                    /\ ~\E e \in kept.tb.queue : e.key = d.key /\ d.at <= e.at
                    /\ d.key \in KeysOf(kept.tb.queue) \/ ~IsSettled(kept.tb.here, d)}
        q == {e \in kept.tb.queue : e.key \notin KeysOf(taken)} \cup taken
        v == RerunFlushSoon([kept EXCEPT !.tb.queue = q, !.tb.adopted = @ \cup {Named(d) : d \in taken}])
    IN  IF taken = {} THEN v ELSE FlushNow(v)

Hear(t, w) ==
    /\ tab' = [tab EXCEPT ![t] = w.tb]
    /\ stored' = w.stored
    /\ events' = [u \in Tabs |->
                     IF u = t THEN Tail(events[t]) ELSE IF tab[u].open THEN events[u] \o w.news ELSE events[u]]

OnStoredQueueChanged(t) ==
    /\ tab[t].open /\ events[t] # <<>>
    /\ Hear(t, HearStored(World(t), Head(events[t])))
    /\ UNCHANGED <<shape, clock, made, refusing, pw, met, gone, unsaved, spent>>

\* The storage quota is reached, and room is made again.
StorageTurns ==
    /\ IF refusing THEN UNCHANGED spent ELSE Spend("refuse")
    /\ refusing' = ~refusing
    /\ UNCHANGED <<shape, clock, made, tab, stored, events, pw, met, gone, unsaved>>

Next ==
    \/ \E t \in Tabs, base \in Bases : \E kind \in shape.kinds[t] : base \in shape.bases /\ Write(t, base, kind)
    \/ ResetPassword \/ StorageTurns
    \/ \E t \in Tabs :
          \/ DiscardHeldWrite(t) \/ ParkQueueForReauth(t) \/ ResumeAfterAuth(t) \/ ClearQueue(t)
          \/ Close(t) \/ Open(t)
          \/ ServerAnswers(t) \/ Hears(t) \/ GivesUp(t) \/ TimerFires(t) \/ OnStoredQueueChanged(t)

Spec == Init /\ [][Next]_vars

---------------------------------------------------------------------------
TypeOK ==
    /\ clock \in 0 .. shape.writes /\ Len(made) = clock
    /\ \A t \in Tabs :
          /\ tab[t].pass <=> tab[t].turns # {}
          /\ \A e \in tab[t].queue : e.kind \in Kinds /\ e.at \in 1 .. clock /\ e.attempts \in 0 .. Notice
          /\ \A u, v \in tab[t].turns : u.base = v.base => u = v
          /\ \A d, e \in tab[t].queue : d.key = e.key => d = e
    /\ met \subseteq 1 .. clock /\ gone \subseteq 1 .. clock /\ unsaved \subseteq 1 .. clock

\* A write the operator made and did not give up is always somewhere: with the
\* server, in the queue of an open page, or in browser storage for the next
\* load, whatever was coalesced, merged, dropped or taken up on the way
\* ("nothing a device sends is dropped", _resendForClock).
Kept(n) ==
    \/ n \in met \cup gone
    \/ n \in CarriedBy(stored.has)
    \/ \E t \in Tabs : tab[t].open /\ n \in CarriedBy(tab[t].queue)

NothingLost == \A n \in 1 .. clock : Kept(n)

\* "A RUNNING write takes the place of a running one only: never of a queued
\* Finish or correction" (_coalesceTarget).
FinishKept == \A n \in 1 .. clock : made[n].kind = "fin" => Kept(n)

\* A write made after another on this device never reaches the server before
\* it (_flushQueue): the first time the server meets a write, every write of
\* the match its page held when it was made, and every one it was to follow,
\* has reached it or was given up; or another page, which had not heard of this
\* write, has since put a later one in its place.
Overtaken(n, m) ==
    \E t \in Tabs : \E e \in tab[t].queue : n \in e.carries /\ e.at > m /\ e.by # made[m].by

InOrder ==
    [][\A m \in met' \ met : \A n \in made[m].after \ (met' \cup gone') : Overtaken(n, m)]_vars

\* When no page has anything to do (no pass, no timer, no event and no reset to
\* hear), none has anything it could send: every entry left waits for a password or for an
\* operator, itself or through what it must follow.  No wake-up is ever lost.
\* One page alone can stop short of it: an entry behind one that waits for a
\* password is not woken when another page sends that one
\* (_onStoredQueueChanged), and the other page sends both.
Quiet(t) == tab[t].open => ~tab[t].pass /\ ~tab[t].timer /\ events[t] = <<>> /\ tab[t].pw \in {0, pw}

QuietMeansStuck ==
    (\A t \in Tabs : Quiet(t)) =>
        \A t \in Tabs : \A e \in tab[t].queue :
            \E f \in {e} \cup Upstream(tab[t].queue, e) : f.authBlocked \/ f.parked

\* Entries never wait on each other: "the coalescing rule never makes one"
\* (_markWaitCycles), with sends back of two matches to one another, starts
\* that follow them and entries taken up from another page.
NoWaitCycle == \A t \in Tabs : \A e \in tab[t].queue : ~OnCycle(tab[t].queue, e)

\* No entry waits in a circle, and none waits unless for an operator.
NobodyWaitsInVain == NoWaitCycle /\ QuietMeansStuck

\* When every page is idle with its queue empty, storage is empty too: what was
\* settled is never left for the next load to send again.  Not claimed once a
\* page has closed or heard of a password reset with a removal still to hear.
Idle(t) == Quiet(t) /\ tab[t].queue = {} /\ ~tab[t].left

IdleMeansStoredEmpty ==
    (\A t \in Tabs : Idle(t)) /\ spent["close"] = 0 /\ spent["reset"] = 0 => stored.has = {}

\* A sign-in frees every entry: none waits for a password that is the one the
\* server takes ("or it would meet the same 401 and ask for a second sign-in",
\* resumeAfterAuth).
BlockedIsStale == \A t \in Tabs : \A e \in tab[t].queue : e.authBlocked => e.pw # pw

\* A write is in storage or on a page exactly as long as it is to be sent: never
\* lost before it is settled, never left behind once every page is idle.
KeptUntilSettled == NothingLost /\ IdleMeansStoredEmpty

=============================================================================
