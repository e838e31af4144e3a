---------------------------- MODULE OutboxProofs ----------------------------
(***************************************************************************)
(* Proofs about Outbox, in three layers, each an invariant.                *)
(*                                                                         *)
(* OutboxInv, for any pages no two of which score one match: the entries   *)
(* pages, requests, storage and storage events hold are copies of one      *)
(* another (Agree), and what a page settles, takes up or drops is done or  *)
(* safe elsewhere (Good, MailOf).  A task of a page is a chain of worlds;  *)
(* each function of the model takes a good world to a good one, and leaves *)
(* nothing behind that is not done (Onward).                               *)
(*                                                                         *)
(* AloneInv, for a device with one page: what storage holds the page       *)
(* covers, or settled and has yet to take out (Sealed).                    *)
(*                                                                         *)
(* OrderInv, for a device with one page: the queue, storage and every      *)
(* request keep the order the writes were made in (Fits), and the page is  *)
(* never left with something to send and nothing to do (Up).               *)
(***************************************************************************)
EXTENDS Outbox, TLAPS, NaturalsInduction, WellFoundedInduction, FiniteSetTheorems

---------------------------------------------------------------------------
(* Types.                                                                  *)

Names == Nat \X Nat

EntryType ==
    [key : Nat, base : Bases, kind : Kinds, at : Nat, carries : SUBSET Nat, after : SUBSET Nat,
     holds : SUBSET Bases, pw : Nat, by : Tabs, attempts : Nat, authBlocked : BOOLEAN, parked : BOOLEAN]

Phases == {"sent", "ok", "no", "err", "auth", "settled", "kept", "after"}

TurnType == [base : Bases, phase : Phases, rest : SUBSET Names, sent : SUBSET EntryType]

PageType ==
    [open : BOOLEAN, queue : SUBSET EntryType, settled : SUBSET Names, here : SUBSET Names,
     adopted : SUBSET Names, left : BOOLEAN, pass : BOOLEAN, requested : BOOLEAN, cut : BOOLEAN,
     timer : BOOLEAN, anyFailed : BOOLEAN, failed : SUBSET Bases, turns : SUBSET TurnType,
     discarded : SUBSET Names, pw : Nat]

CopyType == [there : BOOLEAN, has : SUBSET EntryType]

EventType == [old : CopyType, new : CopyType]

WorldType == [tb : PageType, stored : CopyType, news : Seq(EventType), kick : BOOLEAN]

---------------------------------------------------------------------------
(* What a page's task may do to its world, in the few forms it takes.      *)

Sent(tb) == UNION {u.sent : u \in tb.turns}

\* A request carries one entry, or a batch of taps.
OneOrTaps(u) == IsTaps(u) \/ \E e \in EntryType : u.sent = {e}

\* The queue, storage and what is known of them stay; turns end, requests of
\* what is queued start, flags turn.
Quietly(w, v) ==
    /\ v \in WorldType
    /\ v.tb.open = w.tb.open /\ v.tb.queue = w.tb.queue
    /\ v.tb.adopted = w.tb.adopted /\ v.tb.settled = w.tb.settled /\ v.tb.left = w.tb.left
    /\ v.stored = w.stored /\ v.news = w.news
    /\ \A u \in v.tb.turns :
          u \in w.tb.turns \/ (u.phase = "sent" /\ u.sent \subseteq w.tb.queue /\ OneOrTaps(u))

LEMMA QuietlyTwice ==
    ASSUME NEW w, NEW v, NEW x, Quietly(w, v), Quietly(v, x)
    PROVE  Quietly(w, x)
  BY DEF Quietly

\* Every set of numbers has a least one.
LEMMA Least ==
    ASSUME NEW T \in SUBSET Nat, T # {}
    PROVE  \E n \in T : \A m \in T : n <= m
<1> DEFINE below == OpToRel(<, Nat)
<1>1. PICK n \in T : \A m \in T : <<m, n>> \notin below
  BY NatLessThanWellFounded, WFMin
<1>2. \A m \in T : (m \in Nat) /\ (n \in Nat) /\ ~(m < n)
  BY <1>1 DEF OpToRel
<1> HIDE DEF below
<1> QED BY <1>1, <1>2

\* A set of entries has an oldest one.
LEMMA OldestIsThere ==
    ASSUME NEW es \in SUBSET EntryType, es # {}
    PROVE  Oldest(es) \in es /\ \A f \in es : Oldest(es).at <= f.at
<1> DEFINE ats == {e.at : e \in es}
<1>1. (ats \subseteq Nat) /\ (ats # {})
  BY DEF EntryType
<1>2. PICK n \in ats : \A m \in ats : n <= m
  BY <1>1, Least
<1>4. PICK e \in es : e.at = n
  BY <1>2
<1>5. \A f \in es : e.at <= f.at
  BY <1>2, <1>4
<1> QED BY <1>4, <1>5 DEF Oldest

LEMMA NamedType ==
    ASSUME NEW e \in EntryType
    PROVE  Named(e) \in Names
  BY DEF Named, Names, EntryType

LEMMA TurnFromSound ==
    ASSUME NEW w \in WorldType, NEW base \in Bases, NEW listed
    PROVE  LET u == TurnFrom(w.tb, base, listed)
           IN  /\ u \in TurnType
               /\ u.phase = "sent" => (u.sent \subseteq w.tb.queue /\ OneOrTaps(u))
<1> DEFINE list == {e \in w.tb.queue : Named(e) \in listed}
           Turn(phase, sent) ==
            [base |-> base, phase |-> phase, sent |-> sent, rest |-> {Named(f) : f \in list \ sent}]
           e == Oldest(list)
           batch == BatchOf(w.tb.queue, list)
<1>1. (list \in SUBSET EntryType) /\ (list \subseteq w.tb.queue)
  BY DEF WorldType, PageType
<1>2. \A phase \in Phases, sent \in SUBSET EntryType : Turn(phase, sent) \in TurnType
  <2> SUFFICES ASSUME NEW phase \in Phases, NEW sent \in SUBSET EntryType
               PROVE  Turn(phase, sent) \in TurnType
    OBVIOUS
  <2>1. {Named(f) : f \in list \ sent} \in SUBSET Names
    BY <1>1, NamedType
  <2> QED BY <2>1 DEF TurnType
<1>3. (batch \subseteq list) /\ (\A f \in batch : f.kind = "tap")
  <2> HIDE DEF list
  <2>1. batch \subseteq list
    BY DEF BatchOf
  <2>2. ASSUME NEW f \in batch PROVE f.kind = "tap"
    <3>1. (f \in list) /\ (f.at <= f.at)
      BY <2>1, <1>1 DEF EntryType
    <3>2. f \in {g \in list : g.at <= f.at}
      BY <3>1
    <3> QED BY <3>2 DEF BatchOf
  <2> QED BY <2>1, <2>2
<1>4. (list # {}) => (e \in list)
  BY <1>1, OldestIsThere
<1>5. CASE list = {}
  <2>1. TurnFrom(w.tb, base, listed) = Turn("settled", {})
    BY <1>5 DEF TurnFrom
  <2> QED BY <2>1, <1>2 DEF Phases
<1>6. CASE list # {} /\ (e.authBlocked \/ e.parked)
  <2>1. TurnFrom(w.tb, base, listed) = Turn("kept", {})
    BY <1>6 DEF TurnFrom
  <2> QED BY <2>1, <1>2 DEF Phases
<1>7. CASE list # {} /\ ~(e.authBlocked \/ e.parked) /\ WaitsOn(w.tb.queue, e) # {}
  <2>1. \/ TurnFrom(w.tb, base, listed) = Turn("kept", {})
        \/ TurnFrom(w.tb, base, listed) = Turn("after", {})
    BY <1>7 DEF TurnFrom
  <2>2. (Turn("kept", {}) \in TurnType) /\ (Turn("after", {}) \in TurnType)
    BY <1>2 DEF Phases
  <2> QED BY <2>1, <2>2
<1>8. CASE list # {} /\ ~(e.authBlocked \/ e.parked) /\ WaitsOn(w.tb.queue, e) = {}
  <2> DEFINE sent == IF e.kind = "tap" THEN batch ELSE {e}
  <2>1. TurnFrom(w.tb, base, listed) = Turn("sent", sent)
    BY <1>8 DEF TurnFrom
  <2>2. sent \subseteq list
    BY <1>3, <1>4, <1>8
  <2>3. Turn("sent", sent) \in TurnType
    BY <2>2, <1>1, <1>2 DEF Phases
  <2>4. OneOrTaps(Turn("sent", sent))
    BY <1>1, <1>3, <1>4, <1>8 DEF OneOrTaps, IsTaps
  <2> HIDE DEF sent
  <2> QED BY <2>1, <2>2, <2>3, <2>4, <1>1
<1> QED BY <1>5, <1>6, <1>7, <1>8

LEMMA LaunchQuiet ==
    ASSUME NEW w \in WorldType
    PROVE  Quietly(w, Launch(w))
<1> DEFINE idle == {e.base : e \in w.tb.queue} \ ({u.base : u \in w.tb.turns} \cup w.tb.failed)
           begun == {TurnFrom(w.tb, base, {Named(e) : e \in EntriesFor(w.tb.queue, base)}) : base \in idle}
           ts == w.tb.turns \cup {u \in begun : u.phase = "sent"}
           fs == w.tb.failed \cup {u.base : u \in {v \in begun : v.phase = "kept"}}
           v == [w EXCEPT !.tb.turns = ts, !.tb.failed = fs]
<1>1. idle \subseteq Bases
  BY DEF WorldType, PageType, EntryType
<1>2. \A u \in begun : u \in TurnType /\ (u.phase = "sent" => (u.sent \subseteq w.tb.queue /\ OneOrTaps(u)))
  BY <1>1, TurnFromSound
<1> HIDE DEF begun
<1>3. (ts \subseteq TurnType) /\ (fs \subseteq Bases)
  BY <1>2 DEF WorldType, PageType, TurnType
<1>4. \A u \in ts : u \in w.tb.turns \/ (u.phase = "sent" /\ u.sent \subseteq w.tb.queue /\ OneOrTaps(u))
  BY <1>2
<1>5. (Launch(w) = w) \/ (Launch(w) = v)
  BY DEF Launch, begun
<1> HIDE DEF ts, fs
<1>6. (v \in WorldType) /\ (v.tb.turns = ts)
  BY <1>3 DEF WorldType, PageType
<1>7. Quietly(w, v)
  BY <1>4, <1>6 DEF Quietly, WorldType, PageType
<1>8. Quietly(w, w)
  BY DEF Quietly
<1> HIDE DEF v
<1> QED BY <1>5, <1>7, <1>8

LEMMA BeginQuiet ==
    ASSUME NEW w \in WorldType
    PROVE  Quietly(w, Begin(w))
<1> DEFINE v == [w EXCEPT !.tb.pass = TRUE, !.tb.requested = FALSE, !.tb.cut = FALSE, !.tb.timer = FALSE,
                          !.tb.anyFailed = FALSE, !.tb.failed = {}]
<1>1. Quietly(w, v)
  BY ZenonT(30) DEF Quietly, WorldType, PageType
<1>2. Begin(w) = Launch(v)
  BY DEF Begin
<1>3. v \in WorldType
  BY <1>1 DEF Quietly
<1> HIDE DEF v
<1> QED BY <1>1, <1>2, <1>3, LaunchQuiet, QuietlyTwice

LEMMA EndTurnQuiet ==
    ASSUME NEW w \in WorldType, NEW turn \in TurnType, NEW outcome
    PROVE  Quietly(w, EndTurn(w, turn, outcome))
<1> DEFINE out == IF outcome = "kept" THEN {turn.base} ELSE {}
           v == [w EXCEPT !.tb.turns = @ \ {turn}, !.tb.failed = @ \cup out]
<1>1. out \subseteq Bases
  BY DEF TurnType
<1>2. (EndTurn(w, turn, outcome) = v) \/ (EndTurn(w, turn, outcome) = Launch(v))
  BY DEF EndTurn
<1> HIDE DEF out
<1>3. Quietly(w, v)
  BY <1>1 DEF Quietly, WorldType, PageType
<1>4. v \in WorldType
  BY <1>3 DEF Quietly
<1> HIDE DEF v
<1> QED BY <1>2, <1>3, <1>4, LaunchQuiet, QuietlyTwice

LEMMA GoOnQuiet ==
    ASSUME NEW w \in WorldType, NEW turn \in TurnType
    PROVE  Quietly(w, GoOn(w, turn))
<1> DEFINE next == TurnFrom(w.tb, turn.base, turn.rest)
           ts == (w.tb.turns \ {turn}) \cup {next}
           v == [w EXCEPT !.tb.turns = ts]
<1>1. /\ next \in TurnType
      /\ (next.phase = "sent") => (next.sent \subseteq w.tb.queue /\ OneOrTaps(next))
  BY TurnFromSound DEF TurnType
<1>2. GoOn(w, turn) \in {EndTurn(w, turn, "cut"), EndTurn(w, turn, next.phase)}
         \/ (next.phase = "sent" /\ GoOn(w, turn) = v)
  BY DEF GoOn
<1> HIDE DEF next
<1>3. (ts \subseteq TurnType) /\ (next \in ts)
  BY <1>1 DEF WorldType, PageType
<1>4. (next.phase = "sent") =>
        \A u \in ts : u \in w.tb.turns \/ (u.phase = "sent" /\ u.sent \subseteq w.tb.queue /\ OneOrTaps(u))
  BY <1>1
<1> HIDE DEF ts
<1>5. (v \in WorldType) /\ (v.tb.turns = ts)
  BY <1>3 DEF WorldType, PageType
<1>6. (next.phase = "sent") => Quietly(w, v)
  BY <1>4, <1>5 DEF Quietly, WorldType, PageType
<1> HIDE DEF v
<1> QED BY <1>2, <1>6, EndTurnQuiet

\* The marks of a request set on an entry leave it what it is.
LEMMA MarkedType ==
    ASSUME NEW e \in EntryType, NEW answer
    PROVE  /\ Marked(e, answer) \in EntryType
           /\ Marked(e, answer).key = e.key /\ Marked(e, answer).at = e.at
           /\ Marked(e, answer).carries = e.carries /\ Marked(e, answer).by = e.by
           /\ Marked(e, answer).kind = e.kind /\ Marked(e, answer).base = e.base
           /\ Marked(e, answer).after = e.after
<1> DEFINE n == IF answer = "err" /\ e.attempts < Notice THEN e.attempts + 1 ELSE e.attempts
           m == [e EXCEPT !.attempts = n, !.authBlocked = @ \/ answer = "auth", !.parked = @ \/ answer = "no"]
<1>1. n \in Nat
  BY DEF EntryType
<1>2. Marked(e, answer) = m
  BY DEF Marked, EntryType
<1> HIDE DEF n
<1>3. /\ m \in EntryType
      /\ m.key = e.key /\ m.at = e.at /\ m.carries = e.carries /\ m.by = e.by /\ m.kind = e.kind
      /\ m.base = e.base /\ m.after = e.after
  BY <1>1 DEF EntryType
<1> QED BY <1>2, <1>3

---------------------------------------------------------------------------
(* What is known of the entries, wherever they are: C is what they are less*)
(* their marks and passwords, D the writes the server has or a person gave *)
(* up.                                                                     *)

CoreType ==
    [key : Nat, base : Bases, kind : Kinds, at : Nat, carries : SUBSET Nat, after : SUBSET Nat, by : Tabs]

Core(e) ==
    [key |-> e.key, base |-> e.base, kind |-> e.kind, at |-> e.at, carries |-> e.carries,
     after |-> e.after, by |-> e.by]

Class(kind) == IF kind \in Score THEN "score" ELSE kind

\* Of two copies under one key, the newer carries what the older does.
Agree(C, D) ==
    /\ C \subseteq CoreType
    /\ \A c, d \in C : c.key = d.key =>
          /\ c.by = d.by /\ c.base = d.base /\ Class(c.kind) = Class(d.kind)
          /\ c.at <= d.at => c.carries \subseteq d.carries \cup D

SettledDone(settled, C, D) ==
    \A p \in settled : \A c \in C : c.key = p[1] /\ c.at <= p[2] => c.carries \subseteq D

Counts(u) == u.phase = "ok" \/ (u.phase = "no" /\ ~IsTaps(u))

Out == {"sent", "ok", "no", "err", "auth"}

Answered(tb, D) ==
    \A u \in tb.turns : u.phase \in Out /\ OneOrTaps(u) /\ (Counts(u) => CarriedBy(u.sent) \subseteq D)

\* What another page made, and what was taken up, came from storage.
Away(tb, t, S) == \A e \in tb.queue \cup Sent(tb) : e.by # t => e.carries \subseteq S
Adopted(tb, S) == \A e \in tb.queue : Named(e) \in tb.adopted => e.carries \subseteq S

Told(ev, C, D, S) ==
    /\ \A e \in ev.old.has \cup ev.new.has : Core(e) \in C /\ e.carries \subseteq S
    /\ \A e \in ev.old.has : e.key \notin KeysOf(ev.new.has) => e.carries \subseteq D

PageGood(w, t, C, D) ==
    /\ w \in WorldType
    /\ ~w.stored.there => w.stored.has = {}
    /\ \A e \in w.tb.queue \cup Sent(w.tb) \cup w.stored.has : Core(e) \in C
    /\ SettledDone(w.tb.settled, C, D)
    /\ Answered(w.tb, D)
    /\ Away(w.tb, t, D \cup CarriedBy(w.stored.has))
    /\ Adopted(w.tb, D \cup CarriedBy(w.stored.has))

Good(w, t, C, D) ==
    /\ PageGood(w, t, C, D)
    /\ \A i \in DOMAIN w.news :
          w.news[i].new.there /\ Told(w.news[i], C, D, D \cup CarriedBy(w.stored.has))

Labels(tb) == {Named(e) : e \in tb.queue}

\* No write that is not done leaves storage, or the queue, and nothing enters it.
Onward(w, v, D) ==
    /\ v.tb.open = w.tb.open /\ v.tb.adopted = w.tb.adopted
    /\ Labels(v.tb) \subseteq Labels(w.tb) /\ v.tb.settled \subseteq w.tb.settled \cup Labels(w.tb)
    /\ CarriedBy(w.stored.has) \subseteq CarriedBy(v.stored.has) \cup D
    /\ CarriedBy(w.tb.queue) \subseteq CarriedBy(v.tb.queue) \cup D

LEMMA OnwardTwice ==
    ASSUME NEW w, NEW v, NEW x, NEW D, Onward(w, v, D), Onward(v, x, D)
    PROVE  Onward(w, x, D)
  BY DEF Onward

LEMMA QuietlyGood ==
    ASSUME NEW w, NEW v, NEW t, NEW C, NEW D, Good(w, t, C, D), Quietly(w, v)
    PROVE  Good(v, t, C, D) /\ Onward(w, v, D)
<1>1. \A e \in Sent(v.tb) : (e \in Sent(w.tb)) \/ (e \in w.tb.queue)
  BY DEF Sent, Quietly
<1>2. \A e \in v.tb.queue \cup Sent(v.tb) \cup v.stored.has : Core(e) \in C
  BY <1>1 DEF Quietly, Good, PageGood
<1>3. SettledDone(v.tb.settled, C, D)
  BY DEF Quietly, Good, PageGood
<1>4. Answered(v.tb, D)
  BY DEF Quietly, Good, PageGood, Answered, Counts, Out
<1>5. Away(v.tb, t, D \cup CarriedBy(v.stored.has))
  BY <1>1 DEF Quietly, Good, PageGood, Away
<1>6. Adopted(v.tb, D \cup CarriedBy(v.stored.has))
  BY DEF Quietly, Good, PageGood, Adopted
<1>7. /\ v \in WorldType /\ v.stored = w.stored /\ v.news = w.news
      /\ v.tb.queue = w.tb.queue /\ v.tb.open = w.tb.open /\ v.tb.adopted = w.tb.adopted
      /\ v.tb.settled = w.tb.settled
  BY DEF Quietly
<1>8. Good(v, t, C, D)
  <2>1. \A i \in DOMAIN v.news :
          v.news[i].new.there /\ Told(v.news[i], C, D, D \cup CarriedBy(v.stored.has))
    BY <1>7 DEF Good, PageGood
  <2> QED BY <1>2, <1>3, <1>4, <1>5, <1>6, <1>7, <2>1 DEF Good, PageGood
<1> QED BY <1>7, <1>8 DEF Onward, Labels

LEMMA CoreFields ==
    ASSUME NEW e \in EntryType
    PROVE  /\ Core(e) \in CoreType
           /\ Core(e).key = e.key /\ Core(e).at = e.at /\ Core(e).carries = e.carries
           /\ Core(e).by = e.by /\ Core(e).kind = e.kind /\ Core(e).base = e.base
           /\ Core(e).after = e.after
  BY DEF Core, CoreType, EntryType

\* Of has, m keeps every write that is not done, and adds nothing to q.
Keeping(has, q, m, D) ==
    /\ m \subseteq has \cup q
    /\ CarriedBy(has) \subseteq CarriedBy(m) \cup D
    /\ \A e \in has : e.key \notin KeysOf(m) => e.carries \subseteq D

\* What a page stores keeps every write of storage that is not done.
LEMMA MergeKeeps ==
    ASSUME NEW C, NEW D, Agree(C, D),
           NEW has \in SUBSET EntryType, NEW q \in SUBSET EntryType, NEW settled,
           \A e \in has \cup q : Core(e) \in C, SettledDone(settled, C, D)
    PROVE  Keeping(has, q, Merge(has, q, settled), D)
<1> DEFINE m == Merge(has, q, settled)
           kept == {e \in has : ~IsSettled(settled, e)}
           mine == {d \in q : ~\E e \in kept : e.key = d.key /\ e.at > d.at}
<1>1. m = {e \in kept : e.key \notin KeysOf(mine)} \cup mine
  BY DEF Merge
<1>2. ASSUME NEW e \in has, IsSettled(settled, e)
      PROVE  e.carries \subseteq D
  BY <1>2, CoreFields DEF IsSettled, SettledDone
<1>3. ASSUME NEW e \in kept, NEW d \in mine, e.key = d.key
      PROVE  e.carries \subseteq d.carries \cup D
  <2>1. (e \in EntryType) /\ (d \in EntryType) /\ (Core(e) \in C) /\ (Core(d) \in C) /\ ~(e.at > d.at)
    BY <1>3
  <2>2. e.at <= d.at
    BY <2>1 DEF EntryType
  <2>3. Core(e).carries \subseteq Core(d).carries \cup D
    BY <1>3, <2>1, <2>2, CoreFields DEF Agree
  <2> QED BY <2>1, <2>3, CoreFields
<1>4. m \subseteq has \cup q
  BY <1>1
<1>5. \A e \in has : (e.carries \subseteq D) \/ (e \in m) \/ (\E d \in m : d.key = e.key /\ e.carries \subseteq d.carries \cup D)
  BY <1>1, <1>2, <1>3 DEF KeysOf
<1> HIDE DEF m
<1>6. CarriedBy(has) \subseteq CarriedBy(m) \cup D
  BY <1>5 DEF CarriedBy
<1>7. \A e \in has : e.key \notin KeysOf(m) => e.carries \subseteq D
  BY <1>5 DEF KeysOf
<1> QED BY <1>4, <1>6, <1>7 DEF m, Keeping

LEMMA PersistGood ==
    ASSUME NEW w, NEW t, NEW C, NEW D, Good(w, t, C, D), Agree(C, D), refusing \in BOOLEAN
    PROVE  /\ Good(Persist(w), t, C, D) /\ Onward(w, Persist(w), D)
           /\ Persist(w).tb.queue = w.tb.queue /\ Persist(w).tb.turns = w.tb.turns
<1> DEFINE m == Merge(w.stored.has, w.tb.queue, w.tb.settled)
           landed == [w EXCEPT !.tb.settled = {}, !.tb.left = FALSE]
           l == \E e \in w.stored.has : IsSettled(w.tb.settled, e)
           kept == [w EXCEPT !.tb.left = l]
           copy == [there |-> TRUE, has |-> m]
           event == [old |-> w.stored, new |-> copy]
           done == [landed EXCEPT !.stored = copy, !.news = Append(@, event)]
<1>1. /\ w \in WorldType /\ w.tb.queue \in SUBSET EntryType /\ w.stored.has \in SUBSET EntryType
      /\ w.stored \in CopyType
  BY DEF Good, PageGood, WorldType, PageType, CopyType
<1>2. /\ m \subseteq w.stored.has \cup w.tb.queue
      /\ CarriedBy(w.stored.has) \subseteq CarriedBy(m) \cup D
      /\ \A e \in w.stored.has : e.key \notin KeysOf(m) => e.carries \subseteq D
  <2>1. (\A e \in w.stored.has \cup w.tb.queue : Core(e) \in C) /\ SettledDone(w.tb.settled, C, D)
    BY DEF Good, PageGood
  <2> HIDE DEF m
  <2>2. Keeping(w.stored.has, w.tb.queue, Merge(w.stored.has, w.tb.queue, w.tb.settled), D)
    BY <1>1, <2>1, MergeKeeps
  <2> QED BY <2>2 DEF m, Keeping
<1>3. (Persist(w) = landed) \/ (Persist(w) = kept) \/ (Persist(w) = done)
  BY <1>1 DEF Persist, Store, WorldType, PageType
<1> HIDE DEF m, l
<1>4. ASSUME NEW v, v \in WorldType, v.tb.queue = w.tb.queue, v.tb.turns = w.tb.turns, v.tb.open = w.tb.open,
             v.tb.adopted = w.tb.adopted, v.tb.settled \subseteq w.tb.settled, v.stored = w.stored, v.news = w.news
      PROVE  Good(v, t, C, D) /\ Onward(w, v, D)
  BY <1>4 DEF Good, PageGood, Onward, SettledDone, Answered, Away, Adopted, Sent, Labels
<1>5. /\ landed \in WorldType /\ landed.tb.queue = w.tb.queue /\ landed.tb.turns = w.tb.turns
      /\ landed.tb.open = w.tb.open /\ landed.tb.adopted = w.tb.adopted /\ landed.tb.settled = {}
      /\ landed.stored = w.stored /\ landed.news = w.news
  BY <1>1 DEF WorldType, PageType
<1>6. /\ kept \in WorldType /\ kept.tb.queue = w.tb.queue /\ kept.tb.turns = w.tb.turns
      /\ kept.tb.open = w.tb.open /\ kept.tb.adopted = w.tb.adopted /\ kept.tb.settled = w.tb.settled
      /\ kept.stored = w.stored /\ kept.news = w.news
  BY <1>1 DEF WorldType, PageType, l
<1>7. /\ done \in WorldType /\ done.tb = landed.tb /\ done.stored = copy /\ done.stored.has = m
      /\ done.news = Append(w.news, event)
  <2>1. (copy \in CopyType) /\ (event \in EventType)
    BY <1>1, <1>2 DEF CopyType, EventType
  <2> DEFINE news == Append(landed.news, event)
  <2> HIDE DEF copy, event, landed
  <2>2. (news \in Seq(EventType)) /\ (news = Append(w.news, event))
    BY <1>5, <2>1 DEF WorldType
  <2>3. done = [landed EXCEPT !.stored = copy, !.news = news]
    BY <1>5 DEF WorldType
  <2> HIDE DEF done, news
  <2>4. (done \in WorldType) /\ (done.tb = landed.tb) /\ (done.stored = copy) /\ (done.news = news)
    BY <1>5, <2>1, <2>2, <2>3 DEF WorldType
  <2> QED BY <2>2, <2>4 DEF copy
<1> HIDE DEF landed, kept
<1>8. Good(done, t, C, D) /\ Onward(w, done, D)
  <2> DEFINE S == D \cup CarriedBy(w.stored.has)
             S2 == D \cup CarriedBy(m)
  <2> HIDE DEF done, event, copy
  <2>1. S \subseteq S2
    BY <1>2
  <2>2. Onward(w, done, D)
    BY <1>2, <1>5, <1>7 DEF Onward, Labels
  <2>3. \A e \in done.tb.queue \cup Sent(done.tb) \cup done.stored.has : Core(e) \in C
    BY <1>2, <1>5, <1>7 DEF Good, PageGood, Sent
  <2>4. SettledDone(done.tb.settled, C, D)
    BY <1>5, <1>7 DEF SettledDone
  <2>5. Answered(done.tb, D)
    BY <1>5, <1>7 DEF Good, PageGood, Answered
  <2>6. Away(done.tb, t, S2) /\ Adopted(done.tb, S2)
    BY <1>5, <1>7, <2>1 DEF Good, PageGood, Away, Adopted, Sent
  <2>7. \A i \in DOMAIN done.news : done.news[i].new.there /\ Told(done.news[i], C, D, S2)
    <3> SUFFICES ASSUME NEW i \in DOMAIN done.news PROVE done.news[i].new.there /\ Told(done.news[i], C, D, S2)
      OBVIOUS
    <3>1. w.news \in Seq(EventType)
      BY <1>1 DEF WorldType
    <3>2. CASE i \in DOMAIN w.news
      <4>1. done.news[i] = w.news[i]
        BY <1>7, <3>1, <3>2
      <4>2. w.news[i].new.there /\ Told(w.news[i], C, D, S)
        BY <3>2 DEF Good, PageGood
      <4> HIDE DEF S, S2
      <4> QED BY <4>1, <4>2, <2>1 DEF Told
    <3>3. CASE i \notin DOMAIN w.news
      <4>1. done.news[i] = event
        BY <1>7, <3>1, <3>3
      <4>2. \A e \in w.stored.has \cup m : Core(e) \in C /\ e.carries \subseteq S2
        <5>1. \A e \in w.stored.has : e.carries \subseteq S
          BY DEF CarriedBy
        <5>2. \A e \in m : e.carries \subseteq S2
          BY DEF CarriedBy
        <5> QED BY <5>1, <5>2, <2>1, <2>3, <1>2 DEF Good, PageGood
      <4>3. (event.old.has = w.stored.has) /\ (event.new.has = m) /\ event.new.there
        BY DEF event, copy
      <4> QED BY <4>1, <4>2, <4>3, <1>2 DEF Told
    <3> QED BY <3>2, <3>3
  <2>8. done.stored.there
    BY <1>7 DEF copy
  <2> QED BY <1>7, <2>2, <2>3, <2>4, <2>5, <2>6, <2>7, <2>8 DEF Good, PageGood
<1> HIDE DEF done
<1>9. Good(landed, t, C, D) /\ Onward(w, landed, D)
  BY <1>4, <1>5
<1>10. Good(kept, t, C, D) /\ Onward(w, kept, D)
  BY <1>4, <1>6
<1> QED BY <1>3, <1>5, <1>6, <1>7, <1>8, <1>9, <1>10

LEMMA DequeueGood ==
    ASSUME NEW w, NEW t, NEW C, NEW D, Good(w, t, C, D), Agree(C, D), NEW ps,
           \A e \in w.tb.queue : Named(e) \in ps => e.carries \subseteq D
    PROVE  LET v == Dequeue(w, ps) IN
           /\ Good(v, t, C, D) /\ Onward(w, v, D)
           /\ v.tb.queue = {e \in w.tb.queue : Named(e) \notin ps} /\ v.tb.turns = w.tb.turns
<1> DEFINE leaving == {e \in w.tb.queue : Named(e) \in ps}
           names == {Named(e) : e \in leaving}
           q == w.tb.queue \ leaving
           k == w.kick \/ \E e \in leaving : IsFollowed(q, e.key)
           v == [w EXCEPT !.tb.queue = q, !.tb.settled = @ \cup names, !.tb.here = @ \cup names, !.kick = k]
<1>1. (w \in WorldType) /\ (w.tb.queue \in SUBSET EntryType)
  BY DEF Good, PageGood, WorldType, PageType
<1>2. Dequeue(w, ps) = v
  BY <1>1 DEF Dequeue, WorldType
<1>3. (names \subseteq Names) /\ (q \subseteq w.tb.queue) /\ (k \in BOOLEAN)
  BY <1>1, NamedType DEF WorldType
<1>4. ASSUME NEW p \in names, NEW c \in C, c.key = p[1], c.at <= p[2]
      PROVE  c.carries \subseteq D
  <2>1. PICK e \in leaving : p = Named(e)
    OBVIOUS
  <2>2. (e \in EntryType) /\ (Core(e) \in C) /\ (e.carries \subseteq D)
    BY <1>1 DEF Good, PageGood
  <2>3. (p[1] = e.key) /\ (p[2] = e.at)
    BY <2>1 DEF Named
  <2>4. c.carries \subseteq Core(e).carries \cup D
    BY <1>4, <2>2, <2>3, CoreFields DEF Agree
  <2> QED BY <2>2, <2>4, CoreFields
<1>5. q = {e \in w.tb.queue : Named(e) \notin ps}
  OBVIOUS
<1>6. CarriedBy(w.tb.queue) \subseteq CarriedBy(q) \cup D
  BY DEF CarriedBy
<1>11. (names \subseteq Labels(w.tb)) /\ ({Named(e) : e \in q} \subseteq Labels(w.tb))
  BY DEF Labels
<1> HIDE DEF names, q, k, leaving
<1>7. /\ v \in WorldType /\ v.tb.queue = q /\ v.tb.settled = w.tb.settled \cup names /\ v.tb.turns = w.tb.turns
      /\ v.tb.open = w.tb.open /\ v.tb.adopted = w.tb.adopted /\ v.stored = w.stored /\ v.news = w.news
  BY <1>1, <1>3 DEF WorldType, PageType
<1> HIDE DEF v
<1>8. SettledDone(v.tb.settled, C, D)
  BY <1>4, <1>7 DEF Good, PageGood, SettledDone
<1>9. Good(v, t, C, D)
  <2>1. \A e \in v.tb.queue \cup Sent(v.tb) \cup v.stored.has : Core(e) \in C
    BY <1>3, <1>7 DEF Good, PageGood, Sent
  <2>2. Answered(v.tb, D)
    BY <1>7 DEF Good, PageGood, Answered
  <2>3. Away(v.tb, t, D \cup CarriedBy(v.stored.has)) /\ Adopted(v.tb, D \cup CarriedBy(v.stored.has))
    BY <1>3, <1>7 DEF Good, PageGood, Away, Adopted, Sent
  <2> QED BY <1>7, <1>8, <2>1, <2>2, <2>3 DEF Good, PageGood
<1>10. Onward(w, v, D)
  BY <1>6, <1>7, <1>11 DEF Onward, Labels
<1> QED BY <1>2, <1>5, <1>7, <1>9, <1>10

\* An answer marks entries of the queue, and leaves what they are.
LEMMA MarkGood ==
    ASSUME NEW w, NEW t, NEW C, NEW D, Good(w, t, C, D), NEW u
    PROVE  Good(Mark(w, u), t, C, D) /\ Onward(w, Mark(w, u), D) /\ Mark(w, u).tb.turns = w.tb.turns
<1> DEFINE after(e) == IF Named(e) \in NamesOf(u) THEN Marked(e, u.phase) ELSE e
           q == {after(e) : e \in w.tb.queue}
           f == w.tb.anyFailed \/ u.phase = "err"
           v == [w EXCEPT !.tb.queue = q, !.tb.anyFailed = f]
<1>1. (w \in WorldType) /\ (w.tb.queue \in SUBSET EntryType)
  BY DEF Good, PageGood, WorldType, PageType
<1>2. Mark(w, u) = v
  BY <1>1 DEF Mark, WorldType, PageType
<1>3. \A e \in w.tb.queue : (after(e) \in EntryType) /\ (Core(after(e)) = Core(e)) /\ (after(e).carries = e.carries)
                            /\ (after(e).by = e.by) /\ (Named(after(e)) = Named(e))
  BY <1>1, MarkedType DEF Core, Named
<1>4. (q \in SUBSET EntryType) /\ (f \in BOOLEAN)
  BY <1>3
<1>5. \A d \in q : \E e \in w.tb.queue :
        (Core(d) = Core(e)) /\ (d.carries = e.carries) /\ (d.by = e.by) /\ (Named(d) = Named(e))
  BY <1>3
<1>6. (CarriedBy(w.tb.queue) \subseteq CarriedBy(q)) /\ ({Named(e) : e \in q} \subseteq Labels(w.tb))
  BY <1>3, <1>5 DEF CarriedBy, Labels
<1> HIDE DEF q, f
<1>7. /\ v \in WorldType /\ v.tb.queue = q /\ v.tb.settled = w.tb.settled /\ v.tb.turns = w.tb.turns
      /\ v.tb.open = w.tb.open /\ v.tb.adopted = w.tb.adopted /\ v.stored = w.stored /\ v.news = w.news
  BY <1>1, <1>4 DEF WorldType, PageType
<1> HIDE DEF v
<1>8. Good(v, t, C, D)
  <2>1. \A e \in v.tb.queue \cup Sent(v.tb) \cup v.stored.has : Core(e) \in C
    BY <1>5, <1>7 DEF Good, PageGood, Sent
  <2>2. Answered(v.tb, D) /\ SettledDone(v.tb.settled, C, D)
    BY <1>7 DEF Good, PageGood, Answered
  <2>3. Away(v.tb, t, D \cup CarriedBy(v.stored.has)) /\ Adopted(v.tb, D \cup CarriedBy(v.stored.has))
    BY <1>5, <1>7 DEF Good, PageGood, Away, Adopted, Sent
  <2> QED BY <1>7, <2>1, <2>2, <2>3 DEF Good, PageGood
<1>9. Onward(w, v, D)
  BY <1>6, <1>7 DEF Onward, Labels
<1> QED BY <1>2, <1>7, <1>8, <1>9

---------------------------------------------------------------------------
(* The pass, as a whole.                                                   *)

\* Each of these is a way from one world to another.
Fine(w, v, t, C, D) == Good(v, t, C, D) /\ Onward(w, v, D)

LEMMA FineTwice ==
    ASSUME NEW w, NEW v, NEW x, NEW t, NEW C, NEW D, Fine(w, v, t, C, D), Fine(v, x, t, C, D)
    PROVE  Fine(w, x, t, C, D)
  BY OnwardTwice DEF Fine

LEMMA FineQuietly ==
    ASSUME NEW w, NEW v, NEW x, NEW t, NEW C, NEW D, Fine(w, v, t, C, D), Quietly(v, x)
    PROVE  Fine(w, x, t, C, D)
  BY QuietlyGood, OnwardTwice DEF Fine

LEMMA FineSelf ==
    ASSUME NEW w, NEW t, NEW C, NEW D, Good(w, t, C, D)
    PROVE  Fine(w, w, t, C, D)
  BY DEF Fine, Onward, Labels

LEMMA FinishGood ==
    ASSUME NEW w, NEW t, NEW C, NEW D, Good(w, t, C, D), Agree(C, D), refusing \in BOOLEAN
    PROVE  Fine(w, Finish(w), t, C, D)
<1> DEFINE p == Persist(w)
           b == p.tb.queue # {} /\ p.tb.anyFailed
           v == [p EXCEPT !.tb.pass = FALSE, !.tb.cut = FALSE, !.tb.failed = {}, !.tb.anyFailed = FALSE,
                          !.tb.timer = b]
<1>1. Fine(w, p, t, C, D)
  BY PersistGood DEF Fine
<1>2. (p \in WorldType) /\ (b \in BOOLEAN)
  BY <1>1 DEF Fine, Good, PageGood, WorldType, PageType
<1>3. Finish(w) = v
  BY DEF Finish
<1> HIDE DEF p, b
<1>4. Quietly(p, v)
  BY <1>2 DEF Quietly, WorldType, PageType
<1> HIDE DEF v
<1> QED BY <1>1, <1>3, <1>4, FineQuietly

LEMMA PassEndGood ==
    ASSUME NEW w, NEW t, NEW C, NEW D, Good(w, t, C, D), Agree(C, D), refusing \in BOOLEAN
    PROVE  Fine(w, PassEnd(w), t, C, D)
<1> DEFINE again == Begin(Persist(w))
<1>1. Fine(w, Persist(w), t, C, D)
  BY PersistGood DEF Fine
<1>2. Persist(w) \in WorldType
  BY <1>1 DEF Fine, Good, PageGood
<1>3. Fine(w, again, t, C, D)
  BY <1>1, <1>2, BeginQuiet, FineQuietly
<1>4. Good(again, t, C, D)
  BY <1>3 DEF Fine
<1> HIDE DEF again
<1>5. Fine(w, Finish(again), t, C, D)
  BY <1>3, <1>4, FinishGood, FineTwice
<1>6. PassEnd(w) \in {w, Finish(w), Finish(again), again}
  BY DEF PassEnd, again
<1> QED BY <1>3, <1>5, <1>6, FinishGood, FineSelf

LEMMA FlushQueueGood ==
    ASSUME NEW w, NEW t, NEW C, NEW D, Good(w, t, C, D), Agree(C, D), refusing \in BOOLEAN
    PROVE  Fine(w, FlushQueue(w), t, C, D)
<1> DEFINE v == [w EXCEPT !.tb.requested = TRUE]
<1>1. w \in WorldType
  BY DEF Good, PageGood
<1>2. Quietly(w, v) /\ (v \in WorldType)
  BY <1>1 DEF Quietly, WorldType, PageType
<1> HIDE DEF v
<1>3. Fine(w, Launch(v), t, C, D)
  BY <1>2, LaunchQuiet, FineSelf, FineQuietly
<1>4. Fine(w, Begin(w), t, C, D)
  BY <1>1, BeginQuiet, FineSelf, FineQuietly
<1>5. Fine(w, PassEnd(Begin(w)), t, C, D)
  <2>1. Good(Begin(w), t, C, D)
    BY <1>4 DEF Fine
  <2> QED BY <1>4, <2>1, PassEndGood, FineTwice
<1> QED BY <1>3, <1>5 DEF FlushQueue, v

LEMMA FlushNowGood ==
    ASSUME NEW w, NEW t, NEW C, NEW D, Good(w, t, C, D), Agree(C, D), refusing \in BOOLEAN
    PROVE  Fine(w, FlushNow(w), t, C, D)
<1> DEFINE v == [w EXCEPT !.tb.timer = FALSE]
<1>1. Quietly(w, v)
  BY DEF Good, PageGood, Quietly, WorldType, PageType
<1> HIDE DEF v
<1>2. Fine(w, v, t, C, D) /\ Good(v, t, C, D)
  BY <1>1, FineSelf, FineQuietly DEF Fine
<1>3. FlushNow(w) = FlushQueue(v)
  BY DEF FlushNow, v
<1> QED BY <1>2, <1>3, FlushQueueGood, FineTwice

LEMMA RerunGood ==
    ASSUME NEW w, NEW t, NEW C, NEW D, Good(w, t, C, D), Agree(C, D), refusing \in BOOLEAN
    PROVE  Fine(w, RerunFlushSoon(w), t, C, D)
<1> DEFINE v == [w EXCEPT !.kick = FALSE]
<1>1. Quietly(w, v)
  BY DEF Good, PageGood, Quietly, WorldType
<1> HIDE DEF v
<1>2. Fine(w, v, t, C, D) /\ Good(v, t, C, D)
  BY <1>1, FineSelf, FineQuietly DEF Fine
<1>3. RerunFlushSoon(w) \in {w, FlushQueue(v)}
  BY DEF RerunFlushSoon, v
<1> QED BY <1>2, <1>3, FlushQueueGood, FineTwice, FineSelf

LEMMA GoOnGood ==
    ASSUME NEW w, NEW t, NEW C, NEW D, Good(w, t, C, D), NEW u \in TurnType
    PROVE  Fine(w, GoOn(w, u), t, C, D)
  BY GoOnQuiet, FineSelf, FineQuietly DEF Good, PageGood

LEMMA EndTurnGood ==
    ASSUME NEW w, NEW t, NEW C, NEW D, Good(w, t, C, D), NEW u \in TurnType, NEW outcome
    PROVE  Fine(w, EndTurn(w, u, outcome), t, C, D)
  BY EndTurnQuiet, FineSelf, FineQuietly DEF Good, PageGood

\* What a request that counts carries is done, and so is what is queued under
\* its names.
LEMMA SentDone ==
    ASSUME NEW w, NEW t, NEW C, NEW D, Good(w, t, C, D), Agree(C, D), NEW u \in w.tb.turns, Counts(u)
    PROVE  \A e \in w.tb.queue : Named(e) \in NamesOf(u) => e.carries \subseteq D
<1> SUFFICES ASSUME NEW e \in w.tb.queue, NEW s \in u.sent, Named(e) = Named(s)
             PROVE  e.carries \subseteq D
  BY DEF NamesOf
<1>1. (e \in EntryType) /\ (s \in EntryType)
  BY DEF Good, PageGood, WorldType, PageType, TurnType
<1>2. (Core(e) \in C) /\ (Core(s) \in C)
  BY DEF Good, PageGood, Sent
<1>3. s.carries \subseteq D
  BY DEF Good, PageGood, Answered, CarriedBy
<1>4. (e.key = s.key) /\ (e.at = s.at) /\ (e.at <= s.at)
  BY <1>1 DEF Named, EntryType
<1>5. Core(e).carries \subseteq Core(s).carries \cup D
  BY <1>1, <1>2, <1>4, CoreFields DEF Agree
<1> QED BY <1>1, <1>3, <1>5, CoreFields

LEMMA SendEntryGood ==
    ASSUME NEW w, NEW t, NEW C, NEW D, Good(w, t, C, D), Agree(C, D), refusing \in BOOLEAN,
           NEW u \in w.tb.turns, u.phase # "sent", ~IsTaps(u)
    PROVE  Fine(w, SendEntry(w, u), t, C, D)
<1> DEFINE e == Oldest(u.sent)
           p == Named(e)
           heard == [w EXCEPT !.tb.discarded = @ \ {p}]
           asked == [w EXCEPT !.tb.requested = TRUE]
           out == Dequeue(heard, {p})
           left == RerunFlushSoon(Persist(out))
<1>1. (w \in WorldType) /\ (u \in TurnType)
  BY DEF Good, PageGood, WorldType, PageType
<1>2. PICK s \in EntryType : u.sent = {s}
  BY DEF Good, PageGood, Answered, OneOrTaps
<1>3. (e = s) /\ (NamesOf(u) = {p})
  <2>1. \A f \in u.sent : f = s
    BY <1>2
  <2>2. e \in u.sent
    BY <1>1, <1>2, OldestIsThere DEF TurnType
  <2> QED BY <1>2, <2>1, <2>2 DEF NamesOf
<1> HIDE DEF e
<1>4. Quietly(w, heard) /\ Quietly(w, asked) /\ heard.tb.queue = w.tb.queue
  BY <1>1 DEF Quietly, WorldType, PageType
<1> HIDE DEF heard, asked
<1>5. Fine(w, heard, t, C, D) /\ Fine(w, asked, t, C, D)
  BY <1>4, FineSelf, FineQuietly
<1>6. Good(heard, t, C, D) /\ Good(asked, t, C, D)
  BY <1>5 DEF Fine
<1>7. Fine(w, GoOn(heard, u), t, C, D)
  BY <1>1, <1>5, <1>6, GoOnGood, FineTwice
<1>8. Fine(w, EndTurn(Mark(w, u), u, "kept"), t, C, D)
  BY <1>1, MarkGood, EndTurnGood, FineTwice DEF Fine
<1>9. Fine(w, EndTurn(asked, u, "restamped"), t, C, D)
  BY <1>1, <1>5, <1>6, EndTurnGood, FineTwice
<1>10. Fine(w, GoOn(w, u), t, C, D)
  BY <1>1, GoOnGood
<1>11. ASSUME u.phase \notin {"err", "auth"} PROVE Fine(w, GoOn(left, u), t, C, D)
  <2>1. Counts(u)
    BY <1>11 DEF Counts, Good, PageGood, Answered, Out
  <2>2. \A f \in heard.tb.queue : Named(f) \in {p} => f.carries \subseteq D
    BY <1>3, <1>4, <2>1, SentDone
  <2>3. Fine(heard, out, t, C, D)
    BY <1>6, <2>2, DequeueGood DEF Fine
  <2> HIDE DEF out
  <2>4. Fine(out, Persist(out), t, C, D)
    BY <2>3, PersistGood DEF Fine
  <2>5. Fine(Persist(out), left, t, C, D)
    BY <2>4, RerunGood DEF Fine
  <2> HIDE DEF left
  <2>6. Fine(w, left, t, C, D)
    BY <1>5, <2>3, <2>4, <2>5, FineTwice
  <2>7. Fine(left, GoOn(left, u), t, C, D)
    BY <1>1, <2>6, GoOnGood DEF Fine
  <2> QED BY <2>6, <2>7, FineTwice
<1>12. \/ SendEntry(w, u) \in {GoOn(heard, u), EndTurn(Mark(w, u), u, "kept"),
                               EndTurn(asked, u, "restamped"), GoOn(w, u)}
       \/ (u.phase \notin {"err", "auth"} /\ SendEntry(w, u) = GoOn(left, u))
  BY DEF SendEntry, e, heard, asked
<1> HIDE DEF left, out, p
<1> QED BY <1>7, <1>8, <1>9, <1>10, <1>11, <1>12

LEMMA SendTapBatchGood ==
    ASSUME NEW w, NEW t, NEW C, NEW D, Good(w, t, C, D), Agree(C, D), refusing \in BOOLEAN,
           NEW u \in w.tb.turns, u.phase # "sent"
    PROVE  Fine(w, SendTapBatch(w, u), t, C, D)
<1> DEFINE out == Dequeue(w, NamesOf(u))
           left == RerunFlushSoon(Persist(out))
<1>1. (w \in WorldType) /\ (u \in TurnType) /\ u.phase \in Out
  BY DEF Good, PageGood, WorldType, PageType, Answered
<1>2. Fine(w, Mark(w, u), t, C, D) /\ Good(Mark(w, u), t, C, D)
  BY MarkGood DEF Fine
<1>3. Fine(w, EndTurn(Mark(w, u), u, "kept"), t, C, D)
  BY <1>1, <1>2, EndTurnGood, FineTwice
<1>4. Fine(w, EndTurn(Persist(Mark(w, u)), u, "kept"), t, C, D)
  <2>1. Fine(Mark(w, u), Persist(Mark(w, u)), t, C, D)
    BY <1>2, PersistGood DEF Fine
  <2>2. Fine(w, Persist(Mark(w, u)), t, C, D)
    BY <1>2, <2>1, FineTwice
  <2> QED BY <1>1, <2>2, EndTurnGood, FineTwice DEF Fine
<1>5. Fine(w, GoOn(w, u), t, C, D)
  BY <1>1, GoOnGood
<1>6. ASSUME u.phase \notin {"err", "auth", "no"} PROVE Fine(w, GoOn(left, u), t, C, D)
  <2>1. Counts(u)
    BY <1>1, <1>6 DEF Counts, Out
  <2>2. Fine(w, out, t, C, D)
    BY <2>1, SentDone, DequeueGood DEF Fine
  <2> HIDE DEF out
  <2>3. Fine(out, Persist(out), t, C, D)
    BY <2>2, PersistGood DEF Fine
  <2>4. Fine(Persist(out), left, t, C, D)
    BY <2>3, RerunGood DEF Fine
  <2> HIDE DEF left
  <2>5. Fine(w, left, t, C, D)
    BY <2>2, <2>3, <2>4, FineTwice
  <2>6. Fine(left, GoOn(left, u), t, C, D)
    BY <1>1, <2>5, GoOnGood DEF Fine
  <2> QED BY <2>5, <2>6, FineTwice
<1>7. \/ SendTapBatch(w, u) \in {EndTurn(Mark(w, u), u, "kept"), EndTurn(Persist(Mark(w, u)), u, "kept"), GoOn(w, u)}
      \/ (u.phase \notin {"err", "auth", "no"} /\ SendTapBatch(w, u) = GoOn(left, u))
  BY DEF SendTapBatch
<1> HIDE DEF left, out
<1> QED BY <1>3, <1>4, <1>5, <1>6, <1>7

---------------------------------------------------------------------------
(* The invariant.                                                          *)

Done == met \cup gone
Safe == Done \cup CarriedBy(stored.has)

Heard(evs) == UNION {evs[i].old.has \cup evs[i].new.has : i \in DOMAIN evs}

Known ==
    (UNION {tab[t].queue \cup Sent(tab[t]) : t \in Tabs}) \cup stored.has \cup (UNION {Heard(events[t]) : t \in Tabs})

Cores == {Core(e) : e \in Known}

OneKey(C) == \A c, d \in C : \A n \in c.carries : n \in d.carries => c.key = d.key
Past(C, n) == \A c \in C : c.at <= n /\ c.key <= n /\ c.carries \subseteq 1 .. n
MadeBy(C) == \A c \in C : c.by \in shape.tabs /\ c.kind \in shape.kinds[c.by]

Histories(C, D, n) == Agree(C, D) /\ OneKey(C) /\ Past(C, n) /\ MadeBy(C)

Typed ==
    /\ shape \in Shapes /\ clock \in Nat /\ tab \in [Tabs -> PageType] /\ stored \in CopyType
    /\ events \in [Tabs -> Seq(EventType)] /\ refusing \in BOOLEAN /\ pw \in Nat

Pages == \A t \in Tabs : Good(World(t), t, Cores, Done)

\* What an event brings is what its page may take of it: what left storage is
\* done, and what a sign-out wiped, up to that event.
MailOf(evs, tb, C, D, S) ==
    \A i \in DOMAIN evs :
        /\ Told(evs[i], C, D, S)
        /\ ~evs[i].new.there =>
              /\ Adopted(tb, D)
              /\ \A j \in 1 .. i : \A e \in evs[j].old.has \cup evs[j].new.has : e.carries \subseteq D

Mail == \A t \in Tabs : MailOf(events[t], tab[t], Cores, Done, Safe)

\* A page that is open holds what it made, as far as it is not done.
Homes == \A c \in Cores : tab[c.by].open => c.carries \subseteq Done \cup CarriedBy(tab[c.by].queue)

Saved == \A n \in 1 .. clock : n \notin unsaved => n \in Safe

Shut ==
    \A t \in Tabs :
        /\ tab[t].open => t \in shape.tabs
        /\ ~tab[t].open => tab[t].queue = {} /\ tab[t].turns = {} /\ events[t] = <<>>

Dated(tb, n) == \A p \in tb.settled \cup tb.adopted : p[2] <= n
AllDated == \A t \in Tabs : Dated(tab[t], clock)

OutboxInv ==
    /\ Typed /\ Histories(Cores, Done, clock) /\ Pages /\ Mail /\ Homes /\ Saved /\ NothingLost
    /\ Shut /\ AllDated

---------------------------------------------------------------------------
(* More writes are done: everything that was known still is.               *)

LEMMA AgreeOn ==
    ASSUME NEW C, NEW D, NEW E, Agree(C, D), D \subseteq E
    PROVE  Agree(C, E)
  BY DEF Agree

LEMMA ToldOn ==
    ASSUME NEW ev, NEW C, NEW D, NEW S, NEW B, NEW E, NEW R, Told(ev, C, D, S),
           \A e \in ev.old.has \cup ev.new.has : Core(e) \in B, D \subseteq E, S \subseteq R
    PROVE  Told(ev, B, E, R)
  BY DEF Told

LEMMA GoodOn ==
    ASSUME NEW w, NEW t, NEW C, NEW D, NEW E, Good(w, t, C, D), D \subseteq E
    PROVE  Good(w, t, C, E)
<1> DEFINE S == D \cup CarriedBy(w.stored.has)
           R == E \cup CarriedBy(w.stored.has)
<1>1. S \subseteq R
  OBVIOUS
<1>2. SettledDone(w.tb.settled, C, E) /\ Answered(w.tb, E)
  BY DEF Good, PageGood, SettledDone, Answered
<1>3. Away(w.tb, t, R) /\ Adopted(w.tb, R)
  <2>1. Away(w.tb, t, S) /\ Adopted(w.tb, S)
    BY DEF Good, PageGood
  <2> HIDE DEF S, R
  <2> QED BY <1>1, <2>1 DEF Away, Adopted
<1>4. \A i \in DOMAIN w.news : w.news[i].new.there /\ Told(w.news[i], C, E, R)
  <2>1. \A i \in DOMAIN w.news : w.news[i].new.there /\ Told(w.news[i], C, D, S)
    BY DEF Good, PageGood
  <2> HIDE DEF S, R
  <2> QED BY <1>1, <2>1 DEF Told
<1> QED BY <1>2, <1>3, <1>4 DEF Good, PageGood

\* What a page knows still holds beside another world.
LEMMA GoodBeside ==
    ASSUME NEW v, NEW w, NEW t, NEW B, NEW C, NEW D, NEW E, Good(v, t, B, D), v.news = <<>>,
           w.tb = v.tb, w.kick = v.kick, w.news = <<>>,
           w.stored \in CopyType, ~w.stored.there => w.stored.has = {}, w = [tb |-> w.tb, stored |-> w.stored, news |-> w.news, kick |-> w.kick],
           D \cup CarriedBy(v.stored.has) \subseteq E \cup CarriedBy(w.stored.has), D \subseteq E,
           \A e \in w.tb.queue \cup Sent(w.tb) \cup w.stored.has : Core(e) \in C,
           SettledDone(w.tb.settled, C, E)
    PROVE  Good(w, t, C, E)
<1> DEFINE S == D \cup CarriedBy(v.stored.has)
           R == E \cup CarriedBy(w.stored.has)
<1>1. w \in WorldType
  BY DEF Good, PageGood, WorldType
<1>2. Answered(w.tb, E)
  BY DEF Good, PageGood, Answered
<1>3. Away(w.tb, t, R) /\ Adopted(w.tb, R)
  <2>1. Away(w.tb, t, S) /\ Adopted(w.tb, S)
    BY DEF Good, PageGood
  <2>2. S \subseteq R
    OBVIOUS
  <2> HIDE DEF S, R
  <2> QED BY <2>1, <2>2 DEF Away, Adopted
<1>4. DOMAIN w.news = {}
  OBVIOUS
<1> QED BY <1>1, <1>2, <1>3, <1>4 DEF Good, PageGood

---------------------------------------------------------------------------
(* One task of one page: what it has to bring about.                       *)

PageMoves(t, w, C, mail) ==
    /\ t \in Tabs
    /\ shape' = shape /\ clock' \in Nat /\ clock <= clock' /\ Done \subseteq Done'
    /\ refusing' \in BOOLEAN /\ pw' \in Nat
    /\ tab' = [tab EXCEPT ![t] = w.tb]
    /\ stored' = w.stored
    /\ mail \in Seq(EventType)
    /\ events' = [u \in Tabs |-> IF u = t THEN mail ELSE IF tab[u].open THEN events[u] \o w.news ELSE events[u]]
    /\ Histories(C, Done', clock')
    /\ PageGood(w, t, C, Done')
    /\ \A j \in DOMAIN w.news :
          /\ Told(w.news[j], C, Done', Done' \cup CarriedBy(w.stored.has))
          /\ w.news[j].new.there \/ CarriedBy(w.stored.has) \subseteq Done'
    /\ MailOf(mail, w.tb, C, Done', Done' \cup CarriedBy(w.stored.has))
    /\ Cores \subseteq C
    /\ \A c \in C : c \in Cores \/ c.by = t
    /\ w.tb.open => \A c \in C : c.by = t => c.carries \subseteq Done' \cup CarriedBy(w.tb.queue)
    /\ w.tb.open => t \in shape.tabs
    /\ ~w.tb.open => w.tb.queue = {} /\ w.tb.turns = {} /\ mail = <<>>
    /\ CarriedBy(stored.has) \subseteq Done' \cup CarriedBy(w.stored.has)
    /\ \A u \in Tabs : SettledDone(tab[u].settled, C, Done')
    /\ Dated(w.tb, clock')
    /\ NothingLost'
    /\ \A n \in 1 .. clock' :
          n \notin unsaved' => (n \in 1 .. clock /\ n \notin unsaved) \/ n \in Done' \cup CarriedBy(w.stored.has)

LEMMA HeardIn ==
    ASSUME NEW evs, NEW i \in DOMAIN evs
    PROVE  evs[i].old.has \cup evs[i].new.has \subseteq Heard(evs)
  BY DEF Heard

\* Where entries are, one place at a time.
LEMMA KnownPlaces ==
    /\ \A t \in Tabs : tab[t].queue \cup Sent(tab[t]) \subseteq Known
    /\ \A t \in Tabs : Heard(events[t]) \subseteq Known
    /\ stored.has \subseteq Known
    /\ \A e \in Known : \/ \E t \in Tabs : e \in tab[t].queue \cup Sent(tab[t]) \cup Heard(events[t])
                        \/ e \in stored.has
    /\ \A e \in Known : Core(e) \in Cores
<1> DEFINE Q == UNION {tab[t].queue \cup Sent(tab[t]) : t \in Tabs}
           H == UNION {Heard(events[t]) : t \in Tabs}
<1>1. Known = Q \cup stored.has \cup H
  BY DEF Known
<1>2. \A t \in Tabs : tab[t].queue \cup Sent(tab[t]) \subseteq Q
  OBVIOUS
<1>3. \A t \in Tabs : Heard(events[t]) \subseteq H
  OBVIOUS
<1>4. \A e \in Q : \E t \in Tabs : e \in tab[t].queue \cup Sent(tab[t])
  OBVIOUS
<1>5. \A e \in H : \E t \in Tabs : e \in Heard(events[t])
  OBVIOUS
<1>6. \A e \in Known : Core(e) \in Cores
  BY DEF Cores
<1> HIDE DEF Q, H
<1> QED BY <1>1, <1>2, <1>3, <1>4, <1>5, <1>6

Somewhere ==
    \A f \in Known : \/ \E u \in Tabs : f \in tab[u].queue \cup Sent(tab[u]) \cup Heard(events[u])
                    \/ f \in stored.has

LEMMA KnownSomewhere == Somewhere
  BY KnownPlaces DEF Somewhere

LEMMA WorldIs ==
    ASSUME NEW t \in Tabs
    PROVE  /\ World(t).tb = tab[t] /\ World(t).stored = stored /\ World(t).news = <<>> /\ World(t).kick = FALSE
           /\ World(t) = [tb |-> World(t).tb, stored |-> World(t).stored, news |-> World(t).news, kick |-> World(t).kick]
  BY DEF World

\* What the storage events of a step bring each page.
MovedMail(t, w, mail, u) ==
    /\ events'[u] \in Seq(EventType)
    /\ u = t => events'[u] = mail
    /\ u # t /\ tab[u].open => events'[u] = events[u] \o w.news
    /\ u # t /\ ~tab[u].open => events'[u] = events[u]
    /\ \A i \in DOMAIN events'[u] :
          \/ u = t /\ i \in DOMAIN mail /\ events'[u][i] = mail[i]
          \/ u # t /\ i \in DOMAIN events[u] /\ events'[u][i] = events[u][i]
          \/ u # t /\ i \notin DOMAIN events[u] /\ \E j \in DOMAIN w.news : events'[u][i] = w.news[j]

LEMMA MovesEvents ==
    ASSUME NEW t, NEW w, NEW C, NEW mail, Typed, PageMoves(t, w, C, mail), NEW u \in Tabs
    PROVE  MovedMail(t, w, mail, u)
<1>1. (events[u] \in Seq(EventType)) /\ (w.news \in Seq(EventType)) /\ (mail \in Seq(EventType))
  BY DEF Typed, PageMoves, Good, PageGood, WorldType
<1>2. events'[u] = IF u = t THEN mail ELSE IF tab[u].open THEN events[u] \o w.news ELSE events[u]
  BY DEF PageMoves
<1>3. CASE u = t
  <2>1. events'[u] = mail
    BY <1>2, <1>3
  <2>2. \A i \in DOMAIN events'[u] : i \in DOMAIN mail /\ events'[u][i] = mail[i]
    BY <2>1
  <2> QED BY <1>1, <1>3, <2>1, <2>2 DEF MovedMail
<1>4. CASE u # t /\ tab[u].open
  <2>1. events'[u] = events[u] \o w.news
    BY <1>2, <1>4
  <2>2. \A i \in DOMAIN (events[u] \o w.news) :
          \/ i \in DOMAIN events[u] /\ (events[u] \o w.news)[i] = events[u][i]
          \/ i \notin DOMAIN events[u] /\ \E j \in DOMAIN w.news : (events[u] \o w.news)[i] = w.news[j]
    <3> DEFINE a == events[u]
               b == w.news
    <3>1. (a \in Seq(EventType)) /\ (b \in Seq(EventType))
      BY <1>1
    <3> HIDE DEF a, b
    <3> SUFFICES ASSUME NEW i \in DOMAIN (a \o b)
                 PROVE  \/ i \in DOMAIN a /\ (a \o b)[i] = a[i]
                        \/ i \notin DOMAIN a /\ \E j \in DOMAIN b : (a \o b)[i] = b[j]
      BY DEF a, b
    <3>2. i \in 1 .. (Len(a) + Len(b))
      BY <3>1
    <3>3. CASE i <= Len(a)
      BY <3>1, <3>2, <3>3
    <3>4. CASE i > Len(a)
      <4>1. (a \o b)[i] = b[i - Len(a)] /\ (i - Len(a)) \in DOMAIN b
        BY <3>1, <3>2, <3>4
      <4> QED BY <3>1, <3>4, <4>1
    <3> QED BY <3>1, <3>2, <3>3, <3>4
  <2>3. events[u] \o w.news \in Seq(EventType)
    BY <1>1
  <2> QED BY <1>4, <2>1, <2>2, <2>3 DEF MovedMail
<1>5. CASE u # t /\ ~tab[u].open
  BY <1>1, <1>2, <1>5 DEF MovedMail
<1> QED BY <1>3, <1>4, <1>5

LEMMA MovesTyped ==
    ASSUME NEW t, NEW w, NEW C, NEW mail, Typed, PageMoves(t, w, C, mail)
    PROVE  Typed' /\ \A u \in Tabs : tab'[u] = IF u = t THEN w.tb ELSE tab[u]
<1>1. (w.tb \in PageType) /\ (w.stored \in CopyType)
  BY DEF PageMoves, Good, PageGood, WorldType
<1>2. \A u \in Tabs : tab'[u] = IF u = t THEN w.tb ELSE tab[u]
  BY DEF PageMoves, Typed
<1>3. events' \in [Tabs -> Seq(EventType)]
  <2>1. \A u \in Tabs : events'[u] \in Seq(EventType)
    BY MovesEvents DEF MovedMail
  <2>2. events' = [u \in Tabs |-> events'[u]]
    BY DEF PageMoves
  <2> QED BY <2>1, <2>2
<1>4. tab' \in [Tabs -> PageType]
  BY <1>1 DEF PageMoves, Typed
<1>5. (shape' \in Shapes) /\ (clock' \in Nat) /\ (stored' \in CopyType) /\ (refusing' \in BOOLEAN) /\ (pw' \in Nat)
  BY <1>1 DEF PageMoves, Typed
<1> QED BY <1>2, <1>3, <1>4, <1>5 DEF Typed

LEMMA MovesCores ==
    ASSUME NEW t, NEW w, NEW C, NEW mail, Typed, PageMoves(t, w, C, mail)
    PROVE  Cores' \subseteq C
<1> SUFFICES ASSUME NEW e \in Known' PROVE Core(e) \in C
  BY DEF Cores
<1>1. \A u \in Tabs : tab'[u] = IF u = t THEN w.tb ELSE tab[u]
  BY MovesTyped
<1>2. stored' = w.stored
  BY DEF PageMoves
<1>3. \A f \in w.tb.queue \cup Sent(w.tb) \cup w.stored.has : Core(f) \in C
  BY DEF PageMoves, Good, PageGood
<1>4. \A f \in Known : Core(f) \in C
  BY KnownPlaces DEF PageMoves
<1>5. CASE \E u \in Tabs : e \in tab'[u].queue \cup Sent(tab'[u])
  <2>1. PICK u \in Tabs : e \in tab'[u].queue \cup Sent(tab'[u])
    BY <1>5
  <2>2. CASE u = t
    BY <1>1, <1>3, <2>1, <2>2
  <2>3. CASE u # t
    BY <1>1, <1>4, <2>1, <2>3, KnownPlaces
  <2> QED BY <2>2, <2>3
<1>6. CASE e \in stored'.has
  BY <1>2, <1>3, <1>6
<1>7. CASE \E u \in Tabs : e \in Heard(events'[u])
  <2>0. PICK u \in Tabs : e \in Heard(events'[u])
    BY <1>7
  <2>1. PICK i \in DOMAIN events'[u] : e \in events'[u][i].old.has \cup events'[u][i].new.has
    BY <2>0 DEF Heard
  <2>2. CASE \E j \in DOMAIN mail : events'[u][i] = mail[j]
    BY <2>1, <2>2 DEF PageMoves, MailOf, Told
  <2>3. CASE \E j \in DOMAIN events[u] : events'[u][i] = events[u][j]
    <3>1. e \in Heard(events[u])
      BY <2>1, <2>3 DEF Heard
    <3> QED BY <1>4, <3>1, KnownPlaces
  <2>4. CASE \E j \in DOMAIN w.news : events'[u][i] = w.news[j]
    BY <2>1, <2>4 DEF PageMoves, Good, PageGood, Told
  <2>5. \/ \E j \in DOMAIN mail : events'[u][i] = mail[j]
        \/ \E j \in DOMAIN events[u] : events'[u][i] = events[u][j]
        \/ \E j \in DOMAIN w.news : events'[u][i] = w.news[j]
    <3>1. \/ i \in DOMAIN mail /\ events'[u][i] = mail[i]
          \/ i \in DOMAIN events[u] /\ events'[u][i] = events[u][i]
          \/ \E j \in DOMAIN w.news : events'[u][i] = w.news[j]
      <4>1. MovedMail(t, w, mail, u)
        BY <2>0, MovesEvents
      <4> QED BY <2>1, <4>1 DEF MovedMail
    <3> QED BY <3>1
  <2> QED BY <2>2, <2>3, <2>4, <2>5
<1>8. \/ \E u \in Tabs : e \in tab'[u].queue \cup Sent(tab'[u])
      \/ \E u \in Tabs : e \in Heard(events'[u])
      \/ e \in stored'.has
  <2>1. Somewhere'
    BY KnownSomewhere, PTL
  <2> QED BY <2>1 DEF Somewhere
<1> QED BY <1>5, <1>6, <1>7, <1>8

LEMMA MovesHistories ==
    ASSUME NEW t, NEW w, NEW C, NEW mail, Typed, PageMoves(t, w, C, mail)
    PROVE  Histories(Cores, Done, clock)'
<1>1. Cores' \subseteq C
  BY MovesCores
<1>2. shape' = shape /\ Histories(C, Done', clock')
  BY DEF PageMoves
<1>3. Agree(Cores', Done')
  BY <1>1, <1>2 DEF Histories, Agree
<1>4. OneKey(Cores')
  BY <1>1, <1>2 DEF Histories, OneKey
<1>5. Past(Cores', clock')
  BY <1>1, <1>2 DEF Histories, Past
<1>6. MadeBy(Cores)'
  BY <1>1, <1>2 DEF Histories, MadeBy
<1> QED BY <1>3, <1>4, <1>5, <1>6 DEF Histories

Placed == \A e \in Known : Core(e) \in Cores

LEMMA AllPlaced == Placed
  BY KnownPlaces DEF Placed

Holders ==
    /\ \A t \in Tabs : tab[t].queue \cup Sent(tab[t]) \subseteq Known
    /\ \A t \in Tabs : Heard(events[t]) \subseteq Known
    /\ stored.has \subseteq Known

LEMMA AllHold == Holders
  BY KnownPlaces DEF Holders

LEMMA MovesPages ==
    ASSUME NEW t, NEW w, NEW C, NEW mail, Typed, Pages, PageMoves(t, w, C, mail)
    PROVE  Pages'
<1>1. /\ \A u \in Tabs : tab'[u] = IF u = t THEN w.tb ELSE tab[u]
      /\ Typed'
  BY MovesTyped
<1>2. Cores' \subseteq C
  BY MovesCores
<1>3. Placed' /\ Holders'
  BY AllPlaced, AllHold, PTL
<1>4. PageGood(w, t, C, Done')
  BY DEF PageMoves
<1>5. (stored' = w.stored) /\ (Done \subseteq Done') /\ (Safe \subseteq Safe')
  <2>1. (stored' = w.stored) /\ (Done \subseteq Done') /\ (CarriedBy(stored.has) \subseteq Done' \cup CarriedBy(w.stored.has))
    BY DEF PageMoves
  <2> QED BY <2>1 DEF Safe
<1>6. (stored' \in CopyType) /\ (~stored'.there => stored'.has = {})
  BY <1>4, <1>5, <1>1 DEF Good, PageGood, Typed
<1> SUFFICES ASSUME NEW u \in Tabs PROVE Good(World(u)', u, Cores', Done')
  BY DEF Pages
<1> DEFINE x == World(u)'
<1>7. /\ x.tb = tab'[u] /\ x.stored = stored' /\ x.news = <<>> /\ x.kick = FALSE
      /\ x = [tb |-> x.tb, stored |-> x.stored, news |-> x.news, kick |-> x.kick]
  BY DEF World
<1>8. \A e \in x.tb.queue \cup Sent(x.tb) \cup x.stored.has : Core(e) \in Cores'
  BY <1>3, <1>7 DEF Placed, Holders
<1> HIDE DEF x
<1>9. CASE u = t
  <2>1. x.tb = w.tb
    BY <1>1, <1>7, <1>9
  <2>2. SettledDone(x.tb.settled, Cores', Done')
    BY <1>2, <1>4, <2>1 DEF Good, PageGood, SettledDone
  <2>3. Answered(x.tb, Done')
    BY <1>4, <2>1 DEF Good, PageGood
  <2>4. Away(x.tb, u, Done' \cup CarriedBy(x.stored.has)) /\ Adopted(x.tb, Done' \cup CarriedBy(x.stored.has))
    BY <1>4, <1>5, <1>7, <1>9, <2>1 DEF Good, PageGood
  <2>5. x \in WorldType
    <3>1. w.tb \in PageType
      BY <1>4 DEF Good, PageGood, WorldType
    <3>2. x = [tb |-> w.tb, stored |-> stored', news |-> <<>>, kick |-> FALSE]
      BY <1>7, <2>1
    <3> QED BY <1>6, <3>1, <3>2 DEF WorldType
  <2>6. DOMAIN x.news = {}
    BY <1>7
  <2> QED BY <1>6, <1>7, <1>8, <2>2, <2>3, <2>4, <2>5, <2>6 DEF Good, PageGood, x
<1>10. CASE u # t
  <2> DEFINE v == World(u)
  <2>1. /\ v.tb = tab[u] /\ v.stored = stored /\ v.news = <<>> /\ v.kick = FALSE
    BY DEF World
  <2>2. Good(v, u, Cores, Done)
    BY DEF Pages
  <2> HIDE DEF v
  <2>3. (x.tb = v.tb) /\ (x.kick = v.kick)
    BY <1>1, <1>7, <1>10, <2>1
  <2>4. SettledDone(x.tb.settled, Cores', Done')
    <3>1. SettledDone(tab[u].settled, C, Done')
      BY DEF PageMoves
    <3> QED BY <1>2, <2>1, <2>3, <3>1 DEF SettledDone
  <2>5. Done \cup CarriedBy(v.stored.has) \subseteq Done' \cup CarriedBy(x.stored.has)
    BY <1>5, <1>7, <2>1 DEF Safe
  <2>6. Good(x, u, Cores', Done')
    BY <1>5, <1>6, <1>7, <1>8, <2>1, <2>2, <2>3, <2>4, <2>5, GoodBeside
  <2> QED BY <2>6 DEF x
<1> QED BY <1>9, <1>10

LEMMA MovesMail ==
    ASSUME NEW t, NEW w, NEW C, NEW mail, Typed, Pages, Mail, Shut, PageMoves(t, w, C, mail)
    PROVE  Mail'
<1>1. /\ \A u \in Tabs : tab'[u] = IF u = t THEN w.tb ELSE tab[u]
      /\ Typed'
  BY MovesTyped
<1>2. Placed' /\ Holders'
  BY AllPlaced, AllHold, PTL
<1>3. (stored' = w.stored) /\ (Done \subseteq Done') /\ (Safe \subseteq Safe') /\ (Safe' = Done' \cup CarriedBy(w.stored.has))
  <2>1. (stored' = w.stored) /\ (Done \subseteq Done') /\ (CarriedBy(stored.has) \subseteq Done' \cup CarriedBy(w.stored.has))
    BY DEF PageMoves
  <2> QED BY <2>1 DEF Safe
<1> SUFFICES ASSUME NEW u \in Tabs PROVE MailOf(events'[u], tab'[u], Cores', Done', Safe')
  BY DEF Mail
<1>4. MovedMail(t, w, mail, u)
  BY MovesEvents
<1>5. \A i \in DOMAIN events'[u] : \A e \in events'[u][i].old.has \cup events'[u][i].new.has : Core(e) \in Cores'
  <2>1. \A i \in DOMAIN events'[u] : events'[u][i].old.has \cup events'[u][i].new.has \subseteq Heard(events'[u])
    BY HeardIn
  <2> QED BY <1>2, <2>1 DEF Placed, Holders
<1>6. CASE u = t
  <2>1. events'[u] = mail /\ tab'[u] = w.tb
    BY <1>1, <1>4, <1>6 DEF MovedMail
  <2>2. MailOf(mail, w.tb, C, Done', Safe')
    BY <1>3 DEF PageMoves
  <2> QED BY <1>5, <2>1, <2>2, ToldOn DEF MailOf
<1>7. CASE u # t
  <2>1. tab'[u] = tab[u] /\ MailOf(events[u], tab[u], Cores, Done, Safe)
    BY <1>1, <1>7 DEF Mail
  <2>2. ASSUME NEW i \in DOMAIN events'[u], i \in DOMAIN events[u], events'[u][i] = events[u][i]
        PROVE  /\ Told(events'[u][i], Cores', Done', Safe')
               /\ ~events'[u][i].new.there =>
                     /\ Adopted(tab[u], Done')
                     /\ \A j \in 1 .. i : \A e \in events'[u][j].old.has \cup events'[u][j].new.has : e.carries \subseteq Done'
    <3>1. Told(events[u][i], Cores, Done, Safe)
      BY <2>1, <2>2 DEF MailOf
    <3>2. Told(events'[u][i], Cores', Done', Safe')
      BY <1>3, <1>5, <2>2, <3>1, ToldOn
    <3>3. ASSUME ~events[u][i].new.there
          PROVE  /\ Adopted(tab[u], Done')
                 /\ \A j \in 1 .. i : \A e \in events'[u][j].old.has \cup events'[u][j].new.has : e.carries \subseteq Done'
      <4>1. /\ Adopted(tab[u], Done)
            /\ \A j \in 1 .. i : \A e \in events[u][j].old.has \cup events[u][j].new.has : e.carries \subseteq Done
        BY <2>1, <2>2, <3>3 DEF MailOf
      <4>2. \A j \in 1 .. i : j \in DOMAIN events[u] /\ j \in DOMAIN events'[u] /\ events'[u][j] = events[u][j]
        <5>1. (events[u] \in Seq(EventType)) /\ (events'[u] \in Seq(EventType))
          BY <1>1 DEF Typed
        <5>2. \A j \in 1 .. i : j \in DOMAIN events[u] /\ j \in DOMAIN events'[u]
          BY <2>2, <5>1
        <5> QED BY <1>4, <1>7, <5>2 DEF MovedMail
      <4>3. Adopted(tab[u], Done')
        BY <1>3, <4>1 DEF Adopted
      <4>4. ASSUME NEW j \in 1 .. i, NEW e \in events'[u][j].old.has \cup events'[u][j].new.has
            PROVE  e.carries \subseteq Done'
        <5>1. events'[u][j] = events[u][j]
          BY <4>2
        <5>2. e.carries \subseteq Done
          BY <4>1, <4>4, <5>1
        <5> QED BY <1>3, <5>2
      <4> QED BY <4>3, <4>4
    <3> QED BY <2>2, <3>2, <3>3
  <2>3. ASSUME NEW i \in DOMAIN events'[u], NEW j \in DOMAIN w.news, events'[u][i] = w.news[j]
        PROVE  /\ Told(events'[u][i], Cores', Done', Safe')
               /\ events'[u][i].new.there \/ Safe' \subseteq Done'
    <3>1. Told(w.news[j], C, Done', Safe') /\ (w.news[j].new.there \/ Safe' \subseteq Done')
      BY <1>3 DEF PageMoves
    <3> QED BY <1>5, <2>3, <3>1, ToldOn
  <2>4. \A i \in DOMAIN events'[u] :
          \/ i \in DOMAIN events[u] /\ events'[u][i] = events[u][i]
          \/ \E j \in DOMAIN w.news : events'[u][i] = w.news[j]
    BY <1>4, <1>7 DEF MovedMail
  <2>5. \A i \in DOMAIN events'[u] : Told(events'[u][i], Cores', Done', Safe')
    BY <2>2, <2>3, <2>4
  <2>6. ASSUME Safe' \subseteq Done'
        PROVE  MailOf(events'[u], tab[u], Cores', Done', Safe')
    <3>1. \A i \in DOMAIN events'[u] : \A j \in 1 .. i : j \in DOMAIN events'[u]
      <4>1. events'[u] \in Seq(EventType)
        BY <1>1 DEF Typed
      <4> QED BY <4>1
    <3>2. Adopted(tab[u], Done')
      <4>1. Adopted(tab[u], Safe)
        <5>1. Good(World(u), u, Cores, Done)
          BY DEF Pages
        <5> QED BY <5>1, WorldIs DEF Good, PageGood, Safe
      <4> QED BY <1>3, <2>6, <4>1 DEF Adopted
    <3>3. \A i \in DOMAIN events'[u] : \A e \in events'[u][i].old.has \cup events'[u][i].new.has : e.carries \subseteq Done'
      BY <2>5, <2>6 DEF Told
    <3> QED BY <2>5, <3>1, <3>2, <3>3 DEF MailOf
  <2>7. CASE Safe' \subseteq Done'
    BY <2>1, <2>6, <2>7
  <2>8. CASE ~(Safe' \subseteq Done')
    <3>1. \A i \in DOMAIN events'[u] : ~events'[u][i].new.there => i \in DOMAIN events[u] /\ events'[u][i] = events[u][i]
      BY <2>3, <2>4, <2>8
    <3> QED BY <2>1, <2>2, <2>5, <3>1 DEF MailOf
  <2> QED BY <2>7, <2>8
<1> QED BY <1>6, <1>7

LEMMA MovesHomes ==
    ASSUME NEW t, NEW w, NEW C, NEW mail, Typed, Homes, PageMoves(t, w, C, mail)
    PROVE  Homes'
<1>1. \A u \in Tabs : tab'[u] = IF u = t THEN w.tb ELSE tab[u]
  BY MovesTyped
<1>2. Cores' \subseteq C
  BY MovesCores
<1> SUFFICES ASSUME NEW c \in Cores', tab'[c.by].open
             PROVE  c.carries \subseteq Done' \cup CarriedBy(tab'[c.by].queue)
  BY DEF Homes
<1>3. c \in C /\ c.by \in Tabs
  BY <1>2 DEF PageMoves, Histories, Agree, CoreType
<1>4. CASE c.by = t
  BY <1>1, <1>3, <1>4 DEF PageMoves
<1>5. CASE c.by # t
  <2>1. (c \in Cores) /\ (tab'[c.by] = tab[c.by])
    BY <1>1, <1>3, <1>5 DEF PageMoves
  <2>2. c.carries \subseteq Done \cup CarriedBy(tab[c.by].queue)
    BY <2>1 DEF Homes
  <2>3. Done \subseteq Done'
    BY DEF PageMoves
  <2> QED BY <2>1, <2>2, <2>3
<1> QED BY <1>4, <1>5

LEMMA MovesSaved ==
    ASSUME NEW t, NEW w, NEW C, NEW mail, Typed, Saved, PageMoves(t, w, C, mail)
    PROVE  Saved'
<1>1. /\ stored' = w.stored /\ Done \subseteq Done'
      /\ CarriedBy(stored.has) \subseteq Done' \cup CarriedBy(w.stored.has)
      /\ \A n \in 1 .. clock' :
          n \notin unsaved' => (n \in 1 .. clock /\ n \notin unsaved) \/ n \in Done' \cup CarriedBy(w.stored.has)
  BY DEF PageMoves
<1>2. Safe \subseteq Safe' /\ Safe' = Done' \cup CarriedBy(w.stored.has)
  BY <1>1 DEF Safe
<1> QED BY <1>1, <1>2 DEF Saved

LEMMA MovesShut ==
    ASSUME NEW t, NEW w, NEW C, NEW mail, Typed, Shut, AllDated, PageMoves(t, w, C, mail)
    PROVE  Shut' /\ AllDated'
<1>1. \A u \in Tabs : tab'[u] = IF u = t THEN w.tb ELSE tab[u]
  BY MovesTyped
<1>2. \A u \in Tabs : MovedMail(t, w, mail, u)
  BY MovesEvents
<1>3. /\ ~w.tb.open => w.tb.queue = {} /\ w.tb.turns = {} /\ mail = <<>>
      /\ w.tb.open => t \in shape.tabs
      /\ shape' = shape
      /\ Dated(w.tb, clock') /\ clock \in Nat /\ clock' \in Nat /\ clock <= clock'
  BY DEF PageMoves, Typed
<1>4. Shut'
  BY <1>1, <1>2, <1>3 DEF Shut, MovedMail
<1>5. ASSUME NEW u \in Tabs PROVE Dated(tab'[u], clock')
  <2>1. CASE u = t
    BY <1>1, <1>3, <2>1
  <2>2. CASE u # t
    <3>1. \A p \in tab[u].settled \cup tab[u].adopted : (p[2] \in Nat) /\ p[2] <= clock
      BY DEF AllDated, Dated, Typed, PageType, Names
    <3>2. tab'[u] = tab[u]
      BY <1>1, <2>2
    <3> QED BY <1>3, <3>1, <3>2 DEF Dated
  <2> QED BY <2>1, <2>2
<1> QED BY <1>4, <1>5 DEF AllDated

LEMMA MovesInv ==
    ASSUME NEW t, NEW w, NEW C, NEW mail, OutboxInv, PageMoves(t, w, C, mail)
    PROVE  OutboxInv'
<1>1. Typed' /\ Histories(Cores, Done, clock)' /\ Pages' /\ Mail' /\ Homes' /\ Saved' /\ Shut' /\ AllDated'
  BY MovesTyped, MovesHistories, MovesPages, MovesMail, MovesHomes, MovesSaved, MovesShut DEF OutboxInv
<1>2. NothingLost'
  BY DEF PageMoves
<1> QED BY <1>1, <1>2 DEF OutboxInv

---------------------------------------------------------------------------
(* One task of an open page, with nothing new made.                        *)

\* Nothing is lost by a step of one page that keeps what it and storage held.
LEMMA StepKeeps ==
    ASSUME NEW t \in Tabs, NEW w, Typed, NothingLost,
           tab' = [tab EXCEPT ![t] = w.tb], stored' = w.stored, w.tb.open, Done \subseteq Done',
           CarriedBy(tab[t].queue) \subseteq CarriedBy(w.tb.queue) \cup Done',
           CarriedBy(stored.has) \subseteq CarriedBy(w.stored.has) \cup Done',
           \A n \in 1 .. clock' : n \in 1 .. clock \/ n \in CarriedBy(w.tb.queue) \cup Done'
    PROVE  NothingLost'
<1>1. \A u \in Tabs : tab'[u] = IF u = t THEN w.tb ELSE tab[u]
  BY DEF Typed
<1> SUFFICES ASSUME NEW n \in 1 .. clock' PROVE Kept(n)'
  BY DEF NothingLost
<1>2. CASE n \in CarriedBy(w.tb.queue) \cup Done'
  BY <1>1, <1>2 DEF Kept, Done
<1>3. CASE n \in 1 .. clock
  <2>1. Kept(n)
    BY <1>3 DEF NothingLost
  <2>2. CASE n \in Done
    BY <2>2 DEF Kept, Done
  <2>3. CASE n \in CarriedBy(stored.has)
    BY <2>3, <1>2 DEF Kept, Done
  <2>4. CASE \E u \in Tabs : tab[u].open /\ n \in CarriedBy(tab[u].queue)
    <3>1. PICK u \in Tabs : tab[u].open /\ n \in CarriedBy(tab[u].queue)
      BY <2>4
    <3>2. CASE u = t
      BY <3>1, <3>2, <1>2 DEF Kept, Done
    <3>3. CASE u # t
      BY <1>1, <3>1, <3>3 DEF Kept
    <3> QED BY <3>2, <3>3
  <2> QED BY <2>1, <2>2, <2>3, <2>4 DEF Kept, Done
<1> QED BY <1>2, <1>3

Moved(t, w, mail) ==
    /\ tab' = [tab EXCEPT ![t] = w.tb]
    /\ stored' = w.stored
    /\ events' = [u \in Tabs |-> IF u = t THEN mail ELSE IF tab[u].open THEN events[u] \o w.news ELSE events[u]]

\* What the rest of the state does in such a step.
Still ==
    /\ shape' = shape /\ clock' = clock /\ unsaved' = unsaved /\ refusing' \in BOOLEAN /\ pw' \in Nat
    /\ Done \subseteq Done'

LEMMA TaskMoves ==
    ASSUME NEW t \in Tabs, NEW w, NEW mail, OutboxInv, Still, Moved(t, w, mail), w.tb.open,
           PageGood(w, t, Cores, Done'), mail \in Seq(EventType),
           \A j \in DOMAIN w.news :
               /\ Told(w.news[j], Cores, Done', Done' \cup CarriedBy(w.stored.has))
               /\ w.news[j].new.there \/ CarriedBy(w.stored.has) \subseteq Done',
           CarriedBy(tab[t].queue) \subseteq CarriedBy(w.tb.queue) \cup Done',
           CarriedBy(stored.has) \subseteq CarriedBy(w.stored.has) \cup Done',
           Dated(w.tb, clock),
           \/ tab[t].open
           \/ t \in shape.tabs /\ \A c \in Cores : c.by = t => c.carries \subseteq Done' \cup CarriedBy(w.tb.queue),
           MailOf(mail, w.tb, Cores, Done', Done' \cup CarriedBy(w.stored.has))
    PROVE  PageMoves(t, w, Cores, mail)
<1>1. Done \subseteq Done' /\ clock' = clock /\ clock \in Nat /\ shape' = shape /\ unsaved' = unsaved
  BY DEF Still, OutboxInv, Typed
<1>2. Histories(Cores, Done', clock')
  <2>1. Agree(Cores, Done')
    BY <1>1, AgreeOn DEF OutboxInv, Histories
  <2>2. OneKey(Cores) /\ Past(Cores, clock') /\ MadeBy(Cores)
    BY <1>1 DEF OutboxInv, Histories
  <2> QED BY <2>1, <2>2 DEF Histories
<1>3. \A c \in Cores : c.by = t => c.carries \subseteq Done' \cup CarriedBy(w.tb.queue)
  <2>1. CASE tab[t].open
    <3>1. \A c \in Cores : c.by = t => c.carries \subseteq Done \cup CarriedBy(tab[t].queue)
      BY <2>1 DEF OutboxInv, Homes
    <3> QED BY <1>1, <3>1
  <2> QED BY <2>1
<1>4. \A u \in Tabs : SettledDone(tab[u].settled, Cores, Done')
  <2>1. \A u \in Tabs : SettledDone(tab[u].settled, Cores, Done)
    <3>1. ASSUME NEW u \in Tabs PROVE SettledDone(tab[u].settled, Cores, Done)
      <4>1. Good(World(u), u, Cores, Done)
        BY DEF OutboxInv, Pages
      <4> QED BY <4>1, WorldIs DEF Good, PageGood
    <3> QED BY <3>1
  <2> QED BY <1>1, <2>1 DEF SettledDone
<1>5. NothingLost'
  <2>1. \A n \in 1 .. clock' : n \in 1 .. clock
    BY <1>1
  <2>2. tab' = [tab EXCEPT ![t] = w.tb] /\ stored' = w.stored
    BY DEF Moved
  <2> QED BY <1>1, <2>1, <2>2, StepKeeps DEF OutboxInv
<1>6. \A n \in 1 .. clock' : n \notin unsaved' => (n \in 1 .. clock /\ n \notin unsaved)
  BY <1>1
<1>7. refusing' \in BOOLEAN /\ pw' \in Nat
  BY DEF Still
<1>8. Dated(w.tb, clock') /\ clock' \in Nat /\ clock <= clock'
  BY <1>1
<1>9. CarriedBy(stored.has) \subseteq Done' \cup CarriedBy(w.stored.has)
  OBVIOUS
<1>10. \A n \in 1 .. clock' :
          n \notin unsaved' => (n \in 1 .. clock /\ n \notin unsaved) \/ n \in Done' \cup CarriedBy(w.stored.has)
  BY <1>6
<1>11. tab' = [tab EXCEPT ![t] = w.tb] /\ stored' = w.stored
  BY DEF Moved
<1>12. events' = [u \in Tabs |-> IF u = t THEN mail ELSE IF tab[u].open THEN events[u] \o w.news ELSE events[u]]
  BY DEF Moved
<1>13. t \in shape.tabs
  BY DEF OutboxInv, Shut
<1> QED BY <1>1, <1>2, <1>3, <1>4, <1>5, <1>7, <1>8, <1>9, <1>10, <1>11, <1>12, <1>13 DEF PageMoves

\* Of what was taken up, what stays queued is as done as it was.
LEMMA AdoptedOnward ==
    ASSUME NEW w, NEW v, NEW t, NEW C, NEW D, Good(w, t, C, D), Agree(C, D), Fine(w, v, t, C, D), Adopted(w.tb, D)
    PROVE  Adopted(v.tb, D)
<1> SUFFICES ASSUME NEW e \in v.tb.queue, Named(e) \in v.tb.adopted PROVE e.carries \subseteq D
  BY DEF Adopted
<1>1. (v.tb.adopted = w.tb.adopted) /\ (Named(e) \in Labels(w.tb))
  BY DEF Fine, Onward, Labels
<1>2. PICK f \in w.tb.queue : Named(f) = Named(e)
  BY <1>1 DEF Labels
<1>3. f.carries \subseteq D
  BY <1>1, <1>2 DEF Adopted
<1>4. (e \in EntryType) /\ (f \in EntryType) /\ (Core(e) \in C) /\ (Core(f) \in C)
  BY <1>2 DEF Fine, Good, PageGood, WorldType, PageType
<1>5. (e.key = f.key) /\ (e.at = f.at) /\ (e.at <= f.at)
  BY <1>2, <1>4 DEF Named, EntryType
<1>6. Core(e).carries \subseteq Core(f).carries \cup D
  BY <1>4, <1>5, CoreFields DEF Agree
<1> QED BY <1>3, <1>4, <1>6, CoreFields

LEMMA MailOn ==
    ASSUME NEW evs, NEW tb, NEW x, NEW C, NEW D, NEW E, NEW S, NEW R, MailOf(evs, tb, C, D, S),
           D \subseteq E, S \subseteq R, Adopted(tb, D) => Adopted(x, E)
    PROVE  MailOf(evs, x, C, E, R)
<1> SUFFICES ASSUME NEW i \in DOMAIN evs
             PROVE  /\ Told(evs[i], C, E, R)
                    /\ ~evs[i].new.there =>
                          /\ Adopted(x, E)
                          /\ \A j \in 1 .. i : \A e \in evs[j].old.has \cup evs[j].new.has : e.carries \subseteq E
  BY DEF MailOf
<1>1. Told(evs[i], C, D, S)
  BY DEF MailOf
<1>2. Told(evs[i], C, E, R)
  BY <1>1, ToldOn DEF Told
<1>3. ASSUME ~evs[i].new.there
      PROVE  /\ Adopted(tb, D)
             /\ \A j \in 1 .. i : \A e \in evs[j].old.has \cup evs[j].new.has : e.carries \subseteq D
  BY <1>3 DEF MailOf
<1> QED BY <1>2, <1>3

LEMMA DoMoves ==
    ASSUME NEW t \in Tabs, NEW w, Do(t, w)
    PROVE  Moved(t, w, events[t])
<1>1. \A u \in Tabs : (IF u # t /\ tab[u].open THEN events[u] \o w.news ELSE events[u])
                    = (IF u = t THEN events[t] ELSE IF tab[u].open THEN events[u] \o w.news ELSE events[u])
  OBVIOUS
<1> QED BY <1>1 DEF Do, Moved

LEMMA WorldGood ==
    ASSUME NEW t \in Tabs, OutboxInv, Done \subseteq Done'
    PROVE  /\ Good(World(t), t, Cores, Done') /\ Agree(Cores, Done') /\ World(t) \in WorldType
           /\ Adopted(tab[t], Done \cup CarriedBy(stored.has))
<1>1. Good(World(t), t, Cores, Done) /\ Agree(Cores, Done)
  BY DEF OutboxInv, Pages, Histories
<1>2. Good(World(t), t, Cores, Done') /\ Agree(Cores, Done')
  BY <1>1, GoodOn, AgreeOn
<1> QED BY <1>1, <1>2, WorldIs DEF Good, PageGood

\* Where a page stands, every label it can have is dated.
LEMMA DatedOnward ==
    ASSUME NEW t \in Tabs, NEW w, OutboxInv, w.tb.adopted = tab[t].adopted,
           w.tb.settled \subseteq tab[t].settled \cup Labels(tab[t])
    PROVE  Dated(w.tb, clock)
<1>1. Dated(tab[t], clock) /\ Past(Cores, clock)
  BY DEF OutboxInv, AllDated, Histories
<1>2. \A p \in Labels(tab[t]) : p[2] <= clock
  <2>1. \A e \in tab[t].queue : (Core(e) \in Cores) /\ (e \in EntryType)
    BY KnownPlaces DEF OutboxInv, Typed, PageType
  <2> QED BY <1>1, <2>1, CoreFields DEF Labels, Named, Past
<1> QED BY <1>1, <1>2 DEF Dated

LEMMA FineMoves ==
    ASSUME NEW t \in Tabs, NEW w, OutboxInv, Still, tab[t].open, Do(t, w), Fine(World(t), w, t, Cores, Done')
    PROVE  OutboxInv'
<1>1. Good(World(t), t, Cores, Done') /\ Agree(Cores, Done')
  BY WorldGood DEF Still
<1>2. /\ World(t).tb = tab[t] /\ World(t).stored = stored
  BY WorldIs
<1>3. /\ w.tb.open = tab[t].open /\ w.tb.adopted = tab[t].adopted
      /\ w.tb.settled \subseteq tab[t].settled \cup Labels(tab[t])
      /\ CarriedBy(stored.has) \subseteq CarriedBy(w.stored.has) \cup Done'
      /\ CarriedBy(tab[t].queue) \subseteq CarriedBy(w.tb.queue) \cup Done'
  BY <1>2 DEF Fine, Onward
<1>4. Moved(t, w, events[t]) /\ events[t] \in Seq(EventType)
  BY DoMoves DEF OutboxInv, Typed
<1>5. Dated(w.tb, clock)
  BY <1>3, DatedOnward
<1>6. PageGood(w, t, Cores, Done')
  BY DEF Fine, Good
<1>7. \A j \in DOMAIN w.news :
          /\ Told(w.news[j], Cores, Done', Done' \cup CarriedBy(w.stored.has))
          /\ w.news[j].new.there \/ CarriedBy(w.stored.has) \subseteq Done'
  BY DEF Fine, Good
<1>8. MailOf(events[t], w.tb, Cores, Done', Done' \cup CarriedBy(w.stored.has))
  <2>1. MailOf(events[t], tab[t], Cores, Done, Safe)
    BY DEF OutboxInv, Mail
  <2>2. Done \subseteq Done' /\ Safe \subseteq Done' \cup CarriedBy(w.stored.has)
    BY <1>3 DEF Still, Safe
  <2>3. Adopted(tab[t], Done) => Adopted(w.tb, Done')
    <3>1. Adopted(tab[t], Done) => Adopted(tab[t], Done')
      BY <2>2 DEF Adopted
    <3> QED BY <1>1, <1>2, <3>1, AdoptedOnward
  <2> HIDE DEF Done, Safe
  <2> QED BY <2>1, <2>2, <2>3, MailOn
<1>9. w.tb.open
  BY <1>3
<1>10. PageMoves(t, w, Cores, events[t])
  BY <1>3, <1>4, <1>5, <1>6, <1>7, <1>8, <1>9, TaskMoves
<1> QED BY <1>10, MovesInv

---------------------------------------------------------------------------
(* The steps.                                                              *)

LEMMA TimerStays ==
    ASSUME NEW t \in Tabs, OutboxInv, TimerFires(t)
    PROVE  OutboxInv'
<1> DEFINE w == FlushNow(World(t))
<1>1. Still /\ tab[t].open /\ Do(t, w) /\ Done \subseteq Done'
  BY DEF TimerFires, Still, Done, OutboxInv, Typed
<1>2. Good(World(t), t, Cores, Done') /\ Agree(Cores, Done') /\ refusing \in BOOLEAN
  BY <1>1, WorldGood DEF OutboxInv, Typed
<1>3. Fine(World(t), w, t, Cores, Done')
  BY <1>2, FlushNowGood
<1> HIDE DEF w
<1> QED BY <1>1, <1>3, FineMoves

LEMMA HearsStays ==
    ASSUME NEW t \in Tabs, OutboxInv, Hears(t)
    PROVE  OutboxInv'
<1>1. PICK u \in tab[t].turns : u.phase # "sent" /\ Do(t, PassEnd(IF IsTaps(u) THEN SendTapBatch(World(t), u) ELSE SendEntry(World(t), u)))
  BY DEF Hears
<1> DEFINE x == IF IsTaps(u) THEN SendTapBatch(World(t), u) ELSE SendEntry(World(t), u)
<1>2. Still /\ Done \subseteq Done'
  BY DEF Hears, Still, Done, OutboxInv, Typed
<1>3. Good(World(t), t, Cores, Done') /\ Agree(Cores, Done') /\ (refusing \in BOOLEAN) /\ World(t).tb = tab[t]
  BY <1>2, WorldGood, WorldIs DEF OutboxInv, Typed
<1>4. u \in World(t).tb.turns
  BY <1>1, <1>3
<1>5. Fine(World(t), x, t, Cores, Done')
  BY <1>1, <1>3, <1>4, SendEntryGood, SendTapBatchGood
<1>6. Do(t, PassEnd(x))
  BY <1>1
<1> HIDE DEF x
<1>7. Fine(World(t), PassEnd(x), t, Cores, Done')
  <2>1. Fine(x, PassEnd(x), t, Cores, Done')
    BY <1>3, <1>5, PassEndGood DEF Fine
  <2> QED BY <1>5, <2>1, FineTwice
<1>8. tab[t].open
  <2>1. u \in tab[t].turns
    BY <1>1
  <2> QED BY <2>1 DEF OutboxInv, Shut
<1> QED BY <1>2, <1>6, <1>7, <1>8, FineMoves

LEMMA GivesUpStays ==
    ASSUME NEW t \in Tabs, OutboxInv, GivesUp(t)
    PROVE  OutboxInv'
<1>1. PICK u \in tab[t].turns :
          Do(t, PassEnd(EndTurn([World(t) EXCEPT !.tb.anyFailed = TRUE, !.tb.discarded = @ \ NamesOf(u)], u, "kept")))
  BY DEF GivesUp
<1> DEFINE v == [World(t) EXCEPT !.tb.anyFailed = TRUE, !.tb.discarded = @ \ NamesOf(u)]
           x == EndTurn(v, u, "kept")
<1>2. Still /\ Done \subseteq Done'
  BY DEF GivesUp, Still, Done, OutboxInv, Typed
<1>3. /\ Good(World(t), t, Cores, Done') /\ Agree(Cores, Done') /\ (refusing \in BOOLEAN)
      /\ World(t).tb = tab[t] /\ World(t) \in WorldType
  BY <1>2, WorldGood, WorldIs DEF OutboxInv, Typed
<1>4. Quietly(World(t), v)
  BY <1>3 DEF Quietly, WorldType, PageType
<1>5. u \in TurnType
  <2>1. u \in tab[t].turns
    BY <1>1
  <2> QED BY <2>1 DEF OutboxInv, Typed, PageType
<1>6. Do(t, PassEnd(x))
  BY <1>1
<1> HIDE DEF v
<1>7. Fine(World(t), v, t, Cores, Done')
  BY <1>3, <1>4, FineSelf, FineQuietly
<1>8. Fine(v, x, t, Cores, Done')
  BY <1>5, <1>7, EndTurnGood DEF Fine
<1> HIDE DEF x
<1>9. Fine(World(t), PassEnd(x), t, Cores, Done')
  <2>1. Fine(x, PassEnd(x), t, Cores, Done')
    BY <1>3, <1>8, PassEndGood DEF Fine
  <2> QED BY <1>7, <1>8, <2>1, FineTwice
<1>10. tab[t].open
  <2>1. u \in tab[t].turns
    BY <1>1
  <2> QED BY <2>1 DEF OutboxInv, Shut
<1> QED BY <1>2, <1>6, <1>9, <1>10, FineMoves

\* Entries whose marks and passwords alone changed.
SameCores(q, r) ==
    /\ r \subseteq EntryType
    /\ \A d \in r : \E e \in q : Core(d) = Core(e)
    /\ \A e \in q : \E d \in r : Core(d) = Core(e)

LEMMA SameCarried ==
    ASSUME NEW q \in SUBSET EntryType, NEW r, SameCores(q, r)
    PROVE  /\ CarriedBy(q) = CarriedBy(r)
           /\ {Named(e) : e \in q} = {Named(e) : e \in r}
           /\ \A d \in r : \E e \in q : Core(d) = Core(e) /\ d.carries = e.carries /\ d.by = e.by /\ Named(d) = Named(e)
<1>1. \A d, e \in EntryType : Core(d) = Core(e) =>
          d.carries = e.carries /\ d.by = e.by /\ d.key = e.key /\ d.at = e.at /\ Named(d) = Named(e)
  BY DEF Core, Named
<1>2. \A d \in r : \E e \in q : Core(d) = Core(e) /\ d.carries = e.carries /\ d.by = e.by /\ Named(d) = Named(e)
  BY <1>1 DEF SameCores
<1>3. \A e \in q : \E d \in r : Core(d) = Core(e) /\ d.carries = e.carries /\ d.by = e.by /\ Named(d) = Named(e)
  BY <1>1 DEF SameCores
<1>4. CarriedBy(q) = CarriedBy(r)
  BY <1>2, <1>3 DEF CarriedBy
<1>5. {Named(e) : e \in q} = {Named(e) : e \in r}
  BY <1>2, <1>3
<1> QED BY <1>2, <1>4, <1>5

LEMMA RemarkGood ==
    ASSUME NEW w, NEW v, NEW t, NEW C, NEW D, Good(w, t, C, D), v \in WorldType, SameCores(w.tb.queue, v.tb.queue),
           v.tb.settled = w.tb.settled, v.tb.turns = w.tb.turns, v.tb.open = w.tb.open,
           v.tb.adopted = w.tb.adopted, v.stored = w.stored, v.news = w.news
    PROVE  Fine(w, v, t, C, D)
<1>1. w.tb.queue \in SUBSET EntryType
  BY DEF Good, PageGood, WorldType, PageType
<1>2. /\ CarriedBy(w.tb.queue) = CarriedBy(v.tb.queue)
      /\ Labels(w.tb) = Labels(v.tb)
      /\ \A d \in v.tb.queue : \E e \in w.tb.queue :
            Core(d) = Core(e) /\ d.carries = e.carries /\ d.by = e.by /\ Named(d) = Named(e)
  BY <1>1, SameCarried, ZenonT(30) DEF Labels
<1>3. Good(v, t, C, D)
  <2>1. \A e \in v.tb.queue \cup Sent(v.tb) \cup v.stored.has : Core(e) \in C
    BY <1>2 DEF Good, PageGood, Sent
  <2>2. Answered(v.tb, D) /\ SettledDone(v.tb.settled, C, D)
    BY DEF Good, PageGood, Answered
  <2>3. Away(v.tb, t, D \cup CarriedBy(v.stored.has)) /\ Adopted(v.tb, D \cup CarriedBy(v.stored.has))
    BY <1>2 DEF Good, PageGood, Away, Adopted, Sent
  <2> QED BY <2>1, <2>2, <2>3 DEF Good, PageGood
<1>4. Onward(w, v, D)
  BY <1>2 DEF Onward
<1> QED BY <1>3, <1>4 DEF Fine

\* Storage rewritten with the same entries, other marks.
LEMMA ScrubGood ==
    ASSUME NEW w, NEW t, NEW C, NEW D, NEW h, Good(w, t, C, D), SameCores(w.stored.has, h)
    PROVE  Fine(w, Store(w, [w.stored EXCEPT !.has = h]), t, C, D)
<1> DEFINE s == [w.stored EXCEPT !.has = h]
           ev == [old |-> w.stored, new |-> s]
           n == Append(w.news, ev)
           v == [w EXCEPT !.stored = s, !.news = n]
<1>1. (w \in WorldType) /\ (w.stored \in CopyType) /\ (w.news \in Seq(EventType))
  BY DEF Good, PageGood, WorldType
<1>2. (s \in CopyType) /\ (s.has = h) /\ (s.there = w.stored.there)
  BY <1>1 DEF CopyType, SameCores
<1>3. /\ CarriedBy(w.stored.has) = CarriedBy(h)
      /\ \A d \in h : \E e \in w.stored.has :
            Core(d) = Core(e) /\ d.carries = e.carries /\ d.by = e.by /\ Named(d) = Named(e)
  <2>1. w.stored.has \in SUBSET EntryType
    BY <1>1 DEF CopyType
  <2> QED BY <2>1, SameCarried
<1>4. CASE s = w.stored
  BY <1>4, FineSelf DEF Store
<1>5. CASE s # w.stored
  <2>1. Store(w, s) = v
    BY <1>1, <1>5 DEF Store, WorldType
  <2>2. w.stored.there
    <3>1. ASSUME ~w.stored.there PROVE s = w.stored
      <4>1. w.stored.has = {}
        BY <3>1 DEF Good, PageGood
      <4>2. h = {}
        BY <1>3, <4>1
      <4> QED BY <1>1, <4>1, <4>2 DEF CopyType
    <3> QED BY <1>5, <3>1
  <2>3. ev \in EventType /\ ev.old = w.stored /\ ev.new = s
    BY <1>1, <1>2 DEF EventType
  <2> HIDE DEF s, ev
  <2>4. /\ n \in Seq(EventType) /\ Len(n) = Len(w.news) + 1 /\ n[Len(w.news) + 1] = ev
        /\ \A i \in DOMAIN w.news : n[i] = w.news[i]
        /\ \A i \in DOMAIN n : i \in DOMAIN w.news \/ i = Len(w.news) + 1
    BY <1>1, <2>3
  <2> HIDE DEF n
  <2>5. /\ v \in WorldType /\ v.tb = w.tb /\ v.stored = s /\ v.news = n
    BY <1>1, <1>2, <2>4 DEF WorldType
  <2> HIDE DEF v
  <2>6. KeysOf(w.stored.has) \subseteq KeysOf(h)
    <3>1. \A e \in w.stored.has : \E d \in h : d.key = e.key
      <4>1. \A d, e \in EntryType : Core(d) = Core(e) => d.key = e.key
        BY DEF Core
      <4> QED BY <1>1, <4>1 DEF SameCores, CopyType
    <3> QED BY <3>1 DEF KeysOf
  <2>7. Told(ev, C, D, D \cup CarriedBy(h))
    <3>1. \A e \in w.stored.has \cup h : Core(e) \in C /\ e.carries \subseteq CarriedBy(h)
      <4>1. \A e \in w.stored.has : Core(e) \in C /\ e.carries \subseteq CarriedBy(w.stored.has)
        BY DEF Good, PageGood, CarriedBy
      <4>2. \A e \in h : Core(e) \in C /\ e.carries \subseteq CarriedBy(h)
        BY <1>3, <4>1
      <4> QED BY <1>3, <4>1, <4>2
    <3>2. \A e \in w.stored.has : e.key \in KeysOf(h)
      BY <2>6 DEF KeysOf
    <3> QED BY <1>2, <2>3, <3>1, <3>2 DEF Told
  <2>8. \A i \in DOMAIN v.news : v.news[i].new.there /\ Told(v.news[i], C, D, D \cup CarriedBy(v.stored.has))
    <3>1. \A i \in DOMAIN w.news : w.news[i].new.there /\ Told(w.news[i], C, D, D \cup CarriedBy(h))
      BY <1>3 DEF Good
    <3>2. ev.new.there
      BY <1>2, <2>2, <2>3
    <3> QED BY <1>2, <2>4, <2>5, <2>7, <3>1, <3>2
  <2>9. PageGood(v, t, C, D)
    <3>1. \A e \in h : Core(e) \in C
      BY <1>3 DEF Good, PageGood
    <3>2. Away(v.tb, t, D \cup CarriedBy(v.stored.has)) /\ Adopted(v.tb, D \cup CarriedBy(v.stored.has))
      BY <1>2, <1>3, <2>5 DEF Good, PageGood
    <3> QED BY <1>2, <2>2, <2>5, <3>1, <3>2 DEF Good, PageGood
  <2>10. Onward(w, v, D)
    BY <1>2, <1>3, <2>5 DEF Onward
  <2> QED BY <2>1, <2>8, <2>9, <2>10 DEF Fine, Good, s
<1> QED BY <1>4, <1>5

\* The entries under the name of one that is done are done.
LEMMA NamedDone ==
    ASSUME NEW w, NEW t, NEW C, NEW D, Good(w, t, C, D), Agree(C, D), NEW e \in w.tb.queue, NEW f \in EntryType,
           Core(f) \in C, Named(f) = Named(e), f.carries \subseteq D
    PROVE  e.carries \subseteq D
<1>1. (e \in EntryType) /\ (Core(e) \in C)
  BY DEF Good, PageGood, WorldType, PageType
<1>2. (e.key = f.key) /\ (e.at = f.at) /\ (e.at <= f.at)
  BY <1>1 DEF Named, EntryType
<1>3. Core(e).carries \subseteq Core(f).carries \cup D
  BY <1>1, <1>2, CoreFields DEF Agree
<1> QED BY <1>1, <1>3, CoreFields

LEMMA DiscardStays ==
    ASSUME NEW t \in Tabs, OutboxInv, DiscardHeldWrite(t)
    PROVE  OutboxInv'
<1> DEFINE Left(e) == Dequeue(World(t), {Named(e)})
           Flying(e) == IF Named(e) \in InFlight(tab[t]) THEN {Named(e)} ELSE {}
           Given(e) == [Left(e) EXCEPT !.tb.discarded = @ \cup Flying(e)]
           Then(e) == RerunFlushSoon(Persist(Given(e)))
<1>1. PICK e \in tab[t].queue :
        /\ Do(t, IF Then(e).tb.queue = {} THEN Then(e) ELSE FlushNow(Then(e)))
        /\ gone' = gone \cup (e.carries \ met)
  BY DEF DiscardHeldWrite
<1>2. Still /\ (Done \subseteq Done') /\ tab[t].open /\ (e.carries \subseteq Done')
  BY <1>1 DEF DiscardHeldWrite, Still, Done, OutboxInv, Typed
<1>3. /\ Good(World(t), t, Cores, Done') /\ Agree(Cores, Done') /\ (refusing \in BOOLEAN)
      /\ World(t).tb = tab[t] /\ World(t) \in WorldType
  BY <1>2, WorldGood, WorldIs DEF OutboxInv, Typed
<1>4. (e \in World(t).tb.queue) /\ (e \in EntryType) /\ (Core(e) \in Cores)
  BY <1>1, <1>3 DEF WorldType, PageType, Good, PageGood
<1>5. Fine(World(t), Left(e), t, Cores, Done')
  <2>1. \A f \in World(t).tb.queue : Named(f) \in {Named(e)} => f.carries \subseteq Done'
    BY <1>2, <1>3, <1>4, NamedDone
  <2> QED BY <1>3, <2>1, DequeueGood DEF Fine
<1>6. (Left(e) \in WorldType) /\ (Flying(e) \subseteq Names)
  BY <1>4, <1>5, NamedType DEF Fine, Good, PageGood
<1> HIDE DEF Left, Flying
<1>7. Quietly(Left(e), Given(e))
  BY <1>6 DEF Quietly, WorldType, PageType
<1> HIDE DEF Given
<1>8. Fine(World(t), Given(e), t, Cores, Done')
  BY <1>5, <1>7, FineQuietly
<1>9. Fine(World(t), Persist(Given(e)), t, Cores, Done')
  <2>1. Fine(Given(e), Persist(Given(e)), t, Cores, Done')
    BY <1>3, <1>8, PersistGood DEF Fine
  <2> QED BY <1>8, <2>1, FineTwice
<1>10. Fine(World(t), Then(e), t, Cores, Done')
  <2>1. Fine(Persist(Given(e)), Then(e), t, Cores, Done')
    BY <1>3, <1>9, RerunGood DEF Fine
  <2> HIDE DEF Then
  <2> QED BY <1>9, <2>1, FineTwice
<1> HIDE DEF Then
<1>11. Fine(World(t), FlushNow(Then(e)), t, Cores, Done')
  <2>1. Fine(Then(e), FlushNow(Then(e)), t, Cores, Done')
    BY <1>3, <1>10, FlushNowGood DEF Fine
  <2> QED BY <1>10, <2>1, FineTwice
<1> QED BY <1>1, <1>2, <1>10, <1>11, FineMoves

LEMMA ResumeStays ==
    ASSUME NEW t \in Tabs, OutboxInv, ResumeAfterAuth(t)
    PROVE  OutboxInv'
<1> DEFINE stale == {e.pw : e \in {f \in tab[t].queue : f.authBlocked /\ f.pw # 0}}
           resumed == \E e \in tab[t].queue : e.authBlocked
           Freed(e) == IF e.authBlocked \/ e.pw \in stale
                       THEN [e EXCEPT !.authBlocked = FALSE, !.pw = pw, !.attempts = 0] ELSE e
           q == {Freed(e) : e \in tab[t].queue}
           v == [World(t) EXCEPT !.tb.queue = q, !.tb.pw = pw]
<1>1. Do(t, IF resumed THEN FlushNow(Persist(v)) ELSE v) /\ tab[t].open
  BY DEF ResumeAfterAuth
<1>2. Still /\ (Done \subseteq Done') /\ (pw \in Nat)
  BY DEF ResumeAfterAuth, Still, Done, OutboxInv, Typed
<1>3. /\ Good(World(t), t, Cores, Done') /\ Agree(Cores, Done') /\ (refusing \in BOOLEAN)
      /\ World(t).tb = tab[t] /\ World(t) \in WorldType
  BY <1>2, WorldGood, WorldIs DEF OutboxInv, Typed
<1>4. SameCores(tab[t].queue, q)
  <2>1. \A e \in tab[t].queue : (Freed(e) \in EntryType) /\ Core(Freed(e)) = Core(e)
    <3>1. tab[t].queue \subseteq EntryType
      BY <1>3 DEF WorldType, PageType
    <3> HIDE DEF stale
    <3> QED BY <1>2, <3>1 DEF EntryType, Core
  <2> HIDE DEF Freed
  <2> QED BY <2>1 DEF SameCores
<1>5. q \in SUBSET EntryType
  BY <1>4 DEF SameCores
<1> HIDE DEF q, resumed
<1>6. /\ v \in WorldType /\ v.tb.queue = q /\ v.tb.settled = tab[t].settled /\ v.tb.turns = tab[t].turns
      /\ v.tb.open = tab[t].open /\ v.tb.adopted = tab[t].adopted
      /\ v.stored = World(t).stored /\ v.news = World(t).news
  BY <1>2, <1>3, <1>5 DEF WorldType, PageType
<1> HIDE DEF v
<1>7. Fine(World(t), v, t, Cores, Done')
  BY <1>3, <1>4, <1>6, RemarkGood
<1>8. Fine(World(t), Persist(v), t, Cores, Done')
  <2>1. Fine(v, Persist(v), t, Cores, Done')
    BY <1>3, <1>7, PersistGood DEF Fine
  <2> QED BY <1>7, <2>1, FineTwice
<1>9. Fine(World(t), FlushNow(Persist(v)), t, Cores, Done')
  <2>1. Fine(Persist(v), FlushNow(Persist(v)), t, Cores, Done')
    BY <1>3, <1>8, FlushNowGood DEF Fine
  <2> QED BY <1>8, <2>1, FineTwice
<1> QED BY <1>1, <1>2, <1>7, <1>9, FineMoves

LEMMA ParkedCores ==
    ASSUME NEW q \in SUBSET EntryType
    PROVE  SameCores(q, {Parked(e) : e \in q})
<1>1. \A e \in q : (Parked(e) \in EntryType) /\ Core(Parked(e)) = Core(e)
  BY DEF Parked, EntryType, Core
<1> QED BY <1>1 DEF SameCores

LEMMA ParkStays ==
    ASSUME NEW t \in Tabs, OutboxInv, ParkQueueForReauth(t)
    PROVE  OutboxInv'
<1> DEFINE q == {Parked(e) : e \in tab[t].queue}
           h == {Parked(e) : e \in stored.has}
           c == tab[t].pass
           v == [World(t) EXCEPT !.tb.queue = q, !.tb.pw = 0, !.tb.timer = FALSE, !.tb.cut = c]
           s == [stored EXCEPT !.has = h]
           x == IF refusing THEN v ELSE Store(v, s)
<1>1. Do(t, IF q = {} THEN x ELSE Persist(x)) /\ tab[t].open
  BY DEF ParkQueueForReauth
<1>2. Still /\ (Done \subseteq Done')
  BY DEF ParkQueueForReauth, Still, Done, OutboxInv, Typed
<1>3. /\ Good(World(t), t, Cores, Done') /\ Agree(Cores, Done') /\ (refusing \in BOOLEAN)
      /\ World(t).tb = tab[t] /\ World(t).stored = stored /\ World(t) \in WorldType
  BY <1>2, WorldGood, WorldIs DEF OutboxInv, Typed
<1>4. SameCores(tab[t].queue, q) /\ SameCores(stored.has, h) /\ c \in BOOLEAN
  BY <1>3, ParkedCores DEF WorldType, PageType, CopyType
<1>5. q \in SUBSET EntryType
  BY <1>4 DEF SameCores
<1> HIDE DEF q, h, c
<1>6. /\ v \in WorldType /\ v.tb.queue = q /\ v.tb.settled = tab[t].settled /\ v.tb.turns = tab[t].turns
      /\ v.tb.open = tab[t].open /\ v.tb.adopted = tab[t].adopted
      /\ v.stored = stored /\ v.news = World(t).news
  BY <1>3, <1>4, <1>5 DEF WorldType, PageType
<1> HIDE DEF v
<1>7. Fine(World(t), v, t, Cores, Done')
  BY <1>3, <1>4, <1>6, RemarkGood
<1>8. Fine(World(t), x, t, Cores, Done')
  <2>1. Fine(v, Store(v, [v.stored EXCEPT !.has = h]), t, Cores, Done')
    BY <1>4, <1>6, <1>7, ScrubGood DEF Fine
  <2>2. x \in {v, Store(v, [v.stored EXCEPT !.has = h])}
    BY <1>6
  <2> HIDE DEF x
  <2> QED BY <1>7, <2>1, <2>2, FineTwice
<1> HIDE DEF x
<1>9. Fine(World(t), Persist(x), t, Cores, Done')
  <2>1. Fine(x, Persist(x), t, Cores, Done')
    BY <1>3, <1>8, PersistGood DEF Fine
  <2> QED BY <1>8, <2>1, FineTwice
<1> QED BY <1>1, <1>2, <1>8, <1>9, FineMoves

LEMMA ServerStays ==
    ASSUME NEW t \in Tabs, OutboxInv, ServerAnswers(t)
    PROVE  OutboxInv'
<1>1. PICK u \in tab[t].turns, answer \in {"ok", "no", "err", "auth"} :
        /\ u.phase = "sent"
        /\ tab' = [tab EXCEPT ![t].turns = (@ \ {u}) \cup {[u EXCEPT !.phase = answer]}]
        /\ met' = IF answer = "ok" \/ (answer = "no" /\ ~IsTaps(u)) THEN met \cup CarriedBy(u.sent) ELSE met
  BY DEF ServerAnswers
<1> DEFINE x == [u EXCEPT !.phase = answer]
           turns == (tab[t].turns \ {u}) \cup {x}
           v == [World(t) EXCEPT !.tb.turns = turns]
<1>2. Still /\ (Done \subseteq Done')
  BY <1>1 DEF ServerAnswers, Still, Done, OutboxInv, Typed
<1>3. /\ Good(World(t), t, Cores, Done') /\ World(t).tb = tab[t] /\ World(t).stored = stored
      /\ World(t).news = <<>> /\ World(t) \in WorldType
  BY <1>2, WorldGood, WorldIs DEF OutboxInv, Typed
<1>4. (u \in tab[t].turns) /\ (u \in TurnType) /\ (answer \in Out)
  BY <1>1, <1>3 DEF WorldType, PageType, Out
<1>5. (x \in TurnType) /\ (x.phase = answer) /\ (x.sent = u.sent)
  BY <1>4 DEF TurnType, Phases, Out
<1>6. Counts(x) => CarriedBy(x.sent) \subseteq Done'
  <2>1. IsTaps(x) <=> IsTaps(u)
    BY <1>5 DEF IsTaps
  <2> QED BY <1>1, <1>5, <2>1 DEF Counts, Done
<1>7. OneOrTaps(x)
  <2>1. OneOrTaps(u)
    BY <1>3, <1>4 DEF Good, PageGood, Answered
  <2> QED BY <1>5, <2>1 DEF OneOrTaps, IsTaps
<1>8. turns \subseteq TurnType /\ \A y \in turns : y \in tab[t].turns \/ y = x
  BY <1>3, <1>5 DEF WorldType, PageType
<1>9. tab' = [tab EXCEPT ![t] = [tab[t] EXCEPT !.turns = turns]]
  BY <1>1
<1> HIDE DEF x, turns
<1>10. /\ v \in WorldType /\ v.tb = [tab[t] EXCEPT !.turns = turns] /\ v.tb.turns = turns
       /\ v.tb.queue = tab[t].queue /\ v.tb.settled = tab[t].settled
       /\ v.tb.open = tab[t].open /\ v.tb.adopted = tab[t].adopted
       /\ v.stored = stored /\ v.news = <<>>
  BY <1>3, <1>8 DEF WorldType, PageType
<1> HIDE DEF v
<1>11. \A e \in Sent(v.tb) : e \in Sent(tab[t])
  BY <1>4, <1>5, <1>8, <1>10 DEF Sent
<1>12. Good(v, t, Cores, Done')
  <2>1. \A e \in v.tb.queue \cup Sent(v.tb) \cup v.stored.has : Core(e) \in Cores
    BY <1>3, <1>10, <1>11 DEF Good, PageGood
  <2>2. Answered(v.tb, Done')
    <3>1. Answered(tab[t], Done')
      BY <1>3 DEF Good, PageGood
    <3> QED BY <1>4, <1>5, <1>6, <1>7, <1>8, <1>10, <3>1 DEF Answered
  <2>3. SettledDone(v.tb.settled, Cores, Done')
    BY <1>3, <1>10 DEF Good, PageGood
  <2>4. Away(v.tb, t, Done' \cup CarriedBy(v.stored.has)) /\ Adopted(v.tb, Done' \cup CarriedBy(v.stored.has))
    BY <1>3, <1>10, <1>11 DEF Good, PageGood, Away, Adopted
  <2>5. DOMAIN v.news = {}
    BY <1>10
  <2>6. ~v.stored.there => v.stored.has = {}
    BY <1>3, <1>10 DEF Good, PageGood
  <2> QED BY <1>10, <2>1, <2>2, <2>3, <2>4, <2>5, <2>6 DEF Good, PageGood
<1>13. Fine(World(t), v, t, Cores, Done')
  BY <1>3, <1>10, <1>12 DEF Fine, Onward, Labels
<1>14. Do(t, v)
  <2>1. tab' = [tab EXCEPT ![t] = v.tb]
    BY <1>9, <1>10
  <2>2. stored' = v.stored /\ events' = events
    BY <1>10 DEF ServerAnswers
  <2>3. \A u2 \in Tabs : (IF u2 # t /\ tab[u2].open THEN events[u2] \o v.news ELSE events[u2]) = events[u2]
    <3>1. \A u2 \in Tabs : events[u2] \in Seq(EventType)
      BY DEF OutboxInv, Typed
    <3>2. \A s \in Seq(EventType) : s \o <<>> = s
      OBVIOUS
    <3> QED BY <1>10, <3>1, <3>2
  <2>4. events = [u2 \in Tabs |-> events[u2]]
    BY DEF OutboxInv, Typed
  <2>5. events' = [u2 \in Tabs |-> IF u2 # t /\ tab[u2].open THEN events[u2] \o v.news ELSE events[u2]]
    BY <2>2, <2>3, <2>4
  <2> QED BY <2>1, <2>2, <2>5 DEF Do
<1>15. tab[t].open
  BY <1>4 DEF OutboxInv, Shut
<1> QED BY <1>2, <1>13, <1>14, <1>15, FineMoves

\* A sign-out: what the page and storage held is given up.
LEMMA ClearStays ==
    ASSUME NEW t \in Tabs, OutboxInv, ClearQueue(t)
    PROVE  OutboxInv'
<1> DEFINE c == tab[t].pass
           v == [World(t) EXCEPT !.tb.queue = {}, !.tb.settled = {}, !.tb.here = {}, !.tb.left = FALSE,
                                 !.tb.timer = FALSE, !.tb.cut = c, !.tb.pw = 0]
           s == [there |-> FALSE, has |-> {}]
           w == Store(v, s)
           ev == [old |-> stored, new |-> s]
<1>1. Do(t, w) /\ tab[t].open /\ gone' = gone \cup (CarriedBy(tab[t].queue \cup stored.has) \ met) /\ met' = met
  BY DEF ClearQueue
<1>2. Still /\ (Done \subseteq Done') /\ (CarriedBy(tab[t].queue) \subseteq Done') /\ (CarriedBy(stored.has) \subseteq Done')
  BY <1>1 DEF ClearQueue, Still, Done, OutboxInv, Typed, CarriedBy
<1>3. Safe \subseteq Done'
  BY <1>2 DEF Safe
<1>4. /\ Good(World(t), t, Cores, Done') /\ World(t).tb = tab[t] /\ World(t).stored = stored
      /\ World(t).news = <<>> /\ World(t) \in WorldType /\ c \in BOOLEAN
  BY <1>2, WorldGood, WorldIs DEF OutboxInv, Typed, PageType
<1>5. (s \in CopyType) /\ (stored \in CopyType) /\ CarriedBy(s.has) = {}
  BY <1>4 DEF CopyType, CarriedBy, WorldType
<1>6. ev \in EventType /\ ev.old = stored /\ ev.new = s
  BY <1>5 DEF EventType
<1> HIDE DEF c, ev
<1>7. /\ v \in WorldType /\ v.tb.queue = {} /\ v.tb.settled = {} /\ v.tb.turns = tab[t].turns
      /\ v.tb.open = tab[t].open /\ v.tb.adopted = tab[t].adopted
      /\ v.stored = stored /\ v.news = <<>>
  <2> DEFINE z == [tab[t] EXCEPT !.queue = {}, !.settled = {}, !.here = {}, !.left = FALSE,
                                 !.timer = FALSE, !.cut = c, !.pw = 0]
  <2>1. /\ z \in PageType /\ z.queue = {} /\ z.settled = {} /\ z.turns = tab[t].turns
        /\ z.open = tab[t].open /\ z.adopted = tab[t].adopted
    <3>1. tab[t] \in PageType
      BY <1>4 DEF WorldType
    <3> QED BY <1>4, <3>1 DEF PageType
  <2>2. v = [World(t) EXCEPT !.tb = z]
    <3> USE <1>4 DEF WorldType
    <3> QED OBVIOUS
  <2> HIDE DEF z
  <2> QED BY <1>4, <2>1, <2>2, ZenonT(30) DEF WorldType
<1>8. w = IF s = stored THEN v ELSE [v EXCEPT !.stored = s, !.news = Append(@, ev)]
  <2>1. v.stored = stored
    BY <1>7
  <2> HIDE DEF v, s
  <2> QED BY <2>1 DEF Store, ev
<1> HIDE DEF v, s, w
<1>9. /\ w \in WorldType /\ w.tb = v.tb /\ w.stored = s
      /\ w.news = <<>> \/ w.news = <<ev>>
  <2>1. Append(<<>>, ev) = <<ev>> /\ <<ev>> \in Seq(EventType)
    BY <1>6
  <2> QED BY <1>5, <1>7, <1>8, <2>1 DEF WorldType
<1>10. \A j \in DOMAIN w.news : w.news[j] = ev
  BY <1>9
<1>11. Told(ev, Cores, Done', Done' \cup CarriedBy(w.stored.has))
  <2>1. \A e \in stored.has : Core(e) \in Cores /\ e.carries \subseteq Done'
    BY <1>2, <1>4 DEF Good, PageGood, CarriedBy
  <2>2. s.has = {}
    BY DEF s
  <2> QED BY <1>6, <2>1, <2>2 DEF Told
<1>12. PageGood(w, t, Cores, Done')
  <2>1. s.has = {}
    BY DEF s
  <2>2. \A e \in w.tb.queue \cup Sent(w.tb) \cup w.stored.has : Core(e) \in Cores
    BY <1>4, <1>7, <1>9, <2>1 DEF Good, PageGood, Sent
  <2>3. SettledDone(w.tb.settled, Cores, Done') /\ Answered(w.tb, Done')
    BY <1>4, <1>7, <1>9 DEF Good, PageGood, SettledDone, Answered
  <2>4. Away(w.tb, t, Done' \cup CarriedBy(w.stored.has))
    <3>1. Away(tab[t], t, Done' \cup CarriedBy(stored.has))
      BY <1>4 DEF Good, PageGood
    <3> QED BY <1>2, <1>7, <1>9, <3>1 DEF Away, Sent
  <2>5. Adopted(w.tb, Done' \cup CarriedBy(w.stored.has))
    BY <1>7, <1>9 DEF Adopted
  <2> QED BY <1>9, <2>1, <2>2, <2>3, <2>4, <2>5 DEF PageGood
<1>13. MailOf(events[t], w.tb, Cores, Done', Done' \cup CarriedBy(w.stored.has))
  <2>1. MailOf(events[t], tab[t], Cores, Done, Safe)
    BY DEF OutboxInv, Mail
  <2>2. Adopted(w.tb, Done')
    BY <1>7, <1>9 DEF Adopted
  <2>3. Safe \subseteq Done' \cup CarriedBy(w.stored.has)
    BY <1>3
  <2> HIDE DEF Done, Safe
  <2> QED BY <1>2, <2>1, <2>2, <2>3, MailOn
<1>14. Moved(t, w, events[t]) /\ (events[t] \in Seq(EventType)) /\ w.tb.open
  BY <1>1, <1>7, <1>9, DoMoves DEF OutboxInv, Typed
<1>15. Dated(w.tb, clock)
  BY <1>7, <1>9, DatedOnward
<1>16. \A j \in DOMAIN w.news :
          /\ Told(w.news[j], Cores, Done', Done' \cup CarriedBy(w.stored.has))
          /\ w.news[j].new.there \/ CarriedBy(w.stored.has) \subseteq Done'
  BY <1>5, <1>9, <1>10, <1>11
<1>17. PageMoves(t, w, Cores, events[t])
  BY <1>1, <1>2, <1>12, <1>13, <1>14, <1>15, <1>16, TaskMoves
<1> QED BY <1>17, MovesInv

\* What a page that is closed made is done or in storage, wherever it is known.
LEMMA MadeByClosed ==
    ASSUME NEW t \in Tabs, OutboxInv, ~tab[t].open, NEW c \in Cores, c.by = t
    PROVE  c.carries \subseteq Safe
<1>1. PICK e \in Known : c = Core(e)
  BY DEF Cores
<1>2. (c.by = e.by) /\ (c.carries = e.carries)
  BY <1>1 DEF Core
<1>3. CASE \E u \in Tabs : e \in tab[u].queue \cup Sent(tab[u])
  <2>1. PICK u \in Tabs : e \in tab[u].queue \cup Sent(tab[u])
    BY <1>3
  <2>2. u # t
    BY <2>1 DEF OutboxInv, Shut, Sent
  <2>3. Good(World(u), u, Cores, Done)
    BY <2>1 DEF OutboxInv, Pages
  <2>4. Away(tab[u], u, Done \cup CarriedBy(stored.has))
    BY <2>1, <2>3, WorldIs DEF Good, PageGood
  <2> QED BY <1>2, <2>1, <2>2, <2>4 DEF Away, Safe
<1>4. CASE \E u \in Tabs : e \in Heard(events[u])
  <2>1. PICK u \in Tabs : e \in Heard(events[u])
    BY <1>4
  <2>2. PICK i \in DOMAIN events[u] : e \in events[u][i].old.has \cup events[u][i].new.has
    BY <2>1 DEF Heard
  <2>3. MailOf(events[u], tab[u], Cores, Done, Safe)
    BY <2>1 DEF OutboxInv, Mail
  <2> QED BY <1>2, <2>2, <2>3 DEF MailOf, Told
<1>5. CASE e \in stored.has
  BY <1>2, <1>5 DEF Safe, CarriedBy
<1>6. \/ \E u \in Tabs : e \in tab[u].queue \cup Sent(tab[u])
      \/ \E u \in Tabs : e \in Heard(events[u])
      \/ e \in stored.has
  BY <1>1, KnownSomewhere DEF Somewhere
<1> QED BY <1>3, <1>4, <1>5, <1>6

LEMMA OpenStays ==
    ASSUME NEW t \in Tabs, OutboxInv, Open(t)
    PROVE  OutboxInv'
<1> DEFINE z == Fresh(stored.has, tab[t].pw)
           v == [World(t) EXCEPT !.tb = z]
           w == IF stored.has = {} THEN v ELSE FlushQueue(v)
<1>1. Do(t, w) /\ ~tab[t].open /\ t \in shape.tabs
  BY DEF Open
<1>2. Still /\ (Done \subseteq Done') /\ (Done' = Done)
  BY DEF Open, Still, Done, OutboxInv, Typed
<1>3. /\ Good(World(t), t, Cores, Done') /\ Agree(Cores, Done') /\ World(t).tb = tab[t] /\ World(t).stored = stored
      /\ World(t).news = <<>> /\ World(t) \in WorldType /\ refusing \in BOOLEAN
  BY <1>2, WorldGood, WorldIs DEF OutboxInv, Typed
<1>4. (z \in PageType) /\ (z.open) /\ (z.queue = stored.has) /\ (z.settled = {}) /\ (z.adopted = {}) /\ (z.turns = {})
  BY <1>3 DEF Fresh, PageType, WorldType, CopyType
<1> HIDE DEF z
<1>5. (v \in WorldType) /\ (v.tb = z) /\ (v.stored = stored) /\ (v.news = <<>>)
  BY <1>3, <1>4 DEF WorldType
<1> HIDE DEF v
<1>6. \A e \in stored.has : (e.carries \subseteq CarriedBy(stored.has)) /\ Core(e) \in Cores
  BY <1>3 DEF CarriedBy, Good, PageGood
<1>7. Sent(z) = {}
  BY <1>4 DEF Sent
<1>8. Good(v, t, Cores, Done')
  <2>1. \A e \in v.tb.queue \cup Sent(v.tb) \cup v.stored.has : Core(e) \in Cores
    BY <1>4, <1>5, <1>6, <1>7
  <2>2. Answered(v.tb, Done') /\ SettledDone(v.tb.settled, Cores, Done')
    BY <1>4, <1>5 DEF Answered, SettledDone
  <2>3. Away(v.tb, t, Done' \cup CarriedBy(v.stored.has)) /\ Adopted(v.tb, Done' \cup CarriedBy(v.stored.has))
    BY <1>4, <1>5, <1>6, <1>7 DEF Away, Adopted
  <2>4. DOMAIN v.news = {}
    BY <1>5
  <2>5. ~v.stored.there => v.stored.has = {}
    BY <1>3, <1>5 DEF Good, PageGood
  <2> QED BY <1>5, <2>1, <2>2, <2>3, <2>4, <2>5 DEF Good, PageGood
<1>9. Fine(v, w, t, Cores, Done')
  BY <1>3, <1>8, FlushQueueGood, FineSelf
<1> HIDE DEF w
<1>10. /\ w.tb.open /\ w.tb.adopted = {} /\ w.tb.settled \subseteq Labels(z)
       /\ CarriedBy(stored.has) \subseteq CarriedBy(w.stored.has) \cup Done'
       /\ CarriedBy(stored.has) \subseteq CarriedBy(w.tb.queue) \cup Done'
  BY <1>4, <1>5, <1>9 DEF Fine, Onward
<1>11. (events[t] = <<>>) /\ (tab[t].queue = {}) /\ Moved(t, w, events[t])
  BY <1>1, DoMoves DEF OutboxInv, Shut
<1>12. Dated(w.tb, clock)
  <2>1. \A p \in Labels(z) : p[2] <= clock
    <3>1. \A e \in stored.has : (Core(e) \in Cores) /\ (e \in EntryType)
      BY <1>3, <1>6 DEF WorldType, CopyType
    <3>2. Past(Cores, clock)
      BY DEF OutboxInv, Histories
    <3> QED BY <1>4, <3>1, <3>2, CoreFields DEF Labels, Named, Past
  <2> QED BY <1>10, <2>1 DEF Dated
<1>13. \A c \in Cores : c.by = t => c.carries \subseteq Done' \cup CarriedBy(w.tb.queue)
  <2>1. \A c \in Cores : c.by = t => c.carries \subseteq Safe
    BY <1>1, MadeByClosed
  <2> QED BY <1>2, <1>10, <2>1 DEF Safe
<1>14. MailOf(events[t], w.tb, Cores, Done', Done' \cup CarriedBy(w.stored.has))
  BY <1>11 DEF MailOf
<1>15. PageGood(w, t, Cores, Done')
  BY <1>9 DEF Fine, Good
<1>16. \A j \in DOMAIN w.news :
          /\ Told(w.news[j], Cores, Done', Done' \cup CarriedBy(w.stored.has))
          /\ w.news[j].new.there \/ CarriedBy(w.stored.has) \subseteq Done'
  BY <1>9 DEF Fine, Good
<1>17. CarriedBy(tab[t].queue) \subseteq CarriedBy(w.tb.queue) \cup Done'
  BY <1>11 DEF CarriedBy
<1>18. events[t] \in Seq(EventType)
  BY DEF OutboxInv, Typed
<1>19. PageMoves(t, w, Cores, events[t])
  BY <1>1, <1>2, <1>10, <1>11, <1>12, <1>13, <1>14, <1>15, <1>16, <1>17, <1>18, TaskMoves
<1> QED BY <1>19, MovesInv

\* The password and the state of storage say nothing of what is kept where.
LEMMA AsideStays ==
    ASSUME OutboxInv, UNCHANGED <<shape, clock, tab, stored, events, met, gone, unsaved>>,
           refusing' \in BOOLEAN, pw' \in Nat
    PROVE  OutboxInv'
<1>1. (Done' = Done) /\ (Safe' = Safe) /\ (Known' = Known)
  BY DEF Done, Safe, Known
<1>2. (Cores' = Cores)
  BY <1>1 DEF Cores
<1>3. Typed'
  BY DEF OutboxInv, Typed
<1>4. Histories(Cores, Done, clock)'
  BY <1>1, <1>2 DEF OutboxInv, Histories, Agree, OneKey, Past, MadeBy
<1>5. Pages'
  <2>1. ASSUME NEW t \in Tabs PROVE Good(World(t)', t, Cores', Done')
    <3>1. World(t)' = World(t)
      BY DEF World
    <3> QED BY <1>1, <1>2, <3>1 DEF OutboxInv, Pages
  <2> QED BY <2>1 DEF Pages
<1>6. Mail' /\ Homes'
  BY <1>1, <1>2 DEF OutboxInv, Mail, Homes
<1>7. Saved' /\ Shut' /\ AllDated'
  BY <1>1 DEF OutboxInv, Saved, Shut, AllDated
<1>8. NothingLost'
  BY <1>1 DEF OutboxInv, NothingLost, Kept
<1> QED BY <1>3, <1>4, <1>5, <1>6, <1>7, <1>8 DEF OutboxInv

\* A page goes away: what no operator was told is not stored is in storage.
LEMMA CloseStays ==
    ASSUME NEW t \in Tabs, OutboxInv, Close(t)
    PROVE  OutboxInv'
<1> DEFINE z == [Fresh({}, tab[t].pw) EXCEPT !.open = FALSE]
           w == [World(t) EXCEPT !.tb = z]
           others == UNION {tab[u].queue : u \in {v \in Tabs \ {t} : tab[v].open}}
<1>1. /\ tab' = [tab EXCEPT ![t] = z] /\ events' = [events EXCEPT ![t] = <<>>] /\ stored' = stored
      /\ gone' = gone \cup ((unsaved \cap CarriedBy(tab[t].queue)) \ (met \cup CarriedBy(stored.has \cup others)))
      /\ met' = met /\ unsaved' = unsaved /\ clock' = clock /\ shape' = shape /\ pw' = pw /\ refusing' = refusing
  BY DEF Close
<1>2. (Done \subseteq Done')
  BY <1>1 DEF Done
<1>3. /\ Good(World(t), t, Cores, Done') /\ Agree(Cores, Done') /\ World(t).tb = tab[t] /\ World(t).stored = stored
      /\ World(t).news = <<>> /\ World(t) \in WorldType /\ refusing \in BOOLEAN
  BY <1>2, WorldGood, WorldIs DEF OutboxInv, Typed
<1>4. (z \in PageType) /\ (~z.open) /\ (z.queue = {}) /\ (z.settled = {}) /\ (z.adopted = {}) /\ (z.turns = {})
  BY <1>3 DEF Fresh, PageType, WorldType
<1> HIDE DEF z
<1>5. (w \in WorldType) /\ (w.tb = z) /\ (w.stored = stored) /\ (w.news = <<>>)
  BY <1>3, <1>4 DEF WorldType
<1> HIDE DEF w
<1>6. PageGood(w, t, Cores, Done')
  <2>1. Sent(z) = {}
    BY <1>4 DEF Sent
  <2>2. \A e \in w.tb.queue \cup Sent(w.tb) \cup w.stored.has : Core(e) \in Cores
    BY <1>3, <1>4, <1>5, <2>1 DEF Good, PageGood
  <2>3. Answered(w.tb, Done') /\ SettledDone(w.tb.settled, Cores, Done')
    BY <1>4, <1>5 DEF Answered, SettledDone
  <2>4. Away(w.tb, t, Done' \cup CarriedBy(w.stored.has)) /\ Adopted(w.tb, Done' \cup CarriedBy(w.stored.has))
    BY <1>4, <1>5, <2>1 DEF Away, Adopted
  <2>5. ~w.stored.there => w.stored.has = {}
    BY <1>3, <1>5 DEF Good, PageGood
  <2> QED BY <1>5, <2>2, <2>3, <2>4, <2>5 DEF PageGood
<1>7. events' = [u \in Tabs |-> IF u = t THEN <<>> ELSE IF tab[u].open THEN events[u] \o w.news ELSE events[u]]
  <2>1. events \in [Tabs -> Seq(EventType)]
    BY DEF OutboxInv, Typed
  <2>2. \A s \in Seq(EventType) : s \o <<>> = s
    OBVIOUS
  <2>3. \A u \in Tabs : (IF u = t THEN <<>> ELSE events[u])
                      = (IF u = t THEN <<>> ELSE IF tab[u].open THEN events[u] \o w.news ELSE events[u])
    BY <1>5, <2>1, <2>2
  <2>4. events' = [u \in Tabs |-> IF u = t THEN <<>> ELSE events[u]]
    BY <1>1, <2>1
  <2> QED BY <2>3, <2>4
<1>8. NothingLost'
  <2>1. \A u \in Tabs : tab'[u] = IF u = t THEN z ELSE tab[u]
    BY <1>1 DEF OutboxInv, Typed
  <2> SUFFICES ASSUME NEW n \in 1 .. clock PROVE Kept(n)'
    BY <1>1 DEF NothingLost
  <2>2. CASE n \in Done
    BY <1>2, <2>2 DEF Kept, Done
  <2>3. CASE n \in CarriedBy(stored.has)
    BY <1>1, <2>3 DEF Kept
  <2>4. CASE \E u \in Tabs \ {t} : tab[u].open /\ n \in CarriedBy(tab[u].queue)
    <3>1. PICK u \in Tabs \ {t} : tab[u].open /\ n \in CarriedBy(tab[u].queue)
      BY <2>4
    <3> QED BY <2>1, <3>1 DEF Kept
  <2>5. CASE n \in CarriedBy(tab[t].queue)
    <3>1. CASE n \notin unsaved
      <4>1. n \in Safe
        BY <3>1 DEF OutboxInv, Saved
      <4> QED BY <2>2, <2>3, <4>1 DEF Safe
    <3>2. CASE n \in unsaved
      <4>1. n \in gone' \/ n \in met \/ n \in CarriedBy(stored.has \cup others)
        BY <1>1, <2>5, <3>2
      <4>2. CASE n \in CarriedBy(others)
        <5>1. PICK e \in others : n \in e.carries
          BY <4>2 DEF CarriedBy
        <5>2. PICK u \in Tabs \ {t} : tab[u].open /\ e \in tab[u].queue
          BY <5>1
        <5>3. n \in CarriedBy(tab[u].queue)
          BY <5>1, <5>2 DEF CarriedBy
        <5> QED BY <2>4, <5>2, <5>3
      <4>3. CASE n \in gone' \/ n \in met
        BY <1>1, <4>3 DEF Kept
      <4>4. CarriedBy(stored.has \cup others) = CarriedBy(stored.has) \cup CarriedBy(others)
        BY DEF CarriedBy
      <4> HIDE DEF others
      <4> QED BY <2>3, <4>1, <4>2, <4>3, <4>4
    <3> QED BY <3>1, <3>2
  <2>6. Kept(n)
    BY DEF OutboxInv, NothingLost
  <2> QED BY <2>2, <2>3, <2>4, <2>5, <2>6 DEF Kept, Done
<1>9. Histories(Cores, Done', clock')
  BY <1>1, <1>3 DEF OutboxInv, Histories
<1>10. \A u \in Tabs : SettledDone(tab[u].settled, Cores, Done')
  <2>1. ASSUME NEW u \in Tabs PROVE SettledDone(tab[u].settled, Cores, Done')
    BY <1>2, WorldGood, WorldIs DEF Good, PageGood
  <2> QED BY <2>1
<1>11. \A j \in DOMAIN w.news : FALSE
  BY <1>5
<1>12. (clock \in Nat) /\ (pw \in Nat)
  BY DEF OutboxInv, Typed
<1>13. Dated(w.tb, clock') /\ MailOf(<<>>, w.tb, Cores, Done', Done' \cup CarriedBy(w.stored.has))
  BY <1>4, <1>5 DEF Dated, MailOf
<1>14. (tab' = [tab EXCEPT ![t] = w.tb]) /\ (stored' = w.stored) /\ (<<>> \in Seq(EventType))
  BY <1>1, <1>5
<1>15. \A n \in 1 .. clock' :
          n \notin unsaved' => (n \in 1 .. clock /\ n \notin unsaved) \/ n \in Done' \cup CarriedBy(w.stored.has)
  BY <1>1
<1>16. /\ shape' = shape /\ clock' \in Nat /\ clock <= clock' /\ Done \subseteq Done'
       /\ refusing' \in BOOLEAN /\ pw' \in Nat
  BY <1>1, <1>2, <1>3, <1>12
<1>17. /\ ~w.tb.open /\ w.tb.queue = {} /\ w.tb.turns = {}
       /\ CarriedBy(stored.has) \subseteq Done' \cup CarriedBy(w.stored.has)
  BY <1>4, <1>5
<1> HIDE DEF Done
<1>18. PageMoves(t, w, Cores, <<>>)
  BY <1>6, <1>7, <1>8, <1>9, <1>10, <1>11, <1>13, <1>14, <1>15, <1>16, <1>17 DEF PageMoves
<1> QED BY <1>18, MovesInv

\* What an event takes out of a queue is done.
LEMMA LeftIsDone ==
    ASSUME NEW t \in Tabs, OutboxInv, events[t] # <<>>, NEW e \in tab[t].queue,
           IF ~Head(events[t]).new.there THEN Named(e) \in tab[t].adopted
           ELSE e.key \notin KeysOf(Head(events[t]).new.has) /\ \E f \in Head(events[t]).old.has : Named(f) = Named(e)
    PROVE  e.carries \subseteq Done
<1> DEFINE ev == Head(events[t])
<1>1. (events[t] \in Seq(EventType)) /\ (ev = events[t][1]) /\ (1 \in DOMAIN events[t])
  BY DEF OutboxInv, Typed
<1>2. (ev \in EventType) /\ Told(ev, Cores, Done, Safe) /\ (~ev.new.there => Adopted(tab[t], Done))
  <2>1. MailOf(events[t], tab[t], Cores, Done, Safe)
    BY DEF OutboxInv, Mail
  <2> HIDE DEF ev
  <2> QED BY <1>1, <2>1 DEF MailOf
<1>3. CASE ~ev.new.there
  BY <1>2, <1>3 DEF Adopted
<1>4. CASE ev.new.there
  <2>1. PICK f \in ev.old.has : Named(f) = Named(e)
    BY <1>4
  <2>2. (f \in EntryType) /\ (Core(f) \in Cores)
    BY <1>2, <2>1 DEF EventType, CopyType, Told
  <2>3. Good(World(t), t, Cores, Done) /\ Agree(Cores, Done) /\ (e \in World(t).tb.queue) /\ (e \in EntryType)
    BY WorldIs DEF OutboxInv, Pages, Histories, Typed, PageType
  <2>4. f.key \notin KeysOf(ev.new.has)
    BY <1>4, <2>1, <2>2, <2>3 DEF Named, EntryType
  <2>5. f.carries \subseteq Done
    BY <1>2, <2>1, <2>4 DEF Told
  <2> QED BY <2>1, <2>2, <2>3, <2>5, NamedDone
<1> QED BY <1>3, <1>4

\* What a page does with some entries storage has that its own queue has not,
\* or has older.
Taking(w, taken) ==
    [w EXCEPT !.tb.queue = {e \in w.tb.queue : e.key \notin KeysOf(taken)} \cup taken,
              !.tb.adopted = @ \cup {Named(d) : d \in taken}]

Takes(w, v, taken, D) ==
    /\ v.tb.open = w.tb.open /\ v.tb.settled = w.tb.settled /\ v.stored = w.stored /\ v.news = w.news
    /\ v.tb.adopted = w.tb.adopted \cup {Named(d) : d \in taken}
    /\ v.tb.queue = {e \in w.tb.queue : e.key \notin KeysOf(taken)} \cup taken
    /\ CarriedBy(w.tb.queue) \subseteq CarriedBy(v.tb.queue) \cup D
    /\ (Adopted(w.tb, D) /\ CarriedBy(taken) \subseteq D) => Adopted(v.tb, D)

LEMMA TakingGood ==
    ASSUME NEW w, NEW t, NEW C, NEW D, Good(w, t, C, D), Agree(C, D), NEW taken \in SUBSET EntryType,
           \A d \in taken : Core(d) \in C /\ d.carries \subseteq D \cup CarriedBy(w.stored.has),
           \A d \in taken : ~\E e \in w.tb.queue : e.key = d.key /\ d.at <= e.at
    PROVE  Good(Taking(w, taken), t, C, D) /\ Takes(w, Taking(w, taken), taken, D)
<1> DEFINE q == {e \in w.tb.queue : e.key \notin KeysOf(taken)} \cup taken
           a == w.tb.adopted \cup {Named(d) : d \in taken}
           v == [w EXCEPT !.tb.queue = q, !.tb.adopted = a]
           S == D \cup CarriedBy(w.stored.has)
<1>1. (w \in WorldType) /\ (w.tb.queue \in SUBSET EntryType) /\ (w.tb \in PageType)
  BY DEF Good, PageGood, WorldType, PageType
<1>2. Taking(w, taken) = v
  BY <1>1 DEF Taking, WorldType, PageType
<1>3. (q \subseteq EntryType) /\ (a \subseteq Names)
  BY <1>1, NamedType DEF PageType
<1>4. CarriedBy(w.tb.queue) \subseteq CarriedBy(q) \cup D
  <2>1. ASSUME NEW e \in w.tb.queue PROVE e.carries \subseteq CarriedBy(q) \cup D
    <3>1. CASE e \in q
      BY <3>1 DEF CarriedBy
    <3>2. CASE e \notin q
      <4>1. PICK d \in taken : d.key = e.key
        BY <3>2 DEF KeysOf
      <4>2. (e \in EntryType) /\ (d \in EntryType) /\ (Core(e) \in C) /\ (Core(d) \in C)
        BY <1>1, <4>1 DEF Good, PageGood
      <4>3. e.at <= d.at
        BY <4>1, <4>2 DEF EntryType
      <4>4. Core(e).carries \subseteq Core(d).carries \cup D
        BY <4>1, <4>2, <4>3, CoreFields DEF Agree
      <4>5. d.carries \subseteq CarriedBy(q)
        BY <4>1 DEF CarriedBy
      <4> QED BY <4>2, <4>4, <4>5, CoreFields
    <3> QED BY <3>1, <3>2
  <2> HIDE DEF q
  <2> QED BY <2>1 DEF CarriedBy
<1>5. \A e \in q : (e \in w.tb.queue /\ e.key \notin KeysOf(taken)) \/ e \in taken
  OBVIOUS
<1>6. \A e \in q : Named(e) \in a => (e \in w.tb.queue /\ Named(e) \in w.tb.adopted) \/ e \in taken
  <2>1. ASSUME NEW e \in w.tb.queue, e.key \notin KeysOf(taken), NEW d \in taken, Named(e) = Named(d) PROVE FALSE
    BY <1>1, <2>1 DEF Named, KeysOf, EntryType
  <2> QED BY <1>5, <2>1
<1>7. \A d \in taken : d.carries \subseteq CarriedBy(taken)
  BY DEF CarriedBy
<1> HIDE DEF q, a
<1>8. /\ v \in WorldType /\ v.tb.queue = q /\ v.tb.adopted = a /\ v.tb.settled = w.tb.settled
      /\ v.tb.turns = w.tb.turns /\ v.tb.open = w.tb.open /\ v.stored = w.stored /\ v.news = w.news
  BY <1>1, <1>3 DEF WorldType, PageType
<1> HIDE DEF v
<1>9. Good(v, t, C, D)
  <2>1. \A e \in v.tb.queue \cup Sent(v.tb) \cup v.stored.has : Core(e) \in C
    BY <1>5, <1>8 DEF Good, PageGood, Sent
  <2>2. Answered(v.tb, D) /\ SettledDone(v.tb.settled, C, D)
    BY <1>8 DEF Good, PageGood, Answered
  <2>3. Away(v.tb, t, S)
    BY <1>5, <1>8 DEF Good, PageGood, Away, Sent
  <2>4. Adopted(v.tb, S)
    BY <1>6, <1>8 DEF Good, PageGood, Adopted
  <2> QED BY <1>8, <2>1, <2>2, <2>3, <2>4 DEF Good, PageGood
<1>10. (Adopted(w.tb, D) /\ CarriedBy(taken) \subseteq D) => Adopted(v.tb, D)
  BY <1>6, <1>7, <1>8 DEF Adopted
<1>11. Takes(w, v, taken, D)
  BY <1>4, <1>8, <1>10 DEF Takes, q, a
<1> QED BY <1>2, <1>9, <1>11

\* The names the definition of HearStored gives its parts.
LeftBy(t, ev) ==
    {e \in tab[t].queue :
        IF ~ev.new.there THEN Named(e) \in tab[t].adopted
        ELSE /\ e.key \notin KeysOf(ev.new.has)
             /\ \E f \in ev.old.has : Named(f) = Named(e)
             /\ Named(e) \notin InFlight(tab[t])}
KeptBy(t, ev) == Dequeue(World(t), {Named(e) : e \in LeftBy(t, ev)})
TakenBy(t, ev) ==
    {d \in ev.new.has :
        /\ ~\E e \in KeptBy(t, ev).tb.queue : e.key = d.key /\ d.at <= e.at
        /\ d.key \in KeysOf(KeptBy(t, ev).tb.queue) \/ ~IsSettled(KeptBy(t, ev).tb.here, d)}
Rerun(t, ev) == RerunFlushSoon(Taking(KeptBy(t, ev), TakenBy(t, ev)))
After(t, ev) == IF TakenBy(t, ev) = {} THEN Rerun(t, ev) ELSE FlushNow(Rerun(t, ev))

LEMMA StoredMoves ==
    ASSUME NEW t \in Tabs, OnStoredQueueChanged(t)
    PROVE  Moved(t, After(t, Head(events[t])), Tail(events[t]))
<1> DEFINE ev == Head(events[t])
           Had(e) == \E f \in ev.old.has : Named(f) = Named(e)
           left == {e \in World(t).tb.queue :
                      IF ~ev.new.there THEN Named(e) \in World(t).tb.adopted
                      ELSE e.key \notin KeysOf(ev.new.has) /\ Had(e) /\ Named(e) \notin InFlight(World(t).tb)}
           kept == Dequeue(World(t), {Named(e) : e \in left})
           taken == {d \in ev.new.has :
                       /\ ~\E e \in kept.tb.queue : e.key = d.key /\ d.at <= e.at
                       /\ d.key \in KeysOf(kept.tb.queue) \/ ~IsSettled(kept.tb.here, d)}
           q == {e \in kept.tb.queue : e.key \notin KeysOf(taken)} \cup taken
           w == RerunFlushSoon([kept EXCEPT !.tb.queue = q, !.tb.adopted = @ \cup {Named(d) : d \in taken}])
           x == IF taken = {} THEN w ELSE FlushNow(w)
<1>0. x = HearStored(World(t), ev)
  BY DEF HearStored
<1>1. /\ tab' = [tab EXCEPT ![t] = x.tb]
      /\ stored' = x.stored
      /\ events' = [u \in Tabs |-> IF u = t THEN Tail(events[t])
                                   ELSE IF tab[u].open THEN events[u] \o x.news ELSE events[u]]
  <2> HIDE DEF x
  <2> QED BY <1>0 DEF OnStoredQueueChanged, Hear
<1>2. left = LeftBy(t, ev)
  BY DEF LeftBy, World
<1> HIDE DEF left
<1>3. kept = KeptBy(t, ev)
  BY <1>2 DEF KeptBy
<1> HIDE DEF kept
<1>4. taken = TakenBy(t, ev)
  BY <1>3 DEF TakenBy
<1> HIDE DEF taken
<1>5. w = Rerun(t, ev)
  BY <1>3, <1>4 DEF Rerun, Taking
<1> HIDE DEF w
<1>6. x = After(t, ev)
  BY <1>4, <1>5 DEF After
<1> HIDE DEF x, ev
<1>7. Moved(t, x, Tail(events[t]))
  BY <1>1 DEF Moved
<1>8. Moved(t, After(t, ev), Tail(events[t]))
  BY <1>6, <1>7
<1> QED BY <1>8, SMTT(30) DEF ev

\* What a page hears of is told it, for the queue it has by now.
LEMMA StoredTakes ==
    ASSUME NEW t \in Tabs, OutboxInv, events[t] # <<>>, Done' = Done, refusing \in BOOLEAN
    PROVE  LET ev == Head(events[t])
               x == After(t, ev)
           IN  /\ Good(x, t, Cores, Done) /\ x.tb.open = tab[t].open
               /\ CarriedBy(tab[t].queue) \subseteq CarriedBy(x.tb.queue) \cup Done
               /\ CarriedBy(stored.has) \subseteq CarriedBy(x.stored.has) \cup Done
               /\ (Adopted(tab[t], Done) /\ CarriedBy(ev.new.has) \subseteq Done) => Adopted(x.tb, Done)
               /\ Dated(x.tb, clock)
<1> DEFINE ev == Head(events[t])
           k == KeptBy(t, ev)
           taken == TakenBy(t, ev)
           v == Taking(k, taken)
           r == Rerun(t, ev)
           x == After(t, ev)
           names == {Named(e) : e \in LeftBy(t, ev)}
<1>1. /\ Good(World(t), t, Cores, Done) /\ Agree(Cores, Done) /\ World(t).tb = tab[t] /\ World(t).stored = stored
      /\ World(t) \in WorldType /\ Dated(tab[t], clock) /\ Past(Cores, clock) /\ clock \in Nat
  BY WorldIs DEF OutboxInv, Pages, Histories, AllDated, Typed, Good, PageGood
<1>2. (ev \in EventType) /\ Told(ev, Cores, Done, Safe)
  <2>1. (events[t] \in Seq(EventType)) /\ MailOf(events[t], tab[t], Cores, Done, Safe)
    BY DEF OutboxInv, Mail, Typed
  <2>2. (ev = events[t][1]) /\ (1 \in DOMAIN events[t])
    BY <2>1
  <2> HIDE DEF ev
  <2> QED BY <2>1, <2>2 DEF MailOf
<1>3. Fine(World(t), k, t, Cores, Done)
  <2>1. \A e \in LeftBy(t, ev) : e.carries \subseteq Done
    BY LeftIsDone DEF LeftBy
  <2>2. ASSUME NEW e \in World(t).tb.queue, Named(e) \in names PROVE e.carries \subseteq Done
    <3>1. PICK f \in LeftBy(t, ev) : Named(f) = Named(e)
      BY <2>2
    <3>2. f \in tab[t].queue
      BY <3>1 DEF LeftBy
    <3>3. (f \in EntryType) /\ (Core(f) \in Cores)
      BY <1>1, <3>2 DEF Good, PageGood, WorldType, PageType
    <3> QED BY <1>1, <2>1, <2>2, <3>1, <3>3, NamedDone
  <2> HIDE DEF names
  <2>3. k = Dequeue(World(t), names)
    BY DEF KeptBy, names
  <2> QED BY <1>1, <2>2, <2>3, DequeueGood DEF Fine
<1>4. /\ Good(k, t, Cores, Done) /\ k.tb.open = tab[t].open /\ k.tb.adopted = tab[t].adopted
      /\ Labels(k.tb) \subseteq Labels(tab[t]) /\ k.tb.settled \subseteq tab[t].settled \cup Labels(tab[t])
      /\ CarriedBy(stored.has) \subseteq CarriedBy(k.stored.has) \cup Done
      /\ CarriedBy(tab[t].queue) \subseteq CarriedBy(k.tb.queue) \cup Done
  BY <1>1, <1>3 DEF Fine, Onward
<1>5. /\ taken \in SUBSET EntryType
      /\ \A d \in taken : Core(d) \in Cores /\ d \in ev.new.has /\ d.carries \subseteq Done \cup CarriedBy(k.stored.has)
      /\ \A d \in taken : ~\E e \in k.tb.queue : e.key = d.key /\ d.at <= e.at
  <2>1. \A d \in taken : d \in ev.new.has /\ ~\E e \in k.tb.queue : e.key = d.key /\ d.at <= e.at
    BY DEF TakenBy
  <2> HIDE DEF ev, taken, k
  <2>2. \A d \in ev.new.has : (d \in EntryType) /\ (Core(d) \in Cores) /\ d.carries \subseteq Safe
    BY <1>2 DEF EventType, CopyType, Told
  <2>3. Safe \subseteq Done \cup CarriedBy(k.stored.has)
    BY <1>4 DEF Safe
  <2> QED BY <2>1, <2>2, <2>3
<1> HIDE DEF ev, taken, k
<1>6. Good(v, t, Cores, Done) /\ Takes(k, v, taken, Done)
  BY <1>1, <1>4, <1>5, TakingGood
<1>7. Fine(v, r, t, Cores, Done)
  <2>1. r = RerunFlushSoon(v)
    BY DEF Rerun, taken, k, ev
  <2> HIDE DEF v, r
  <2> QED BY <1>1, <1>6, <2>1, RerunGood
<1>8. Fine(v, x, t, Cores, Done)
  <2>1. x \in {r, FlushNow(r)}
    BY DEF After
  <2>2. Good(r, t, Cores, Done)
    BY <1>7 DEF Fine
  <2> HIDE DEF v, r, x
  <2>3. Fine(r, FlushNow(r), t, Cores, Done)
    BY <1>1, <2>2, FlushNowGood
  <2> QED BY <1>7, <2>1, <2>3, FineTwice
<1> HIDE DEF v, r, x
<1>9. /\ v.tb.open = k.tb.open /\ v.tb.settled = k.tb.settled /\ v.stored = k.stored
      /\ v.tb.adopted = k.tb.adopted \cup {Named(d) : d \in taken}
      /\ v.tb.queue = {e \in k.tb.queue : e.key \notin KeysOf(taken)} \cup taken
      /\ CarriedBy(k.tb.queue) \subseteq CarriedBy(v.tb.queue) \cup Done
      /\ (Adopted(k.tb, Done) /\ CarriedBy(taken) \subseteq Done) => Adopted(v.tb, Done)
  BY <1>6 DEF Takes
<1>10. /\ Good(x, t, Cores, Done) /\ x.tb.open = v.tb.open /\ x.tb.adopted = v.tb.adopted
       /\ x.tb.settled \subseteq v.tb.settled \cup Labels(v.tb)
       /\ CarriedBy(v.stored.has) \subseteq CarriedBy(x.stored.has) \cup Done
       /\ CarriedBy(v.tb.queue) \subseteq CarriedBy(x.tb.queue) \cup Done
  BY <1>8 DEF Fine, Onward
<1>11. (Adopted(tab[t], Done) /\ CarriedBy(ev.new.has) \subseteq Done) => Adopted(x.tb, Done)
  <2> SUFFICES ASSUME Adopted(tab[t], Done), CarriedBy(ev.new.has) \subseteq Done PROVE Adopted(x.tb, Done)
    OBVIOUS
  <2>1. Adopted(k.tb, Done)
    BY <1>1, <1>3, AdoptedOnward
  <2>2. CarriedBy(taken) \subseteq Done
    BY <1>5 DEF CarriedBy
  <2>3. Adopted(v.tb, Done)
    BY <1>9, <2>1, <2>2
  <2> QED BY <1>1, <1>6, <1>8, <2>3, AdoptedOnward
<1>12. Dated(x.tb, clock)
  <2>1. \A p \in Labels(tab[t]) : p[2] <= clock
    <3>1. \A e \in tab[t].queue : (Core(e) \in Cores) /\ (e \in EntryType)
      BY <1>1 DEF Good, PageGood, WorldType, PageType
    <3> QED BY <1>1, <3>1, CoreFields DEF Labels, Named, Past
  <2>2. \A d \in taken : Named(d)[2] <= clock
    BY <1>1, <1>5, CoreFields DEF Named, Past
  <2>3. Labels(v.tb) \subseteq Labels(tab[t]) \cup {Named(d) : d \in taken}
    BY <1>4, <1>9 DEF Labels
  <2>4. \A p \in tab[t].settled \cup tab[t].adopted : p[2] <= clock
    BY <1>1 DEF Dated
  <2>5. x.tb.adopted \subseteq tab[t].adopted \cup {Named(d) : d \in taken}
    BY <1>4, <1>9, <1>10
  <2>6. x.tb.settled \subseteq tab[t].settled \cup Labels(tab[t]) \cup {Named(d) : d \in taken}
    BY <1>4, <1>9, <1>10, <2>3
  <2> QED BY <2>1, <2>2, <2>4, <2>5, <2>6 DEF Dated
<1>13. /\ x.tb.open = tab[t].open
       /\ CarriedBy(tab[t].queue) \subseteq CarriedBy(x.tb.queue) \cup Done
       /\ CarriedBy(stored.has) \subseteq CarriedBy(x.stored.has) \cup Done
  BY <1>4, <1>9, <1>10
<1> QED BY <1>10, <1>11, <1>12, <1>13 DEF x, ev

LEMMA StoredStays ==
    ASSUME NEW t \in Tabs, OutboxInv, OnStoredQueueChanged(t)
    PROVE  OutboxInv'
<1> DEFINE ev == Head(events[t])
           x == After(t, ev)
<1>1. tab[t].open /\ (events[t] # <<>>) /\ Moved(t, x, Tail(events[t]))
  BY StoredMoves, ZenonT(30) DEF OnStoredQueueChanged
<1>2. Still /\ (Done' = Done) /\ (refusing \in BOOLEAN) /\ (events[t] \in Seq(EventType))
  BY DEF OnStoredQueueChanged, Still, Done, OutboxInv, Typed
<1>3. /\ Good(x, t, Cores, Done) /\ x.tb.open = tab[t].open
      /\ CarriedBy(tab[t].queue) \subseteq CarriedBy(x.tb.queue) \cup Done
      /\ CarriedBy(stored.has) \subseteq CarriedBy(x.stored.has) \cup Done
      /\ (Adopted(tab[t], Done) /\ CarriedBy(ev.new.has) \subseteq Done) => Adopted(x.tb, Done)
      /\ Dated(x.tb, clock)
  BY <1>1, <1>2, StoredTakes
<1> DEFINE evs == events[t]
           S == Done \cup CarriedBy(x.stored.has)
<1>4. MailOf(evs, tab[t], Cores, Done, Safe) /\ (evs \in Seq(EventType)) /\ (evs # <<>>)
  BY <1>1, <1>2 DEF OutboxInv, Mail
<1>5. (Tail(evs) \in Seq(EventType)) /\ (ev = evs[1])
      /\ \A i \in DOMAIN Tail(evs) : i \in Nat /\ (i + 1) \in DOMAIN evs /\ Tail(evs)[i] = evs[i + 1]
  <2> HIDE DEF evs
  <2>1. (Tail(evs) \in Seq(EventType)) /\ \A i \in DOMAIN Tail(evs) : i \in Nat /\ (i + 1) \in DOMAIN evs /\ Tail(evs)[i] = evs[i + 1]
    BY <1>4
  <2>2. Head(evs) = evs[1]
    BY <1>4
  <2> QED BY <2>1, <2>2 DEF evs
<1>6. Safe \subseteq S
  BY <1>3 DEF Safe
<1> HIDE DEF ev, x, evs, S
<1>7. MailOf(Tail(evs), x.tb, Cores, Done, S)
  <2> SUFFICES ASSUME NEW i \in DOMAIN Tail(evs)
               PROVE  /\ Told(Tail(evs)[i], Cores, Done, S)
                      /\ ~Tail(evs)[i].new.there =>
                            /\ Adopted(x.tb, Done)
                            /\ \A j \in 1 .. i : \A e \in Tail(evs)[j].old.has \cup Tail(evs)[j].new.has : e.carries \subseteq Done
    BY DEF MailOf
  <2>1. (i \in Nat) /\ ((i + 1) \in DOMAIN evs) /\ (Tail(evs)[i] = evs[i + 1])
    BY <1>5
  <2>2. Told(evs[i + 1], Cores, Done, Safe)
    BY <1>4, <2>1 DEF MailOf
  <2>3. Told(Tail(evs)[i], Cores, Done, S)
    BY <1>6, <2>1, <2>2 DEF Told
  <2>4. ASSUME ~Tail(evs)[i].new.there
        PROVE  /\ Adopted(x.tb, Done)
               /\ \A j \in 1 .. i : \A e \in Tail(evs)[j].old.has \cup Tail(evs)[j].new.has : e.carries \subseteq Done
    <3>1. /\ Adopted(tab[t], Done)
          /\ \A j \in 1 .. (i + 1) : \A e \in evs[j].old.has \cup evs[j].new.has : e.carries \subseteq Done
      BY <1>4, <2>1, <2>4 DEF MailOf
    <3>2. CarriedBy(ev.new.has) \subseteq Done
      <4>1. \A e \in evs[1].old.has \cup evs[1].new.has : e.carries \subseteq Done
        BY <2>1, <3>1
      <4> QED BY <1>5, <4>1 DEF CarriedBy
    <3>3. Adopted(x.tb, Done)
      BY <1>3, <3>1, <3>2
    <3>4. ASSUME NEW j \in 1 .. i PROVE \A e \in Tail(evs)[j].old.has \cup Tail(evs)[j].new.has : e.carries \subseteq Done
      <4>1. j \in DOMAIN Tail(evs)
        BY <1>5, <2>1, <3>4
      <4>2. Tail(evs)[j] = evs[j + 1] /\ (j + 1) \in 1 .. (i + 1)
        BY <1>5, <2>1, <4>1
      <4> QED BY <3>1, <4>2
    <3> QED BY <3>3, <3>4
  <2> QED BY <2>3, <2>4
<1>8. PageGood(x, t, Cores, Done')
  BY <1>2, <1>3 DEF Good
<1>9. \A j \in DOMAIN x.news :
          /\ Told(x.news[j], Cores, Done', Done' \cup CarriedBy(x.stored.has))
          /\ x.news[j].new.there \/ CarriedBy(x.stored.has) \subseteq Done'
  BY <1>2, <1>3 DEF Good
<1>10. MailOf(Tail(evs), x.tb, Cores, Done', Done' \cup CarriedBy(x.stored.has))
  BY <1>2, <1>7 DEF S
<1>11. Moved(t, x, Tail(evs)) /\ x.tb.open
  BY <1>1, <1>3 DEF evs
<1>12. /\ CarriedBy(tab[t].queue) \subseteq CarriedBy(x.tb.queue) \cup Done'
       /\ CarriedBy(stored.has) \subseteq CarriedBy(x.stored.has) \cup Done'
       /\ Dated(x.tb, clock)
  BY <1>2, <1>3
<1> HIDE DEF Done
<1>13. PageMoves(t, x, Cores, Tail(evs))
  BY <1>1, <1>2, <1>5, <1>8, <1>9, <1>10, <1>11, <1>12, TaskMoves
<1> QED BY <1>13, MovesInv

---------------------------------------------------------------------------
(* A write.                                                                *)

\* No two pages may both score a match, or both save its lineup: one page
\* would take the other's entry over, and a write with it.
Apart ==
    \A s \in Shapes : \A t, u \in s.tabs : t # u =>
        /\ s.kinds[t] \cap Score = {} \/ s.kinds[u] \cap Score = {}
        /\ "lineup" \notin s.kinds[t] \cap s.kinds[u]

LEMMA NewestIsThere ==
    ASSUME NEW es \in SUBSET EntryType, es # {}, NEW n \in Nat, \A e \in es : e.at <= n
    PROVE  Newest(es) \in es /\ \A f \in es : f.at <= Newest(es).at
<1> DEFINE ages == {n - e.at : e \in es}
<1>1. \A e \in es : (e.at \in Nat) /\ (n - e.at \in Nat)
  BY DEF EntryType
<1>2. (ages \subseteq Nat) /\ (ages # {})
  BY <1>1
<1>3. PICK a \in ages : \A b \in ages : a <= b
  BY <1>2, Least
<1>4. PICK e \in es : a = n - e.at
  BY <1>3
<1>5. \A f \in es : f.at <= e.at
  <2>1. ASSUME NEW f \in es PROVE f.at <= e.at
    <3>1. n - e.at <= n - f.at
      BY <1>3, <1>4
    <3> QED BY <1>1, <1>4, <3>1
  <2> QED BY <2>1
<1>6. \E g \in es : \A f \in es : f.at <= g.at
  BY <1>4, <1>5
<1> QED BY <1>6 DEF Newest

\* What a new write is queued as: after what its page has, with what the entry
\* carried whose place it takes.
Placing(q, d, base, kind, n, t) ==
    /\ d \in EntryType /\ d.base = base /\ d.kind = kind /\ d.at = n + 1 /\ d.by = t
    /\ \/ d.key = n + 1 /\ d.carries = {n + 1}
       \/ \E e \in q : /\ d.key = e.key /\ d.carries = {n + 1} \cup e.carries
                       /\ e.base = base /\ Class(e.kind) = Class(kind) /\ kind \in Score \cup {"lineup"}
                       /\ \A f \in q : f.base = base => f.at <= e.at

LEMMA HeldType ==
    ASSUME NEW q \in SUBSET EntryType, NEW n \in Nat, \A e \in q : e.at <= n, NEW base
    PROVE  HeldBy(q, base) \subseteq Nat
<1> DEFINE holders == {e \in q : e.base # base /\ base \in e.holds}
<1>1. holders \in SUBSET EntryType /\ \A e \in holders : e.at <= n
  OBVIOUS
<1>2. HeldBy(q, base) = IF holders = {} THEN {} ELSE {Newest(holders).key}
  BY DEF HeldBy
<1> HIDE DEF holders
<1>3. CASE holders # {}
  <2>1. Newest(holders) \in holders
    BY <1>1, <1>3, NewestIsThere
  <2>2. Newest(holders).key \in Nat
    BY <1>1, <2>1 DEF EntryType
  <2> QED BY <1>2, <1>3, <2>2
<1> QED BY <1>2, <1>3

LEMMA PlaceWriteIs ==
    ASSUME NEW q \in SUBSET EntryType, NEW n \in Nat, \A e \in q : e.at <= n, NEW out,
           NEW base \in Bases, NEW kind \in Kinds, NEW after \in SUBSET Nat, NEW holds \in SUBSET Bases,
           NEW password \in Nat, NEW t \in Tabs
    PROVE  Placing(q, PlaceWrite(q, out, Entry(base, kind, n + 1, after, holds, password, t)), base, kind, n, t)
<1> DEFINE new == Entry(base, kind, n + 1, after, holds, password, t)
           followed == [new EXCEPT !.after = @ \cup HeldBy(q, new.base)]
           target == CoalesceTarget(q, out, followed)
           prev == CHOOSE e \in target : TRUE
           d == [followed EXCEPT !.key = prev.key, !.carries = @ \cup prev.carries, !.after = @ \cup prev.after]
<1>1. /\ followed \in EntryType /\ followed.base = base /\ followed.kind = kind /\ followed.at = n + 1
      /\ followed.by = t /\ followed.key = n + 1 /\ followed.carries = {n + 1}
  <2>1. /\ new \in EntryType /\ new.base = base /\ new.kind = kind /\ new.at = n + 1 /\ new.by = t
        /\ new.key = n + 1 /\ new.carries = {n + 1} /\ new.after = after
    <3>1. (n + 1) \in Nat
      OBVIOUS
    <3> QED BY <3>1 DEF Entry, EntryType
  <2>2. HeldBy(q, base) \subseteq Nat
    BY HeldType
  <2> DEFINE a == after \cup HeldBy(q, base)
  <2>3. followed = [new EXCEPT !.after = a]
    BY <2>1
  <2>4. a \in SUBSET Nat
    BY <2>2
  <2> HIDE DEF new, a, followed
  <2> QED BY <2>1, <2>3, <2>4 DEF EntryType
<1>2. PlaceWrite(q, out, new) = IF target = {} THEN followed ELSE d
  BY DEF PlaceWrite
<1> HIDE DEF new, followed
<1>3. CASE target = {}
  <2> HIDE DEF d, target
  <2> QED BY <1>1, <1>2, <1>3 DEF Placing, new
<1>4. CASE target # {}
  <2>1. prev \in target
    BY <1>4
  <2>2. /\ prev \in q /\ prev.base = base /\ Class(prev.kind) = Class(kind) /\ kind \in Score \cup {"lineup"}
        /\ \A f \in q : f.base = base => f.at <= prev.at
    BY <1>1, <2>1 DEF CoalesceTarget, EntriesFor, Class, Score
  <2> HIDE DEF prev, target
  <2>3. /\ d \in EntryType /\ d.base = base /\ d.kind = kind /\ d.at = n + 1 /\ d.by = t
        /\ d.key = prev.key /\ d.carries = {n + 1} \cup prev.carries
    BY <1>1, <2>2 DEF EntryType
  <2> HIDE DEF d
  <2> QED BY <1>2, <1>4, <2>2, <2>3 DEF Placing, new
<1> QED BY <1>3, <1>4

\* The write follows A, and what the entry followed whose place it takes: the
\* newest of its match, which nothing follows.
Following(q, d, base, n, A) ==
    /\ d.base = base /\ d.at = n + 1
    /\ \/ d.key = n + 1 /\ d.carries = {n + 1} /\ d.after = A
       \/ \E p \in q : /\ d.key = p.key /\ d.carries = {n + 1} \cup p.carries /\ d.after = A \cup p.after
                       /\ p.base = base /\ ~IsFollowed(q, p.key)
                       /\ \A f \in q : f.base = base => f.at <= p.at

LEMMA FollowingIs ==
    ASSUME NEW q \in SUBSET EntryType, NEW n \in Nat, \A e \in q : e.at <= n, NEW out,
           NEW base \in Bases, NEW kind \in Kinds, NEW after \in SUBSET Nat, NEW holds \in SUBSET Bases,
           NEW password \in Nat, NEW t \in Tabs
    PROVE  Following(q, PlaceWrite(q, out, Entry(base, kind, n + 1, after, holds, password, t)), base, n,
                     after \cup HeldBy(q, base))
<1> DEFINE new == Entry(base, kind, n + 1, after, holds, password, t)
           followed == [new EXCEPT !.after = @ \cup HeldBy(q, new.base)]
           target == CoalesceTarget(q, out, followed)
           prev == CHOOSE e \in target : TRUE
           d == [followed EXCEPT !.key = prev.key, !.carries = @ \cup prev.carries, !.after = @ \cup prev.after]
           A == after \cup HeldBy(q, base)
<1>1. /\ followed \in EntryType /\ followed.base = base /\ followed.at = n + 1
      /\ followed.key = n + 1 /\ followed.carries = {n + 1} /\ followed.after = A
  <2>1. /\ new \in EntryType /\ new.base = base /\ new.at = n + 1
        /\ new.key = n + 1 /\ new.carries = {n + 1} /\ new.after = after
    <3>1. (n + 1) \in Nat
      OBVIOUS
    <3> QED BY <3>1 DEF Entry, EntryType
  <2>2. HeldBy(q, base) \subseteq Nat
    BY HeldType
  <2>3. followed = [new EXCEPT !.after = A]
    BY <2>1
  <2>4. A \in SUBSET Nat
    BY <2>2
  <2> HIDE DEF new, A, followed
  <2> QED BY <2>1, <2>3, <2>4 DEF EntryType
<1>2. PlaceWrite(q, out, new) = IF target = {} THEN followed ELSE d
  BY DEF PlaceWrite
<1> HIDE DEF new, followed, A
<1>3. CASE target = {}
  <2>1. Following(q, followed, base, n, A)
    BY <1>1 DEF Following
  <2>2. PlaceWrite(q, out, new) = followed
    BY <1>2, <1>3
  <2> QED BY <2>1, <2>2 DEF new, A
<1>4. CASE target # {}
  <2>1. prev \in target
    BY <1>4
  <2>2. /\ prev \in q /\ prev.base = base /\ ~IsFollowed(q, prev.key)
        /\ \A f \in q : f.base = base => f.at <= prev.at
    BY <1>1, <2>1 DEF CoalesceTarget, EntriesFor
  <2> HIDE DEF prev, target
  <2>3. /\ d.base = base /\ d.at = n + 1 /\ d.after = A \cup prev.after
        /\ d.key = prev.key /\ d.carries = {n + 1} \cup prev.carries
    BY <1>1, <2>2 DEF EntryType
  <2> HIDE DEF d
  <2>4. Following(q, d, base, n, A)
    BY <2>2, <2>3 DEF Following
  <2>5. PlaceWrite(q, out, new) = d
    BY <1>2, <1>4
  <2> QED BY <2>4, <2>5 DEF new, A
<1> QED BY <1>3, <1>4

\* What a page orders a write after: entries of other matches.
Elsewhere(q, base, A) == \A k \in A : \E f \in q : f.key = k /\ f.base # base

\* What holds of a page's queue when a write is placed in it.
Ready(q, t, C, D, n) ==
    /\ q \subseteq EntryType /\ n \in Nat /\ t \in shape.tabs
    /\ \A e \in q : Core(e) \in C
    /\ Histories(C, D, n)
    /\ \A c \in C : c.by = t => c.carries \subseteq D \cup CarriedBy(q)

\* The entry whose place a write takes was made by the page of the write.
LEMMA OwnTarget ==
    ASSUME Apart, shape \in Shapes, NEW C, NEW D, NEW n, Histories(C, D, n), NEW t \in shape.tabs,
           NEW kind \in shape.kinds[t], NEW c \in C, Class(c.kind) = Class(kind), kind # "tap", kind # "back", kind \in Kinds
    PROVE  c.by = t
<1>1. c.by \in shape.tabs /\ c.kind \in shape.kinds[c.by]
  BY DEF Histories, MadeBy
<1>2. /\ kind \in Score <=> c.kind \in Score
      /\ kind = "lineup" <=> c.kind = "lineup"
      /\ kind \in Score \/ kind = "lineup"
  <2>1. c.kind \in Kinds
    BY DEF Histories, Agree, CoreType
  <2>2. kind \in Score \/ kind = "lineup"
    BY DEF Kinds, Score
  <2>3. CASE kind \in Score
    <3>1. Class(c.kind) = "score" /\ kind # "lineup"
      BY <2>3 DEF Class, Score
    <3>2. c.kind \in Score
      BY <2>1, <3>1 DEF Class, Kinds, Score
    <3> QED BY <2>3, <3>1, <3>2 DEF Score
  <2>4. CASE kind = "lineup"
    <3>1. Class(c.kind) = "lineup" /\ kind \notin Score
      BY <2>4 DEF Class, Score
    <3>2. c.kind = "lineup"
      BY <2>1, <3>1 DEF Class, Kinds, Score
    <3> QED BY <2>4, <3>1, <3>2 DEF Score
  <2> QED BY <2>2, <2>3, <2>4
<1> QED BY <1>1, <1>2 DEF Apart

LEMMA OlderUnder ==
    ASSUME NEW q, NEW t, NEW C, NEW D, NEW n, Ready(q, t, C, D, n), NEW e \in q, e.by = t,
           \A f \in q : f.base = e.base => f.at <= e.at
    PROVE  /\ \A c \in C : c.key = e.key => c.carries \subseteq e.carries \cup D
           /\ \A f \in q : f.key = e.key => f.carries \subseteq e.carries \cup D
<1>1. (e \in EntryType) /\ (Core(e) \in C) /\ Agree(C, D) /\ OneKey(C)
  BY DEF Ready, Histories
<1>2. ASSUME NEW f \in q, f.key = e.key PROVE f.carries \subseteq e.carries \cup D
  <2>1. (f \in EntryType) /\ (Core(f) \in C)
    BY DEF Ready
  <2>2. f.base = e.base
    BY <1>1, <1>2, <2>1, CoreFields DEF Agree
  <2>3. f.at <= e.at
    BY <2>2
  <2>4. Core(f).carries \subseteq Core(e).carries \cup D
    BY <1>1, <1>2, <2>1, <2>3, CoreFields DEF Agree
  <2> QED BY <1>1, <2>1, <2>4, CoreFields
<1>3. ASSUME NEW c \in C, c.key = e.key, NEW m \in c.carries PROVE m \in e.carries \cup D
  <2>1. c.by = t
    BY <1>1, <1>3, CoreFields DEF Agree
  <2>2. m \in D \cup CarriedBy(q)
    BY <1>3, <2>1 DEF Ready
  <2>3. CASE m \in CarriedBy(q)
    <3>1. PICK f \in q : m \in f.carries
      BY <2>3 DEF CarriedBy
    <3>2. (f \in EntryType) /\ (Core(f) \in C)
      BY <3>1 DEF Ready
    <3>3. f.key = e.key
      BY <1>1, <1>3, <3>1, <3>2, CoreFields DEF OneKey
    <3> QED BY <1>2, <3>1, <3>3
  <2> QED BY <2>2, <2>3
<1> QED BY <1>2, <1>3

\* With the new entry, everything known of the histories still holds.
PlacedKnown(q, d, C, D, n) ==
    /\ Histories(C \cup {Core(d)}, D, n + 1)
    /\ \A e \in q : e.key = d.key => e.carries \subseteq d.carries \cup D
    /\ n + 1 \in d.carries
    /\ \A c \in C : c.at <= n

LEMMA PlacedHistories ==
    ASSUME NEW q, NEW t, NEW C, NEW D, NEW n, Ready(q, t, C, D, n), NEW d, NEW base, NEW kind,
           Placing(q, d, base, kind, n, t), kind \in shape.kinds[t],
           \A e \in q : d.key = e.key => e.by = t
    PROVE  PlacedKnown(q, d, C, D, n)
<1>1. /\ d \in EntryType /\ d.base = base /\ d.kind = kind /\ d.at = n + 1 /\ d.by = t
  BY DEF Placing
<1>2. (n \in Nat) /\ Agree(C, D) /\ OneKey(C) /\ Past(C, n) /\ MadeBy(C) /\ (t \in shape.tabs) /\ (q \subseteq EntryType)
      /\ (C \subseteq CoreType) /\ (\A e \in q : Core(e) \in C)
  BY DEF Ready, Histories, Agree
<1>3. /\ \A c \in C : c.key \in Nat /\ c.at \in Nat /\ c.key <= n /\ c.at <= n /\ (n + 1) \notin c.carries
      /\ Core(d) \in CoreType
  BY <1>1, <1>2, CoreFields DEF Past, CoreType
<1>4. /\ (n + 1) \in d.carries
      /\ \A c \in C : c.key = d.key =>
            c.by = t /\ c.base = base /\ Class(c.kind) = Class(kind) /\ c.carries \subseteq d.carries \cup D
      /\ \A c \in C : \A m \in c.carries : m \in d.carries => c.key = d.key
      /\ d.key <= n + 1 /\ d.carries \subseteq 1 .. (n + 1)
      /\ \A e \in q : e.key = d.key => e.carries \subseteq d.carries \cup D
  <2>1. CASE d.key = n + 1 /\ d.carries = {n + 1}
    <3>1. \A c \in C : c.key # d.key
      BY <1>2, <1>3, <2>1
    <3>2. \A e \in q : e.key # d.key
      BY <1>2, <3>1, CoreFields
    <3> QED BY <1>2, <1>3, <2>1, <3>1, <3>2
  <2>2. CASE \E e \in q : /\ d.key = e.key /\ d.carries = {n + 1} \cup e.carries
                          /\ e.base = base /\ Class(e.kind) = Class(kind) /\ kind \in Score \cup {"lineup"}
                          /\ \A f \in q : f.base = base => f.at <= e.at
    <3>1. PICK e \in q : /\ d.key = e.key /\ d.carries = {n + 1} \cup e.carries
                         /\ e.base = base /\ Class(e.kind) = Class(kind) /\ kind \in Score \cup {"lineup"}
                         /\ \A f \in q : f.base = base => f.at <= e.at
      BY <2>2
    <3>2. (e \in EntryType) /\ (Core(e) \in C) /\ (e.by = t)
      BY <1>2, <3>1
    <3>3. /\ \A c \in C : c.key = e.key => c.carries \subseteq e.carries \cup D
          /\ \A f \in q : f.key = e.key => f.carries \subseteq e.carries \cup D
      BY <3>1, <3>2, OlderUnder
    <3>4. \A c \in C : c.key = d.key => c.by = t /\ c.base = base /\ Class(c.kind) = Class(kind)
      BY <1>2, <3>1, <3>2, CoreFields DEF Agree
    <3>5. \A c \in C : \A m \in c.carries : m \in d.carries => c.key = d.key
      <4>1. \A c \in C : \A m \in c.carries : m # n + 1
        BY <1>3
      <4>2. \A c \in C : \A m \in c.carries : m \in e.carries => c.key = e.key
        BY <1>2, <3>2, CoreFields DEF OneKey
      <4> QED BY <3>1, <4>1, <4>2
    <3>6. d.key <= n + 1 /\ d.carries \subseteq 1 .. (n + 1)
      <4>1. (Core(e).key <= n) /\ (Core(e).carries \subseteq 1 .. n)
        BY <1>2, <3>2 DEF Past
      <4>2. (e.key <= n) /\ (e.carries \subseteq 1 .. n)
        BY <3>2, <4>1, CoreFields
      <4>3. e.key \in Nat
        BY <3>2 DEF EntryType
      <4> QED BY <1>2, <3>1, <4>2, <4>3
    <3> QED BY <3>1, <3>3, <3>4, <3>5, <3>6
  <2> QED BY <2>1, <2>2 DEF Placing
<1>5. /\ Core(d).key = d.key /\ Core(d).base = base /\ Core(d).kind = kind /\ Core(d).at = n + 1
      /\ Core(d).carries = d.carries /\ Core(d).by = t
  BY <1>1, CoreFields
<1>6. Agree(C \cup {Core(d)}, D)
  <2> SUFFICES ASSUME NEW b \in C \cup {Core(d)}, NEW c \in C \cup {Core(d)}, b.key = c.key
               PROVE  /\ b.by = c.by /\ b.base = c.base /\ Class(b.kind) = Class(c.kind)
                      /\ b.at <= c.at => b.carries \subseteq c.carries \cup D
    BY <1>2, <1>3 DEF Agree
  <2>1. CASE b \in C /\ c \in C
    BY <1>2, <2>1 DEF Agree
  <2>2. CASE b \in C /\ c = Core(d)
    BY <1>4, <1>5, <2>2
  <2>3. CASE b = Core(d) /\ c \in C
    <3>1. ~(n + 1 <= c.at)
      BY <1>2, <1>3, <2>3
    <3> QED BY <1>4, <1>5, <2>3, <3>1
  <2>4. CASE b = Core(d) /\ c = Core(d)
    BY <2>4
  <2> QED BY <2>1, <2>2, <2>3, <2>4
<1>7. OneKey(C \cup {Core(d)})
  BY <1>2, <1>4, <1>5 DEF OneKey
<1>8. Past(C \cup {Core(d)}, n + 1)
  <2>1. \A c \in C : c.at <= n + 1 /\ c.key <= n + 1 /\ c.carries \subseteq 1 .. (n + 1)
    <3>1. \A c \in C : c.carries \subseteq 1 .. n
      BY <1>2 DEF Past
    <3>2. 1 .. n \subseteq 1 .. (n + 1)
      BY <1>2
    <3> QED BY <1>2, <1>3, <3>1, <3>2
  <2>2. n + 1 <= n + 1
    BY <1>2
  <2> QED BY <1>4, <1>5, <2>1, <2>2 DEF Past
<1>9. MadeBy(C \cup {Core(d)})
  BY <1>2, <1>5 DEF MadeBy
<1> QED BY <1>3, <1>4, <1>6, <1>7, <1>8, <1>9 DEF Histories, PlacedKnown

\* What is known of a page, with the write in its queue.
PlacedPage(t, v, d, C, D) ==
    /\ Good(v, t, C, D)
    /\ v.tb.queue = QueueSet(tab[t].queue, d) /\ v.tb.settled = tab[t].settled
    /\ v.tb.adopted = tab[t].adopted /\ v.tb.open /\ v.stored = stored
    /\ CarriedBy(tab[t].queue) \subseteq CarriedBy(v.tb.queue) \cup D
    /\ d.carries \subseteq CarriedBy(v.tb.queue)
    /\ \A u \in Tabs : SettledDone(tab[u].settled, C, D)
    /\ Adopted(tab[t], D) => Adopted(v.tb, D)

LEMMA PlacedGood ==
    ASSUME NEW t \in Tabs, OutboxInv, tab[t].open, NEW d, NEW base, NEW kind, NEW v,
           Ready(tab[t].queue, t, Cores, Done, clock), Placing(tab[t].queue, d, base, kind, clock, t),
           kind \in shape.kinds[t], \A e \in tab[t].queue : d.key = e.key => e.by = t,
           v = [World(t) EXCEPT !.tb.queue = QueueSet(tab[t].queue, d)]
    PROVE  PlacedPage(t, v, d, Cores \cup {Core(d)}, Done)
<1> DEFINE C == Cores \cup {Core(d)}
           q == QueueSet(tab[t].queue, d)
           S == Done \cup CarriedBy(stored.has)
<1>1. /\ Good(World(t), t, Cores, Done) /\ World(t).tb = tab[t] /\ World(t).stored = stored /\ World(t).news = <<>>
      /\ World(t) \in WorldType /\ clock \in Nat
  BY WorldIs DEF OutboxInv, Pages, Good, PageGood, Typed
<1>2. /\ d \in EntryType /\ d.at = clock + 1 /\ d.by = t
  BY DEF Placing
<1>3. /\ \A e \in tab[t].queue : e.key = d.key => e.carries \subseteq d.carries \cup Done
  <2>1. PlacedKnown(tab[t].queue, d, Cores, Done, clock)
    BY PlacedHistories
  <2> QED BY <2>1 DEF PlacedKnown
<1>4. \A e \in q : e \in tab[t].queue \/ e = d
  BY DEF QueueSet
<1>5. q \in SUBSET EntryType
  BY <1>1, <1>2, <1>4 DEF WorldType, PageType
<1>6. d.carries \subseteq CarriedBy(q)
  BY DEF CarriedBy, QueueSet
<1>7. CarriedBy(tab[t].queue) \subseteq CarriedBy(q) \cup Done
  <2>1. ASSUME NEW e \in tab[t].queue PROVE e.carries \subseteq CarriedBy(q) \cup Done
    <3>1. CASE e.key = d.key
      BY <1>3, <1>6, <3>1
    <3>2. CASE e.key # d.key
      BY <3>2 DEF CarriedBy, QueueSet
    <3> QED BY <3>1, <3>2
  <2> HIDE DEF q
  <2> QED BY <2>1 DEF CarriedBy
<1> HIDE DEF q
<1>8. /\ v \in WorldType /\ v.tb.queue = q /\ v.tb.settled = tab[t].settled /\ v.tb.turns = tab[t].turns
      /\ v.tb.adopted = tab[t].adopted /\ v.tb.open = tab[t].open /\ v.stored = stored /\ v.news = <<>>
  <2> DEFINE x == [World(t) EXCEPT !.tb.queue = q]
  <2>1. v = x
    BY DEF q
  <2>2. /\ x \in WorldType /\ x.tb.queue = q /\ x.tb.settled = tab[t].settled /\ x.tb.turns = tab[t].turns
        /\ x.tb.adopted = tab[t].adopted /\ x.tb.open = tab[t].open /\ x.stored = stored /\ x.news = <<>>
    BY <1>1, <1>5 DEF WorldType, PageType
  <2> HIDE DEF x
  <2> QED BY <2>1, <2>2
<1>9. ASSUME NEW u \in Tabs PROVE SettledDone(tab[u].settled, C, Done)
  <2>1. SettledDone(tab[u].settled, Cores, Done)
    BY WorldIs DEF OutboxInv, Pages, Good, PageGood
  <2>2. \A p \in tab[u].settled : ~(Core(d).at <= p[2])
    <3>1. \A p \in tab[u].settled : p[2] \in Nat /\ p[2] <= clock
      BY DEF OutboxInv, AllDated, Dated, Typed, PageType, Names
    <3> QED BY <1>1, <1>2, <3>1, CoreFields
  <2> QED BY <2>1, <2>2 DEF SettledDone
<1>10. Named(d) \notin tab[t].adopted
  <2>1. \A p \in tab[t].adopted : p[2] \in Nat /\ p[2] <= clock
    BY DEF OutboxInv, AllDated, Dated, Typed, PageType, Names
  <2> QED BY <1>1, <1>2, <2>1 DEF Named
<1>11. Adopted(tab[t], Done) => Adopted(v.tb, Done)
  BY <1>4, <1>8, <1>10 DEF Adopted
<1>12. Good(v, t, C, Done)
  <2>1. \A e \in v.tb.queue \cup Sent(v.tb) \cup v.stored.has : Core(e) \in C
    <3>1. Sent(v.tb) = Sent(tab[t])
      BY <1>8 DEF Sent
    <3> QED BY <1>1, <1>4, <1>8, <3>1 DEF Good, PageGood
  <2>2. Answered(v.tb, Done) /\ SettledDone(v.tb.settled, C, Done)
    BY <1>1, <1>8, <1>9 DEF Good, PageGood, Answered
  <2>3. Away(v.tb, t, S)
    BY <1>1, <1>2, <1>4, <1>8 DEF Good, PageGood, Away, Sent
  <2>4. Adopted(v.tb, S)
    <3>1. Adopted(tab[t], S)
      BY <1>1 DEF Good, PageGood
    <3> HIDE DEF S
    <3> QED BY <1>4, <1>8, <1>10, <3>1 DEF Adopted
  <2>5. DOMAIN v.news = {}
    BY <1>8
  <2>6. ~v.stored.there => v.stored.has = {}
    BY <1>1, <1>8 DEF Good, PageGood
  <2> QED BY <1>8, <2>1, <2>2, <2>3, <2>4, <2>5, <2>6 DEF Good, PageGood
<1> QED BY <1>6, <1>7, <1>8, <1>9, <1>11, <1>12 DEF q, PlacedPage

\* What a write leaves: the entry queued, and after what it was made.
WriteDone(t, base, kind, d, A) ==
    LET q == tab[t].queue
        v == [World(t) EXCEPT !.tb.queue = QueueSet(q, d)]
    IN  /\ Placing(q, d, base, kind, clock, t) /\ Following(q, d, base, clock, A) /\ Elsewhere(q, base, A)
        /\ Do(t, FlushNow(Persist(v)))
        /\ made' = Append(made, [by |-> t, kind |-> kind,
                                 after |-> CarriedBy({e \in q : e.base = base \/ e.key \in A})])
        /\ unsaved' = IF d \in Persist(v).stored.has THEN unsaved ELSE unsaved \cup {d.at}

LEMMA WriteIs ==
    ASSUME NEW t \in Tabs, NEW base \in Bases, NEW kind \in shape.kinds[t], OutboxInv, kind \in Kinds,
           Write(t, base, kind)
    PROVE  \E d, A : WriteDone(t, base, kind, d, A)
<1> DEFINE q == tab[t].queue
           Holds(other) == IF kind = "back" THEN {other} ELSE {}
           Blocker(other) == EntriesFor(q, other)
           Follows(other, start) == IF kind = "back" /\ Blocker(other) # {} THEN {Newest(Blocker(other)).key} ELSE start
           D(other, start) ==
               PlaceWrite(q, InFlight(tab[t]),
                          Entry(base, kind, clock + 1, Follows(other, start), Holds(other), tab[t].pw, t))
           V(other, start) == [World(t) EXCEPT !.tb.queue = QueueSet(q, D(other, start))]
<1>1. PICK other \in (IF kind = "back" THEN shape.bases \ {base} ELSE {base}),
           start \in {{}} \cup (IF kind # "run" THEN {} ELSE
                               {{e.key} : e \in {f \in tab[t].queue : f.kind = "back" /\ f.base # base}}) :
        /\ Do(t, FlushNow(Persist(V(other, start))))
        /\ made' = Append(made, [by |-> t, kind |-> kind,
                                 after |-> CarriedBy({e \in q : e.base = base \/ e.key \in Follows(other, start) \cup HeldBy(q, base)})])
        /\ unsaved' = IF D(other, start) \in Persist(V(other, start)).stored.has THEN unsaved ELSE unsaved \cup {D(other, start).at}
  BY ZenonT(30) DEF Write, World
<1>2. (tab[t] \in PageType) /\ (clock \in Nat) /\ (shape \in Shapes) /\ Past(Cores, clock)
  BY DEF OutboxInv, Typed, Histories
<1>3. (q \in SUBSET EntryType) /\ \A e \in q : e.at <= clock
  <2>1. \A e \in tab[t].queue : (e \in EntryType) /\ (Core(e) \in Cores)
    BY <1>2, KnownPlaces DEF PageType
  <2> QED BY <1>2, <2>1, CoreFields DEF Past
<1>4. other \in Bases /\ (kind = "back" => other # base)
  <2>1. other \in (IF kind = "back" THEN shape.bases \ {base} ELSE {base})
    BY <1>1
  <2>2. shape.bases \subseteq Bases
    BY <1>2, OutboxAssumption
  <2> QED BY <2>1, <2>2
<1>5. Holds(other) \in SUBSET Bases
  BY <1>4
<1>6. \A k \in start : \E f \in q : f.key = k /\ f.base # base
  <2>1. start \in {{}} \cup (IF kind # "run" THEN {} ELSE
                               {{e.key} : e \in {f \in tab[t].queue : f.kind = "back" /\ f.base # base}})
    BY <1>1
  <2> QED BY <2>1
<1>7. \A k \in Follows(other, start) : \E f \in q : f.key = k /\ f.base # base
  <2>1. CASE kind = "back" /\ Blocker(other) # {}
    <3>1. Blocker(other) \in SUBSET EntryType /\ \A e \in Blocker(other) : e.at <= clock
      BY <1>3 DEF EntriesFor
    <3>2. \A f \in Blocker(other) : f \in q /\ f.base = other BY DEF EntriesFor
    <3> HIDE DEF Blocker, q
    <3>3. Newest(Blocker(other)) \in Blocker(other)
      BY <1>2, <2>1, <3>1, NewestIsThere
    <3> QED BY <1>4, <2>1, <3>2, <3>3
  <2>2. CASE ~(kind = "back" /\ Blocker(other) # {})
    <3>1. Follows(other, start) = start BY <2>2
    <3> QED BY <1>6, <3>1
  <2> QED BY <2>1, <2>2
<1>8. Follows(other, start) \in SUBSET Nat
  BY <1>3, <1>7 DEF EntryType
<1>9. \A k \in HeldBy(q, base) : \E f \in q : f.key = k /\ f.base # base
  <2> DEFINE holders == {e \in q : e.base # base /\ base \in e.holds}
  <2>1. HeldBy(q, base) = IF holders = {} THEN {} ELSE {Newest(holders).key} BY DEF HeldBy
  <2>2. holders \in SUBSET EntryType /\ \A e \in holders : e.at <= clock /\ e \in q /\ e.base # base BY <1>3
  <2> HIDE DEF holders, q
  <2>3. holders # {} => Newest(holders) \in holders BY <1>2, <2>2, NewestIsThere
  <2> QED BY <2>1, <2>2, <2>3
<1> DEFINE d == D(other, start)
           A == Follows(other, start) \cup HeldBy(q, base)
<1>10. Elsewhere(q, base, A) BY <1>7, <1>9 DEF Elsewhere
<1>11. tab[t].pw \in Nat BY <1>2 DEF PageType
<1>12. Placing(q, d, base, kind, clock, t)
  <2> HIDE DEF Follows, Holds, q
  <2> QED BY <1>2, <1>3, <1>5, <1>8, <1>11, PlaceWriteIs
<1>13. Following(q, d, base, clock, A)
  <2> HIDE DEF Follows, Holds, q
  <2> QED BY <1>2, <1>3, <1>5, <1>8, <1>11, FollowingIs
<1>14. /\ Do(t, FlushNow(Persist([World(t) EXCEPT !.tb.queue = QueueSet(tab[t].queue, d)])))
       /\ made' = Append(made, [by |-> t, kind |-> kind,
                                after |-> CarriedBy({e \in q : e.base = base \/ e.key \in A})])
       /\ unsaved' = IF d \in Persist([World(t) EXCEPT !.tb.queue = QueueSet(tab[t].queue, d)]).stored.has THEN unsaved ELSE unsaved \cup {d.at}
  BY <1>1
<1> HIDE DEF d, A
<1>15. WriteDone(t, base, kind, d, A)
  BY <1>10, <1>12, <1>13, <1>14 DEF WriteDone
<1> QED BY <1>15

LEMMA WriteStays ==
    ASSUME Apart, NEW t \in Tabs, NEW base \in Bases, NEW kind \in shape.kinds[t], OutboxInv, Write(t, base, kind)
    PROVE  OutboxInv'
<1>1. /\ shape \in Shapes /\ clock \in Nat /\ pw \in Nat /\ refusing \in BOOLEAN /\ tab[t] \in PageType
      /\ events[t] \in Seq(EventType) /\ Histories(Cores, Done, clock)
  BY DEF OutboxInv, Typed
<1>2. /\ tab[t].open /\ clock' = clock + 1 /\ Done' = Done /\ shape' = shape /\ pw' = pw /\ refusing' = refusing
  BY DEF Write, Done
<1>3. (t \in shape.tabs) /\ (kind \in Kinds)
  <2>1. t \in shape.tabs
    BY <1>2 DEF OutboxInv, Shut
  <2>2. shape.kinds \in [Tabs -> SUBSET Kinds]
    BY <1>1, OutboxAssumption
  <2> QED BY <2>1, <2>2
<1> DEFINE q == tab[t].queue
           V(d) == [World(t) EXCEPT !.tb.queue = QueueSet(q, d)]
           X(d) == FlushNow(Persist(V(d)))
<1>4. PICK d : /\ Placing(q, d, base, kind, clock, t)
               /\ Do(t, X(d))
               /\ unsaved' = IF d \in Persist(V(d)).stored.has THEN unsaved ELSE unsaved \cup {d.at}
  <2>1. PICK d, A : WriteDone(t, base, kind, d, A) BY <1>3, WriteIs
  <2> QED BY <2>1 DEF WriteDone
<1>5. Ready(q, t, Cores, Done, clock)
  <2>1. \A e \in q : Core(e) \in Cores
    BY KnownPlaces
  <2>2. \A c \in Cores : c.by = t => c.carries \subseteq Done \cup CarriedBy(q)
    BY <1>2 DEF OutboxInv, Homes
  <2> QED BY <1>1, <1>3, <2>1, <2>2 DEF Ready, PageType
<1>6. \A e \in q : d.key = e.key => e.by = t
  <2> SUFFICES ASSUME NEW e \in q, d.key = e.key PROVE e.by = t
    OBVIOUS
  <2>1. (e \in EntryType) /\ (Core(e) \in Cores) /\ Past(Cores, clock) /\ Agree(Cores, Done)
    BY <1>5 DEF Ready, Histories
  <2>2. e.key # clock + 1
    <3>1. (e.key <= clock) /\ (e.key \in Nat)
      BY <2>1, CoreFields DEF Past, EntryType
    <3> QED BY <1>1, <3>1
  <2>3. PICK f \in q : d.key = f.key /\ Class(f.kind) = Class(kind) /\ kind \in Score \cup {"lineup"}
    BY <1>4, <2>2 DEF Placing
  <2>4. (f \in EntryType) /\ (Core(f) \in Cores)
    BY <1>5, <2>3 DEF Ready
  <2>5. Core(f).by = t
    <3>1. Class(Core(f).kind) = Class(kind) /\ kind # "tap" /\ kind # "back"
      BY <2>3, <2>4, CoreFields DEF Score
    <3> QED BY <1>1, <1>3, <2>4, <3>1, OwnTarget
  <2>6. Core(e).by = Core(f).by
    <3>1. Core(e).key = Core(f).key
      BY <2>1, <2>3, <2>4, CoreFields
    <3> QED BY <2>1, <2>4, <3>1 DEF Agree
  <2> QED BY <2>1, <2>5, <2>6, CoreFields
<1> DEFINE C == Cores \cup {Core(d)}
           v == V(d)
           p == Persist(v)
           x == X(d)
<1>7. /\ Good(v, t, C, Done)
      /\ v.tb.queue = QueueSet(q, d) /\ v.tb.settled = tab[t].settled
      /\ v.tb.adopted = tab[t].adopted /\ v.tb.open /\ v.stored = stored
      /\ CarriedBy(q) \subseteq CarriedBy(v.tb.queue) \cup Done
      /\ d.carries \subseteq CarriedBy(v.tb.queue)
      /\ \A u \in Tabs : SettledDone(tab[u].settled, C, Done)
      /\ Adopted(tab[t], Done) => Adopted(v.tb, Done)
  <2>1. PlacedPage(t, v, d, Cores \cup {Core(d)}, Done)
    BY <1>2, <1>4, <1>5, <1>6, PlacedGood
  <2> QED BY <2>1 DEF PlacedPage
<1>8. /\ Histories(C, Done, clock + 1) /\ Agree(C, Done) /\ (clock + 1) \in d.carries
      /\ d \in EntryType /\ d.at = clock + 1 /\ d.by = t
  <2>1. PlacedKnown(q, d, Cores, Done, clock)
    BY <1>4, <1>5, <1>6, PlacedHistories
  <2> QED BY <1>4, <2>1 DEF PlacedKnown, Placing, Histories
<1>9. Do(t, x) /\ (unsaved' = IF d \in p.stored.has THEN unsaved ELSE unsaved \cup {d.at})
  BY <1>4
<1> HIDE DEF C, V, v
<1>10. Fine(v, p, t, C, Done)
  BY <1>1, <1>7, <1>8, PersistGood DEF Fine
<1>11. Fine(p, x, t, C, Done)
  <2>1. x = FlushNow(p)
    BY DEF v
  <2> HIDE DEF x, p
  <2> QED BY <1>1, <1>8, <1>10, <2>1, FlushNowGood DEF Fine
<1> HIDE DEF p, X, x
<1>12. Fine(v, x, t, C, Done)
  BY <1>10, <1>11, FineTwice
<1>13. /\ Good(x, t, C, Done) /\ x.tb.open /\ x.tb.adopted = tab[t].adopted
       /\ x.tb.settled \subseteq tab[t].settled \cup Labels(v.tb)
       /\ CarriedBy(stored.has) \subseteq CarriedBy(x.stored.has) \cup Done
       /\ CarriedBy(p.stored.has) \subseteq CarriedBy(x.stored.has) \cup Done
       /\ CarriedBy(v.tb.queue) \subseteq CarriedBy(x.tb.queue) \cup Done
  BY <1>7, <1>11, <1>12 DEF Fine, Onward
<1>14. \A n \in 1 .. (clock + 1) : n \in 1 .. clock \/ n = clock + 1
  BY <1>1
<1>15. NothingLost'
  <2>1. \A n \in 1 .. clock' : n \in 1 .. clock \/ n \in CarriedBy(x.tb.queue) \cup Done'
    BY <1>2, <1>7, <1>8, <1>13, <1>14
  <2>2. (tab' = [tab EXCEPT ![t] = x.tb]) /\ (stored' = x.stored)
    BY <1>9 DEF Do
  <2>3. CarriedBy(tab[t].queue) \subseteq CarriedBy(x.tb.queue) \cup Done'
    BY <1>2, <1>7, <1>13
  <2> QED BY <1>2, <1>13, <2>1, <2>2, <2>3, StepKeeps DEF OutboxInv
<1>16. \A n \in 1 .. clock' :
          n \notin unsaved' => (n \in 1 .. clock /\ n \notin unsaved) \/ n \in Done' \cup CarriedBy(x.stored.has)
  <2> SUFFICES ASSUME NEW n \in 1 .. (clock + 1), n \notin unsaved', ~(n \in 1 .. clock /\ n \notin unsaved)
               PROVE  n \in Done' \cup CarriedBy(x.stored.has)
    BY <1>2
  <2>1. (n = clock + 1) /\ d \in p.stored.has
    BY <1>8, <1>9, <1>14
  <2>2. n \in CarriedBy(p.stored.has)
    BY <1>8, <2>1 DEF CarriedBy
  <2> QED BY <1>2, <1>13, <2>2
<1>17. Dated(x.tb, clock')
  <2>1. \A r \in tab[t].settled \cup tab[t].adopted : (r[2] \in Nat) /\ r[2] <= clock
    BY DEF OutboxInv, AllDated, Dated, Typed, PageType, Names
  <2>2. \A r \in Labels(v.tb) : r[2] <= clock + 1
    <3>1. \A e \in v.tb.queue : (Core(e) \in C) /\ (e \in EntryType)
      BY <1>7 DEF Good, PageGood, WorldType, PageType
    <3>2. Past(C, clock + 1)
      BY <1>8 DEF Histories
    <3> QED BY <3>1, <3>2, CoreFields DEF Labels, Named, Past
  <2>3. \A r \in x.tb.settled \cup x.tb.adopted : r \in tab[t].settled \cup tab[t].adopted \cup Labels(v.tb)
    BY <1>13
  <2> QED BY <1>1, <1>2, <2>1, <2>2, <2>3 DEF Dated
<1>18. MailOf(events[t], x.tb, C, Done', Done' \cup CarriedBy(x.stored.has))
  <2>1. MailOf(events[t], tab[t], Cores, Done, Safe)
    BY DEF OutboxInv, Mail
  <2>2. MailOf(events[t], tab[t], C, Done, Safe)
    <3>1. Cores \subseteq C
      BY DEF C
    <3> QED BY <2>1, <3>1 DEF MailOf, Told
  <2>3. Adopted(tab[t], Done) => Adopted(x.tb, Done')
    BY <1>2, <1>7, <1>8, <1>12, AdoptedOnward
  <2>4. (Done \subseteq Done') /\ (Safe \subseteq Done' \cup CarriedBy(x.stored.has))
    BY <1>2, <1>13 DEF Safe
  <2> HIDE DEF Done, Safe
  <2> QED BY <2>2, <2>3, <2>4, MailOn
<1>19. \A c \in C : c.by = t => c.carries \subseteq Done' \cup CarriedBy(x.tb.queue)
  <2>1. \A c \in Cores : c.by = t => c.carries \subseteq Done \cup CarriedBy(q)
    BY <1>5 DEF Ready
  <2>2. Core(d).carries = d.carries
    BY <1>8, CoreFields
  <2> QED BY <1>2, <1>7, <1>13, <2>1, <2>2 DEF C
<1>20. \A c \in C : c \in Cores \/ c.by = t
  BY <1>8, CoreFields DEF C
<1>21. Moved(t, x, events[t])
  BY <1>9, DoMoves
<1>22. \A j \in DOMAIN x.news :
          /\ Told(x.news[j], C, Done', Done' \cup CarriedBy(x.stored.has))
          /\ x.news[j].new.there \/ CarriedBy(x.stored.has) \subseteq Done'
  BY <1>2, <1>13 DEF Good
<1>23. /\ PageGood(x, t, C, Done') /\ Histories(C, Done', clock')
       /\ \A u \in Tabs : SettledDone(tab[u].settled, C, Done')
       /\ Cores \subseteq C /\ CarriedBy(stored.has) \subseteq Done' \cup CarriedBy(x.stored.has)
  BY <1>2, <1>7, <1>8, <1>13 DEF Good, C
<1>24. /\ shape' = shape /\ clock' \in Nat /\ clock <= clock' /\ Done \subseteq Done'
       /\ refusing' \in BOOLEAN /\ pw' \in Nat
  BY <1>1, <1>2
<1> HIDE DEF Done
<1>25. PageMoves(t, x, C, events[t])
  BY <1>1, <1>3, <1>13, <1>15, <1>16, <1>17, <1>18, <1>19, <1>20, <1>21, <1>22, <1>23, <1>24 DEF PageMoves, Moved
<1> QED BY <1>25, MovesInv

---------------------------------------------------------------------------
(* The theorems.                                                           *)

LEMMA FirstState ==
    ASSUME Init
    PROVE  OutboxInv
<1> DEFINE Page(t) == [Fresh({}, 1) EXCEPT !.open = t \in shape.tabs]
<1>1. \A t \in Tabs : /\ Page(t) \in PageType /\ Page(t).queue = {} /\ Page(t).turns = {} /\ Page(t).settled = {}
                      /\ Page(t).adopted = {} /\ Page(t).open = (t \in shape.tabs)
  <2> TAKE t \in Tabs
  <2> DEFINE o == t \in shape.tabs
             z == [Fresh({}, 1) EXCEPT !.open = o]
  <2>1. o \in BOOLEAN
    OBVIOUS
  <2> HIDE DEF o
  <2>2. /\ z \in PageType /\ z.queue = {} /\ z.turns = {} /\ z.settled = {} /\ z.adopted = {} /\ z.open = o
    BY <2>1 DEF Fresh, PageType
  <2>3. Page(t) = z
    BY DEF o
  <2> HIDE DEF z, Page
  <2> QED BY <2>2, <2>3 DEF o
<1>2. /\ tab = [t \in Tabs |-> Page(t)] /\ stored = [there |-> FALSE, has |-> {}] /\ events = [t \in Tabs |-> <<>>]
      /\ clock = 0 /\ refusing = FALSE /\ pw = 1 /\ shape \in Shapes
  BY DEF Init
<1> HIDE DEF Page
<1>3. /\ \A t \in Tabs : tab[t] = Page(t) /\ events[t] = <<>>
      /\ stored.has = {} /\ stored \in CopyType
  BY <1>2 DEF CopyType
<1>4. Cores = {}
  <2>1. \A t \in Tabs : tab[t].queue \cup Sent(tab[t]) = {} /\ Heard(events[t]) = {}
    BY <1>1, <1>3 DEF Sent, Heard
  <2>2. \A e \in Known : FALSE
    BY <1>3, <2>1, KnownPlaces
  <2> QED BY <2>2 DEF Cores
<1>5. Typed
  <2>1. tab \in [Tabs -> PageType]
    BY <1>1, <1>2
  <2>2. events \in [Tabs -> Seq(EventType)]
    <3>1. <<>> \in Seq(EventType)
      OBVIOUS
    <3> QED BY <1>2, <3>1
  <2> QED BY <1>2, <1>3, <2>1, <2>2 DEF Typed
<1>6. Histories(Cores, Done, clock)
  BY <1>4 DEF Histories, Agree, OneKey, Past, MadeBy
<1>7. Pages
  <2> SUFFICES ASSUME NEW t \in Tabs PROVE Good(World(t), t, Cores, Done)
    BY DEF Pages
  <2> DEFINE w == World(t)
  <2>1. /\ w.tb = Page(t) /\ w.stored = stored /\ w.news = <<>> /\ w.kick = FALSE
        /\ w = [tb |-> Page(t), stored |-> stored, news |-> <<>>, kick |-> FALSE]
    BY <1>3 DEF World
  <2> HIDE DEF w
  <2>2. w \in WorldType
    BY <1>1, <1>3, <2>1 DEF WorldType
  <2>3. w.tb.queue \cup Sent(w.tb) \cup w.stored.has = {}
    BY <1>1, <1>3, <2>1 DEF Sent
  <2>4. SettledDone(w.tb.settled, Cores, Done) /\ Answered(w.tb, Done)
    BY <1>1, <2>1 DEF SettledDone, Answered
  <2>5. Away(w.tb, t, Done \cup CarriedBy(w.stored.has)) /\ Adopted(w.tb, Done \cup CarriedBy(w.stored.has))
    BY <2>3 DEF Away, Adopted
  <2>6. DOMAIN w.news = {}
    BY <2>1
  <2> QED BY <2>2, <2>3, <2>4, <2>5, <2>6 DEF Good, PageGood, w
<1>8. Mail
  BY <1>3 DEF Mail, MailOf
<1>9. Homes
  BY <1>4 DEF Homes
<1>10. Saved /\ NothingLost
  <2>1. 1 .. clock = {}
    BY <1>2
  <2> QED BY <2>1 DEF Saved, NothingLost
<1>11. Shut /\ AllDated
  BY <1>1, <1>3 DEF Shut, AllDated, Dated
<1> QED BY <1>5, <1>6, <1>7, <1>8, <1>9, <1>10, <1>11 DEF OutboxInv

LEMMA StepStays ==
    ASSUME Apart, OutboxInv, [Next]_vars
    PROVE  OutboxInv'
<1>1. CASE UNCHANGED vars
  <2>1. UNCHANGED <<shape, clock, tab, stored, events, met, gone, unsaved>> /\ (refusing' = refusing) /\ (pw' = pw)
    BY <1>1 DEF vars
  <2> QED BY <2>1, AsideStays DEF OutboxInv, Typed
<1>2. CASE ResetPassword
  BY <1>2, AsideStays DEF ResetPassword, OutboxInv, Typed
<1>3. CASE StorageTurns
  BY <1>3, AsideStays DEF StorageTurns, OutboxInv, Typed
<1>4. ASSUME NEW t \in Tabs, NEW base \in Bases, NEW kind \in shape.kinds[t], Write(t, base, kind) PROVE OutboxInv'
  BY <1>4, WriteStays
<1>5. ASSUME NEW t \in Tabs,
             \/ DiscardHeldWrite(t) \/ ParkQueueForReauth(t) \/ ResumeAfterAuth(t) \/ ClearQueue(t)
             \/ Close(t) \/ Open(t)
             \/ ServerAnswers(t) \/ Hears(t) \/ GivesUp(t) \/ TimerFires(t) \/ OnStoredQueueChanged(t)
      PROVE  OutboxInv'
  BY <1>5, DiscardStays, ParkStays, ResumeStays, ClearStays, CloseStays, OpenStays, ServerStays, HearsStays,
     GivesUpStays, TimerStays, StoredStays
<1> QED BY <1>1, <1>2, <1>3, <1>4, <1>5 DEF Next

\* Whatever the pages of a device do, the entries they hold, send, store and
\* tell each other of stay copies of one another: of two under one key the newer
\* carries what the older does, what a page settles is done, and what it takes
\* from storage is safe there (_persistQueue, _onStoredQueueChanged).
THEOREM OutboxInvariant == Apart => (Spec => []OutboxInv)
<1> SUFFICES ASSUME Apart PROVE Spec => []OutboxInv
  OBVIOUS
<1>1. Init => OutboxInv
  BY FirstState
<1>2. OutboxInv /\ [Next]_vars => OutboxInv'
  BY StepStays
<1> QED BY <1>1, <1>2, PTL DEF Spec

\* No write an operator made and did not give up is ever lost: it is with the
\* server, in the queue of an open page or in browser storage (NothingLost,
\* _persistQueue), with any number of pages, matches, writes and faults, when no two pages
\* score one match.
THEOREM NothingIsLost == Apart => (Spec => []NothingLost)
<1>1. OutboxInv => NothingLost
  BY DEF OutboxInv
<1> QED BY <1>1, OutboxInvariant, PTL

---------------------------------------------------------------------------
(* What a page alone with storage leaves there.                            *)

\* Every entry of storage is one the page holds, as new or newer, or one it
\* settled and has yet to take out.
Covers(tb, e) == \E f \in tb.queue : f.key = e.key /\ e.at <= f.at
Sealing(w) == \A e \in w.stored.has : Covers(w.tb, e) \/ IsSettled(w.tb.settled, e)
Sealed(w) == \A e \in w.stored.has : Covers(w.tb, e) \/ (w.tb.left /\ IsSettled(w.tb.settled, e))

Whole(w) == w \in WorldType /\ w.tb.open /\ (~w.stored.there => w.stored.has = {})
Sound(w) == Whole(w) /\ Sealed(w)

LEMMA QuietlySound ==
    ASSUME NEW w, NEW v, Sound(w), Quietly(w, v)
    PROVE  Sound(v)
  BY DEF Sound, Whole, Sealed, Covers, Quietly

LEMMA PersistSound ==
    ASSUME NEW w, Whole(w), Sealing(w), refusing \in BOOLEAN
    PROVE  Sound(Persist(w))
<1> DEFINE m == Merge(w.stored.has, w.tb.queue, w.tb.settled)
           landed == [w EXCEPT !.tb.settled = {}, !.tb.left = FALSE]
           l == \E e \in w.stored.has : IsSettled(w.tb.settled, e)
           kept == [w EXCEPT !.tb.left = l]
           copy == [there |-> TRUE, has |-> m]
           event == [old |-> w.stored, new |-> copy]
           done == [landed EXCEPT !.stored = copy, !.news = Append(@, event)]
<1>1. /\ w \in WorldType /\ w.tb.queue \in SUBSET EntryType /\ w.stored.has \in SUBSET EntryType
      /\ w.stored \in CopyType /\ w.news \in Seq(EventType) /\ l \in BOOLEAN
  BY DEF Whole, WorldType, PageType, CopyType
<1>2. m \subseteq w.stored.has \cup w.tb.queue
  BY DEF Merge
<1>3. ASSUME NEW e \in m PROVE Covers(w.tb, e)
  <2> DEFINE free == {f \in w.stored.has : ~IsSettled(w.tb.settled, f)}
             mine == {d \in w.tb.queue : ~\E f \in free : f.key = d.key /\ f.at > d.at}
  <2>1. m = {f \in free : f.key \notin KeysOf(mine)} \cup mine
    BY DEF Merge
  <2>2. CASE e \in mine
    <3>1. (e \in w.tb.queue) /\ (e.at <= e.at)
      BY <1>1, <2>2 DEF EntryType
    <3> QED BY <3>1 DEF Covers
  <2>3. CASE e \in free
    BY <2>3 DEF Sealing
  <2> QED BY <2>1, <2>2, <2>3
<1> HIDE DEF m, l
<1>4. (copy \in CopyType) /\ (event \in EventType) /\ copy.there /\ copy.has = m
  BY <1>1, <1>2 DEF CopyType, EventType
<1>5. /\ landed \in WorldType /\ landed.tb.queue = w.tb.queue
      /\ landed.stored = w.stored /\ landed.news = w.news /\ landed.tb.open = w.tb.open
  BY <1>1 DEF WorldType, PageType
<1>6. /\ kept \in WorldType /\ kept.tb.queue = w.tb.queue /\ kept.tb.settled = w.tb.settled /\ kept.tb.left = l
      /\ kept.stored = w.stored /\ kept.tb.open = w.tb.open
  BY <1>1 DEF WorldType, PageType
<1> HIDE DEF landed, kept, event, copy
<1>7. /\ done \in WorldType /\ done.tb = landed.tb /\ done.stored = copy
  <2>1. Append(landed.news, event) \in Seq(EventType)
    BY <1>1, <1>4, <1>5
  <2> HIDE DEF landed
  <2> QED BY <1>4, <1>5, <2>1 DEF WorldType
<1>8. \/ m = {} /\ ~w.stored.there /\ Persist(w) = landed
      \/ Persist(w) = kept
      \/ w.stored = copy /\ Persist(w) = landed
      \/ Persist(w) = done
  BY <1>5 DEF Persist, Store, m, landed, kept, l, copy, event
<1>9. Sound(kept)
  <2>1. \A e \in w.stored.has : IsSettled(w.tb.settled, e) => l
    BY DEF l
  <2> QED BY <1>6, <2>1 DEF Sound, Whole, Sealed, Sealing, Covers
<1>10. (m = {} /\ ~w.stored.there) => Sound(landed)
  BY <1>5 DEF Sound, Whole, Sealed
<1>11. (w.stored = copy) => Sound(landed)
  BY <1>3, <1>4, <1>5 DEF Sound, Whole, Sealed, Covers
<1>12. Sound(done)
  BY <1>3, <1>4, <1>5, <1>7 DEF Sound, Whole, Sealed, Covers
<1> HIDE DEF done
<1> QED BY <1>8, <1>9, <1>10, <1>11, <1>12

LEMMA SoundSealing ==
    ASSUME NEW w, Sound(w)
    PROVE  Whole(w) /\ Sealing(w) /\ w \in WorldType
  BY DEF Sound, Whole, Sealed, Sealing

LEMMA DequeueSealing ==
    ASSUME NEW w, Sound(w), NEW ps
    PROVE  Whole(Dequeue(w, ps)) /\ Sealing(Dequeue(w, ps))
<1> DEFINE leaving == {e \in w.tb.queue : Named(e) \in ps}
           q == w.tb.queue \ leaving
           names == {Named(e) : e \in leaving}
           k == w.kick \/ \E e \in leaving : IsFollowed(q, e.key)
           v == [w EXCEPT !.tb.queue = q, !.tb.settled = @ \cup names, !.tb.here = @ \cup names, !.kick = k]
<1>1. (w \in WorldType) /\ (w.tb.queue \in SUBSET EntryType) /\ (w.stored.has \in SUBSET EntryType)
  BY DEF Sound, Whole, WorldType, PageType, CopyType
<1>2. (q \in SUBSET EntryType) /\ (names \in SUBSET Names) /\ (k \in BOOLEAN)
  BY <1>1, NamedType DEF WorldType
<1>3. Dequeue(w, ps) = v
  BY DEF Dequeue
<1>4. \A f \in w.tb.queue : f \in q \/ Named(f) \in names
  OBVIOUS
<1> HIDE DEF q, names, k
<1>5. /\ v \in WorldType /\ v.tb.queue = q /\ v.tb.settled = w.tb.settled \cup names /\ v.stored = w.stored
      /\ v.tb.open = w.tb.open
  BY <1>1, <1>2 DEF WorldType, PageType
<1> HIDE DEF v
<1>6. ASSUME NEW e \in w.stored.has PROVE Covers(v.tb, e) \/ IsSettled(v.tb.settled, e)
  <2>1. CASE IsSettled(w.tb.settled, e)
    BY <1>5, <2>1 DEF IsSettled
  <2>2. CASE Covers(w.tb, e)
    <3>1. PICK f \in w.tb.queue : f.key = e.key /\ e.at <= f.at
      BY <2>2 DEF Covers
    <3>2. (Named(f)[1] = e.key) /\ (e.at <= Named(f)[2])
      BY <3>1 DEF Named
    <3> QED BY <1>4, <1>5, <3>1, <3>2 DEF Covers, IsSettled
  <2> QED BY <2>1, <2>2 DEF Sound, Sealed
<1> QED BY <1>3, <1>5, <1>6 DEF Whole, Sealing, Sound

\* Entries whose marks and passwords alone changed cover the same.
LEMMA RemarkSound ==
    ASSUME NEW w, NEW v, Sound(w), v \in WorldType, SameCores(w.tb.queue, v.tb.queue),
           v.tb.settled = w.tb.settled, v.tb.left = w.tb.left, v.stored = w.stored, v.tb.open = w.tb.open
    PROVE  Sound(v)
<1>1. (w.tb.queue \in SUBSET EntryType) /\ (v.tb.queue \in SUBSET EntryType)
  BY DEF Sound, Whole, WorldType, PageType
<1>2. \A f \in w.tb.queue : \E d \in v.tb.queue : d.key = f.key /\ d.at = f.at
  BY <1>1, CoreFields DEF SameCores
<1>3. \A e : Covers(w.tb, e) => Covers(v.tb, e)
  BY <1>2 DEF Covers
<1> QED BY <1>3 DEF Sound, Whole, Sealed

LEMMA MarkSound ==
    ASSUME NEW w, Sound(w), NEW u
    PROVE  Sound(Mark(w, u))
<1> DEFINE after(e) == IF Named(e) \in NamesOf(u) THEN Marked(e, u.phase) ELSE e
           q == {after(e) : e \in w.tb.queue}
           f == w.tb.anyFailed \/ u.phase = "err"
           v == [w EXCEPT !.tb.queue = q, !.tb.anyFailed = f]
<1>1. (w \in WorldType) /\ (w.tb.queue \in SUBSET EntryType)
  BY DEF Sound, Whole, WorldType, PageType
<1>2. Mark(w, u) = v
  BY <1>1 DEF Mark, WorldType, PageType
<1>3. \A e \in w.tb.queue : (after(e) \in EntryType) /\ (Core(after(e)) = Core(e))
  BY <1>1, MarkedType DEF Core
<1> HIDE DEF after
<1>4. (q \in SUBSET EntryType) /\ (f \in BOOLEAN) /\ SameCores(w.tb.queue, q)
  <2>1. f \in BOOLEAN
    BY <1>1 DEF WorldType, PageType
  <2> HIDE DEF f
  <2> QED BY <1>3, <2>1 DEF SameCores
<1> HIDE DEF q, f
<1>5. /\ v \in WorldType /\ v.tb.queue = q /\ v.tb.settled = w.tb.settled /\ v.tb.left = w.tb.left
      /\ v.stored = w.stored /\ v.tb.open = w.tb.open
  BY <1>1, <1>4 DEF WorldType, PageType
<1> HIDE DEF v
<1> QED BY <1>2, <1>4, <1>5, RemarkSound

LEMMA FinishSound ==
    ASSUME NEW w, Sound(w), refusing \in BOOLEAN
    PROVE  Sound(Finish(w))
<1> DEFINE p == Persist(w)
           b == p.tb.queue # {} /\ p.tb.anyFailed
           v == [p EXCEPT !.tb.pass = FALSE, !.tb.cut = FALSE, !.tb.failed = {}, !.tb.anyFailed = FALSE,
                          !.tb.timer = b]
<1>1. Sound(p)
  BY SoundSealing, PersistSound
<1>2. (p \in WorldType) /\ (b \in BOOLEAN)
  BY <1>1 DEF Sound, Whole, WorldType, PageType
<1>3. Finish(w) = v
  BY DEF Finish
<1> HIDE DEF p, b
<1>4. Quietly(p, v)
  BY <1>2 DEF Quietly, WorldType, PageType
<1> HIDE DEF v
<1> QED BY <1>1, <1>3, <1>4, QuietlySound

LEMMA PassEndSound ==
    ASSUME NEW w, Sound(w), refusing \in BOOLEAN
    PROVE  Sound(PassEnd(w))
<1> DEFINE again == Begin(Persist(w))
<1>1. Sound(Persist(w))
  BY SoundSealing, PersistSound
<1>2. Sound(again)
  BY <1>1, SoundSealing, BeginQuiet, QuietlySound
<1> HIDE DEF again
<1>3. PassEnd(w) \in {w, Finish(w), Finish(again), again}
  BY DEF PassEnd, again
<1> QED BY <1>2, <1>3, FinishSound

LEMMA FlushQueueSound ==
    ASSUME NEW w, Sound(w), refusing \in BOOLEAN
    PROVE  Sound(FlushQueue(w))
<1> DEFINE v == [w EXCEPT !.tb.requested = TRUE]
<1>1. w \in WorldType
  BY SoundSealing
<1>2. Quietly(w, v) /\ (v \in WorldType)
  BY <1>1 DEF Quietly, WorldType, PageType
<1> HIDE DEF v
<1>3. Sound(Launch(v))
  BY <1>2, LaunchQuiet, QuietlySound
<1>4. Sound(Begin(w))
  BY <1>1, BeginQuiet, QuietlySound
<1>5. Sound(PassEnd(Begin(w)))
  BY <1>4, PassEndSound
<1> QED BY <1>3, <1>5 DEF FlushQueue, v

LEMMA FlushNowSound ==
    ASSUME NEW w, Sound(w), refusing \in BOOLEAN
    PROVE  Sound(FlushNow(w))
<1> DEFINE v == [w EXCEPT !.tb.timer = FALSE]
<1>1. w \in WorldType
  BY SoundSealing
<1>2. Quietly(w, v)
  BY <1>1 DEF Quietly, WorldType, PageType
<1> HIDE DEF v
<1>3. FlushNow(w) = FlushQueue(v)
  BY DEF FlushNow, v
<1> QED BY <1>2, <1>3, QuietlySound, FlushQueueSound

LEMMA RerunSound ==
    ASSUME NEW w, Sound(w), refusing \in BOOLEAN
    PROVE  Sound(RerunFlushSoon(w))
<1> DEFINE v == [w EXCEPT !.kick = FALSE]
<1>1. w \in WorldType
  BY SoundSealing
<1>2. Quietly(w, v)
  BY <1>1 DEF Quietly, WorldType
<1> HIDE DEF v
<1>3. RerunFlushSoon(w) \in {w, FlushQueue(v)}
  BY DEF RerunFlushSoon, v
<1> QED BY <1>2, <1>3, QuietlySound, FlushQueueSound

LEMMA GoOnSound ==
    ASSUME NEW w, Sound(w), NEW u \in TurnType
    PROVE  Sound(GoOn(w, u))
  BY SoundSealing, GoOnQuiet, QuietlySound

LEMMA EndTurnSound ==
    ASSUME NEW w, Sound(w), NEW u \in TurnType, NEW outcome
    PROVE  Sound(EndTurn(w, u, outcome))
  BY SoundSealing, EndTurnQuiet, QuietlySound

\* What is taken out is taken out of storage too.
LEMMA TakeOutSound ==
    ASSUME NEW w, Sound(w), NEW ps, refusing \in BOOLEAN
    PROVE  Sound(RerunFlushSoon(Persist(Dequeue(w, ps))))
  BY DequeueSealing, PersistSound, RerunSound

LEMMA SendEntrySound ==
    ASSUME NEW w, Sound(w), refusing \in BOOLEAN, NEW u \in w.tb.turns
    PROVE  Sound(SendEntry(w, u))
<1> DEFINE e == Oldest(u.sent)
           p == Named(e)
           heard == [w EXCEPT !.tb.discarded = @ \ {p}]
           asked == [w EXCEPT !.tb.requested = TRUE]
           left == RerunFlushSoon(Persist(Dequeue(heard, {p})))
<1>1. (w \in WorldType) /\ (u \in TurnType)
  BY DEF Sound, Whole, WorldType, PageType
<1> HIDE DEF p
<1>2. Quietly(w, heard) /\ Quietly(w, asked)
  BY <1>1 DEF Quietly, WorldType, PageType
<1> HIDE DEF heard, asked
<1>3. Sound(heard) /\ Sound(asked)
  BY <1>2, QuietlySound
<1>4. Sound(left)
  BY <1>3, TakeOutSound
<1>5. Sound(Mark(w, u))
  BY MarkSound
<1>6. SendEntry(w, u) \in {GoOn(heard, u), EndTurn(Mark(w, u), u, "kept"),
                           EndTurn(asked, u, "restamped"), GoOn(w, u), GoOn(left, u)}
  BY DEF SendEntry, p, heard, asked
<1> HIDE DEF left
<1> QED BY <1>1, <1>3, <1>4, <1>5, <1>6, GoOnSound, EndTurnSound

LEMMA SendTapBatchSound ==
    ASSUME NEW w, Sound(w), refusing \in BOOLEAN, NEW u \in w.tb.turns
    PROVE  Sound(SendTapBatch(w, u))
<1> DEFINE left == RerunFlushSoon(Persist(Dequeue(w, NamesOf(u))))
<1>1. (w \in WorldType) /\ (u \in TurnType)
  BY DEF Sound, Whole, WorldType, PageType
<1>2. Sound(left)
  BY TakeOutSound
<1>3. Sound(Mark(w, u))
  BY MarkSound
<1>4. Sound(Persist(Mark(w, u)))
  BY <1>3, SoundSealing, PersistSound
<1>5. SendTapBatch(w, u) \in {EndTurn(Mark(w, u), u, "kept"), EndTurn(Persist(Mark(w, u)), u, "kept"),
                              GoOn(w, u), GoOn(left, u)}
  BY DEF SendTapBatch
<1> HIDE DEF left
<1> QED BY <1>1, <1>2, <1>3, <1>4, <1>5, GoOnSound, EndTurnSound

---------------------------------------------------------------------------
(* A device with one page.                                                 *)

OnePage == \A s \in Shapes : \A t, u \in s.tabs : t = u

AloneInv ==
    /\ spent \in [Faults -> Nat]
    /\ \A t \in Tabs : events[t] = <<>>
    /\ \A t \in Tabs : tab[t].open => Sealed(World(t))
    /\ spent["close"] = 0 => \A t \in shape.tabs : tab[t].open

\* The counts of faults, but for pages that went away.
Counted == spent' \in [Faults -> Nat] /\ spent'["close"] = spent["close"]

LEMMA AloneMoves ==
    ASSUME OnePage, OutboxInv, AloneInv, NEW t \in Tabs, t \in shape.tabs, NEW w, Do(t, w), Sound(w), shape' = shape, Counted
    PROVE  AloneInv'
<1>1. \A u \in Tabs : tab[u].open => u = t
  <2>1. \A u \in Tabs : tab[u].open => u \in shape.tabs
    BY DEF OutboxInv, Shut
  <2>2. shape \in Shapes
    BY DEF OutboxInv, Typed
  <2> QED BY <2>1, <2>2 DEF OnePage
<1>2. tab \in [Tabs -> PageType]
  BY DEF OutboxInv, Typed
<1>3. /\ tab' = [tab EXCEPT ![t] = w.tb] /\ stored' = w.stored
      /\ events' = [u \in Tabs |-> IF u # t /\ tab[u].open THEN events[u] \o w.news ELSE events[u]]
  BY DEF Do
<1>4. \A u \in Tabs : tab'[u] = IF u = t THEN w.tb ELSE tab[u]
  BY <1>2, <1>3
<1>5. \A u \in Tabs : events'[u] = <<>>
  BY <1>1, <1>3 DEF AloneInv
<1>6. ASSUME NEW u \in Tabs, tab'[u].open PROVE Sealed(World(u))'
  <2>1. u = t
    BY <1>1, <1>4, <1>6
  <2>2. \A e \in w.stored.has : Covers(w.tb, e) \/ (w.tb.left /\ IsSettled(w.tb.settled, e))
    BY DEF Sound, Sealed
  <2>3. (tab'[u] = w.tb) /\ (stored' = w.stored)
    BY <1>3, <1>4, <2>1
  <2> QED BY <2>2, <2>3 DEF Sealed, World, Covers, IsSettled
<1>7. (spent'["close"] = 0) => \A u \in shape'.tabs : tab'[u].open
  <2>1. shape.tabs \subseteq Tabs
    BY OutboxAssumption DEF OutboxInv, Typed
  <2> QED BY <1>4, <2>1 DEF AloneInv, Counted, Sound, Whole
<1> QED BY <1>5, <1>6, <1>7 DEF AloneInv, Counted

\* Where an open page is.
LEMMA AloneSound ==
    ASSUME OutboxInv, AloneInv, NEW t \in Tabs, tab[t].open
    PROVE  /\ Sound(World(t)) /\ World(t) \in WorldType /\ World(t).tb = tab[t] /\ World(t).stored = stored
           /\ t \in shape.tabs /\ refusing \in BOOLEAN
<1>1. Good(World(t), t, Cores, Done)
  BY DEF OutboxInv, Pages
<1>2. Sealed(World(t))
  BY DEF AloneInv
<1> QED BY <1>1, <1>2, WorldIs DEF Sound, Whole, Good, PageGood, OutboxInv, Shut, Typed

\* A step that leaves the pages, storage and what they hear alone.
LEMMA AloneAside ==
    ASSUME AloneInv, UNCHANGED <<shape, tab, stored, events>>, Counted
    PROVE  AloneInv'
<1>1. \A t \in Tabs : Sealed(World(t)) => Sealed(World(t))'
  BY DEF Sealed, World, Covers, IsSettled
<1> QED BY <1>1 DEF AloneInv, Counted

LEMMA SpendCounts ==
    ASSUME AloneInv, NEW fault \in Faults, fault # "close", Spend(fault)
    PROVE  Counted
  BY DEF Spend, AloneInv, Counted

LEMMA SpendNone ==
    ASSUME AloneInv, spent' = spent
    PROVE  Counted
  BY DEF AloneInv, Counted

LEMMA TimerAlone ==
    ASSUME OnePage, NEW t \in Tabs, OutboxInv, AloneInv, TimerFires(t)
    PROVE  AloneInv'
<1>1. tab[t].open /\ Do(t, FlushNow(World(t))) /\ shape' = shape /\ spent' = spent
  BY DEF TimerFires
<1>2. Sound(World(t)) /\ t \in shape.tabs /\ refusing \in BOOLEAN
  BY <1>1, AloneSound
<1> QED BY <1>1, <1>2, FlushNowSound, SpendNone, AloneMoves

LEMMA HearsAlone ==
    ASSUME OnePage, NEW t \in Tabs, OutboxInv, AloneInv, Hears(t)
    PROVE  AloneInv'
<1>1. PICK u \in tab[t].turns : u.phase # "sent" /\ Do(t, PassEnd(IF IsTaps(u) THEN SendTapBatch(World(t), u) ELSE SendEntry(World(t), u)))
  BY DEF Hears
<1> DEFINE x == IF IsTaps(u) THEN SendTapBatch(World(t), u) ELSE SendEntry(World(t), u)
<1>2. shape' = shape /\ spent' = spent
  BY DEF Hears
<1>3. (u \in tab[t].turns) /\ tab[t].open
  <2>1. u \in tab[t].turns
    BY <1>1
  <2> QED BY <2>1 DEF OutboxInv, Shut
<1>4. /\ Sound(World(t)) /\ t \in shape.tabs /\ refusing \in BOOLEAN /\ u \in World(t).tb.turns
  BY <1>3, AloneSound
<1>5. Sound(x)
  BY <1>4, SendEntrySound, SendTapBatchSound
<1>6. Do(t, PassEnd(x))
  BY <1>1
<1> HIDE DEF x
<1>7. Sound(PassEnd(x))
  BY <1>4, <1>5, PassEndSound
<1> QED BY <1>2, <1>4, <1>6, <1>7, SpendNone, AloneMoves

LEMMA GivesUpAlone ==
    ASSUME OnePage, NEW t \in Tabs, OutboxInv, AloneInv, GivesUp(t)
    PROVE  AloneInv'
<1>1. PICK u \in tab[t].turns :
          Do(t, PassEnd(EndTurn([World(t) EXCEPT !.tb.anyFailed = TRUE, !.tb.discarded = @ \ NamesOf(u)], u, "kept")))
  BY DEF GivesUp
<1> DEFINE v == [World(t) EXCEPT !.tb.anyFailed = TRUE, !.tb.discarded = @ \ NamesOf(u)]
           x == EndTurn(v, u, "kept")
<1>2. shape' = shape /\ Counted
  BY SpendCounts DEF GivesUp, Faults
<1>3. (u \in tab[t].turns) /\ tab[t].open
  <2>1. u \in tab[t].turns
    BY <1>1
  <2> QED BY <2>1 DEF OutboxInv, Shut
<1>4. /\ Sound(World(t)) /\ t \in shape.tabs /\ refusing \in BOOLEAN /\ World(t) \in WorldType /\ u \in TurnType
  BY <1>3, AloneSound DEF OutboxInv, Typed, PageType
<1>5. Quietly(World(t), v)
  BY <1>4 DEF Quietly, WorldType, PageType
<1>6. Do(t, PassEnd(x))
  BY <1>1
<1> HIDE DEF v
<1>7. Sound(x)
  BY <1>4, <1>5, QuietlySound, EndTurnSound
<1> HIDE DEF x
<1>8. Sound(PassEnd(x))
  BY <1>4, <1>7, PassEndSound
<1> QED BY <1>2, <1>4, <1>6, <1>8, AloneMoves

LEMMA DiscardAlone ==
    ASSUME OnePage, NEW t \in Tabs, OutboxInv, AloneInv, DiscardHeldWrite(t)
    PROVE  AloneInv'
<1> DEFINE Left(e) == Dequeue(World(t), {Named(e)})
           Flying(e) == IF Named(e) \in InFlight(tab[t]) THEN {Named(e)} ELSE {}
           Given(e) == [Left(e) EXCEPT !.tb.discarded = @ \cup Flying(e)]
           Then(e) == RerunFlushSoon(Persist(Given(e)))
<1>1. PICK e \in tab[t].queue :
        Do(t, IF Then(e).tb.queue = {} THEN Then(e) ELSE FlushNow(Then(e)))
  BY DEF DiscardHeldWrite
<1>2. shape' = shape /\ spent' = spent /\ tab[t].open
  BY DEF DiscardHeldWrite
<1>3. /\ Sound(World(t)) /\ t \in shape.tabs /\ refusing \in BOOLEAN /\ World(t).tb = tab[t] /\ World(t) \in WorldType
  BY <1>2, AloneSound
<1>4. Whole(Left(e)) /\ Sealing(Left(e))
  BY <1>3, DequeueSealing
<1>5. e \in EntryType
  BY <1>1, <1>3 DEF WorldType, PageType
<1>6. Flying(e) \subseteq Names
  BY <1>5, NamedType
<1> HIDE DEF Left, Flying
<1>7. /\ Given(e) \in WorldType /\ Given(e).tb.queue = Left(e).tb.queue /\ Given(e).tb.settled = Left(e).tb.settled
      /\ Given(e).stored = Left(e).stored /\ Given(e).tb.open = Left(e).tb.open
  BY <1>4, <1>6 DEF Whole, WorldType, PageType
<1> HIDE DEF Given
<1>8. Whole(Given(e)) /\ Sealing(Given(e))
  BY <1>4, <1>7 DEF Whole, Sealing, Covers
<1>9. Sound(Then(e))
  BY <1>3, <1>8, PersistSound, RerunSound
<1> HIDE DEF Then
<1> QED BY <1>1, <1>2, <1>3, <1>9, FlushNowSound, SpendNone, AloneMoves

LEMMA ResumeAlone ==
    ASSUME OnePage, NEW t \in Tabs, OutboxInv, AloneInv, ResumeAfterAuth(t)
    PROVE  AloneInv'
<1> DEFINE stale == {e.pw : e \in {f \in tab[t].queue : f.authBlocked /\ f.pw # 0}}
           resumed == \E e \in tab[t].queue : e.authBlocked
           Freed(e) == IF e.authBlocked \/ e.pw \in stale
                       THEN [e EXCEPT !.authBlocked = FALSE, !.pw = pw, !.attempts = 0] ELSE e
           q == {Freed(e) : e \in tab[t].queue}
           v == [World(t) EXCEPT !.tb.queue = q, !.tb.pw = pw]
<1>1. Do(t, IF resumed THEN FlushNow(Persist(v)) ELSE v) /\ tab[t].open /\ shape' = shape /\ spent' = spent
  BY DEF ResumeAfterAuth
<1>2. /\ Sound(World(t)) /\ t \in shape.tabs /\ refusing \in BOOLEAN /\ World(t).tb = tab[t] /\ World(t) \in WorldType
      /\ pw \in Nat
  BY <1>1, AloneSound DEF OutboxInv, Typed
<1>4. SameCores(tab[t].queue, q)
  <2>1. \A e \in tab[t].queue : (Freed(e) \in EntryType) /\ Core(Freed(e)) = Core(e)
    <3>1. tab[t].queue \subseteq EntryType
      BY <1>2 DEF WorldType, PageType
    <3> HIDE DEF stale
    <3> QED BY <1>2, <3>1 DEF EntryType, Core
  <2> HIDE DEF Freed
  <2> QED BY <2>1 DEF SameCores
<1>5. q \in SUBSET EntryType
  BY <1>4 DEF SameCores
<1> HIDE DEF q, resumed
<1>6. /\ v \in WorldType /\ v.tb.queue = q /\ v.tb.settled = tab[t].settled /\ v.tb.left = tab[t].left
      /\ v.tb.open = tab[t].open /\ v.stored = World(t).stored
  BY <1>2, <1>5 DEF WorldType, PageType
<1> HIDE DEF v
<1>7. Sound(v)
  BY <1>2, <1>4, <1>6, RemarkSound
<1>8. Sound(FlushNow(Persist(v)))
  BY <1>2, <1>7, SoundSealing, PersistSound, FlushNowSound
<1> QED BY <1>1, <1>2, <1>7, <1>8, SpendNone, AloneMoves

\* Storage rewritten with the same entries, other marks, holds the same.
LEMMA ScrubSound ==
    ASSUME NEW w, NEW h, Sound(w), SameCores(w.stored.has, h)
    PROVE  Sound(Store(w, [w.stored EXCEPT !.has = h]))
<1> DEFINE s == [w.stored EXCEPT !.has = h]
           event == [old |-> w.stored, new |-> s]
           news == Append(w.news, event)
           v == [w EXCEPT !.stored = s, !.news = news]
<1>1. /\ w \in WorldType /\ w.stored \in CopyType /\ w.stored.has \in SUBSET EntryType /\ h \in SUBSET EntryType
      /\ w.news \in Seq(EventType)
  BY DEF Sound, Whole, WorldType, CopyType, SameCores
<1>2. (s \in CopyType) /\ s.has = h /\ s.there = w.stored.there
  BY <1>1 DEF CopyType
<1> HIDE DEF s
<1>3. event \in EventType
  BY <1>1, <1>2 DEF EventType
<1> HIDE DEF event
<1>4. news \in Seq(EventType)
  BY <1>1, <1>3
<1> HIDE DEF news
<1>5. (v \in WorldType) /\ v.tb = w.tb /\ v.stored = s
  BY <1>1, <1>2, <1>4 DEF WorldType
<1>6. Store(w, s) \in {w, v}
  BY DEF Store, v, news, event
<1> HIDE DEF v
<1>7. \A d \in h : \E e \in w.stored.has : d.key = e.key /\ d.at = e.at
  BY <1>1, CoreFields DEF SameCores
<1>8. (w.stored.has = {}) => (h = {})
  BY <1>7
<1>9. Sealed(v)
  BY <1>2, <1>5, <1>7 DEF Sealed, Sound, Covers, IsSettled
<1>10. Sound(v)
  BY <1>2, <1>5, <1>8, <1>9 DEF Sound, Whole
<1> QED BY <1>6, <1>10 DEF s

LEMMA ParkAlone ==
    ASSUME OnePage, NEW t \in Tabs, OutboxInv, AloneInv, ParkQueueForReauth(t)
    PROVE  AloneInv'
<1> DEFINE q == {Parked(e) : e \in tab[t].queue}
           h == {Parked(e) : e \in stored.has}
           c == tab[t].pass
           v == [World(t) EXCEPT !.tb.queue = q, !.tb.pw = 0, !.tb.timer = FALSE, !.tb.cut = c]
           s == [stored EXCEPT !.has = h]
           x == IF refusing THEN v ELSE Store(v, s)
<1>1. Do(t, IF q = {} THEN x ELSE Persist(x)) /\ tab[t].open /\ shape' = shape /\ spent' = spent
  BY DEF ParkQueueForReauth
<1>2. /\ Sound(World(t)) /\ t \in shape.tabs /\ refusing \in BOOLEAN /\ World(t).tb = tab[t]
      /\ World(t).stored = stored /\ World(t) \in WorldType
  BY <1>1, AloneSound
<1>3. SameCores(tab[t].queue, q) /\ SameCores(stored.has, h) /\ c \in BOOLEAN
  BY <1>2, ParkedCores DEF WorldType, PageType, CopyType
<1>4. q \in SUBSET EntryType
  BY <1>3 DEF SameCores
<1> HIDE DEF q, h, c
<1>5. /\ v \in WorldType /\ v.tb.queue = q /\ v.tb.settled = tab[t].settled /\ v.tb.left = tab[t].left
      /\ v.tb.open = tab[t].open /\ v.stored = stored
  BY <1>2, <1>3, <1>4 DEF WorldType, PageType
<1> HIDE DEF v
<1>6. Sound(v)
  BY <1>2, <1>3, <1>5, RemarkSound
<1>7. Sound(x)
  <2>1. Sound(Store(v, [v.stored EXCEPT !.has = h]))
    BY <1>3, <1>5, <1>6, ScrubSound
  <2>2. x \in {v, Store(v, [v.stored EXCEPT !.has = h])}
    BY <1>5
  <2> HIDE DEF x
  <2> QED BY <1>6, <2>1, <2>2
<1> HIDE DEF x
<1>8. Sound(Persist(x))
  BY <1>2, <1>7, SoundSealing, PersistSound
<1> QED BY <1>1, <1>2, <1>7, <1>8, SpendNone, AloneMoves

LEMMA ServerAlone ==
    ASSUME NEW t \in Tabs, OutboxInv, AloneInv, ServerAnswers(t)
    PROVE  AloneInv'
<1>1. PICK u \in tab[t].turns, answer \in {"ok", "no", "err", "auth"} :
        /\ tab' = [tab EXCEPT ![t].turns = (@ \ {u}) \cup {[u EXCEPT !.phase = answer]}]
        /\ IF answer \in {"no", "err"} THEN Spend(answer) ELSE spent' = spent
  BY DEF ServerAnswers
<1>2. UNCHANGED <<shape, stored, events>>
  BY DEF ServerAnswers
<1>3. Counted
  BY <1>1, SpendCounts, SpendNone DEF Faults
<1>4. tab \in [Tabs -> PageType]
  BY DEF OutboxInv, Typed
<1>5. \A p \in Tabs : /\ tab'[p].open = tab[p].open /\ tab'[p].queue = tab[p].queue
                      /\ tab'[p].settled = tab[p].settled /\ tab'[p].left = tab[p].left
  BY <1>1, <1>4 DEF PageType
<1>6. \A p \in Tabs : Sealed(World(p)) => Sealed(World(p))'
  BY <1>2, <1>5 DEF Sealed, World, Covers, IsSettled
<1>7. shape.tabs \subseteq Tabs
  BY OutboxAssumption DEF OutboxInv, Typed
<1> QED BY <1>2, <1>3, <1>5, <1>6, <1>7 DEF AloneInv, Counted

LEMMA ClearAlone ==
    ASSUME OnePage, NEW t \in Tabs, OutboxInv, AloneInv, ClearQueue(t)
    PROVE  AloneInv'
<1> DEFINE c == tab[t].pass
           z == [tab[t] EXCEPT !.queue = {}, !.settled = {}, !.here = {}, !.left = FALSE,
                               !.timer = FALSE, !.cut = c, !.pw = 0]
           v == [World(t) EXCEPT !.tb.queue = {}, !.tb.settled = {}, !.tb.here = {}, !.tb.left = FALSE,
                                 !.tb.timer = FALSE, !.tb.cut = c, !.tb.pw = 0]
           s == [there |-> FALSE, has |-> {}]
           ev == [old |-> stored, new |-> s]
           x == [v EXCEPT !.stored = s, !.news = Append(@, ev)]
<1>1. Do(t, Store(v, s)) /\ tab[t].open /\ shape' = shape /\ Counted
  BY SpendCounts DEF ClearQueue, Faults
<1>2. /\ t \in shape.tabs /\ refusing \in BOOLEAN /\ World(t).tb = tab[t] /\ World(t).news = <<>>
      /\ World(t).stored = stored /\ World(t) \in WorldType
  BY <1>1, AloneSound, WorldIs
<1>3. (tab[t] \in PageType) /\ (stored \in CopyType) /\ c \in BOOLEAN
  BY <1>2 DEF WorldType, PageType
<1>4. (s \in CopyType) /\ s.has = {}
  BY DEF CopyType
<1>5. ev \in EventType
  BY <1>3, <1>4 DEF EventType
<1> HIDE DEF c, ev, s
<1>6. (z \in PageType) /\ z.open = tab[t].open
  BY <1>3 DEF PageType
<1>7. v = [World(t) EXCEPT !.tb = z]
  <2> USE <1>2 DEF WorldType
  <2> QED OBVIOUS
<1> HIDE DEF z
<1>8. /\ v \in WorldType /\ v.tb = z /\ v.stored = stored /\ v.news = <<>>
  BY <1>2, <1>6, <1>7 DEF WorldType
<1> HIDE DEF v
<1>9. (x \in WorldType) /\ x.tb = z /\ x.stored = s
  <2>1. Append(v.news, ev) \in Seq(EventType)
    BY <1>5, <1>8
  <2> QED BY <1>4, <1>8, <2>1 DEF WorldType
<1>10. (Store(v, s) = v /\ v.stored = s) \/ Store(v, s) = x
  BY <1>8 DEF Store, ev
<1> HIDE DEF x
<1>11. Sound(Store(v, s))
  BY <1>1, <1>4, <1>6, <1>8, <1>9, <1>10 DEF Sound, Whole, Sealed
<1> QED BY <1>1, <1>2, <1>11, AloneMoves

LEMMA OpenAlone ==
    ASSUME OnePage, NEW t \in Tabs, OutboxInv, AloneInv, Open(t)
    PROVE  AloneInv'
<1> DEFINE z == Fresh(stored.has, tab[t].pw)
           v == [World(t) EXCEPT !.tb = z]
<1>1. /\ Do(t, IF stored.has = {} THEN v ELSE FlushQueue(v)) /\ t \in shape.tabs /\ shape' = shape /\ spent' = spent
  BY DEF Open
<1>2. /\ World(t).tb = tab[t] /\ World(t).stored = stored /\ World(t) \in WorldType /\ refusing \in BOOLEAN
      /\ (~stored.there => stored.has = {}) /\ stored.has \in SUBSET EntryType
  <2>1. Good(World(t), t, Cores, Done)
    BY DEF OutboxInv, Pages
  <2> QED BY <2>1, WorldIs DEF Good, PageGood, OutboxInv, Typed, CopyType
<1>3. (z \in PageType) /\ (z.open) /\ (z.queue = stored.has)
  BY <1>2 DEF Fresh, PageType, WorldType, CopyType
<1> HIDE DEF z
<1>4. (v \in WorldType) /\ (v.tb = z) /\ (v.stored = stored)
  BY <1>2, <1>3 DEF WorldType
<1> HIDE DEF v
<1>5. \A e \in stored.has : Covers(z, e)
  BY <1>2, <1>3 DEF Covers, EntryType
<1>6. Sound(v)
  BY <1>2, <1>3, <1>4, <1>5 DEF Sound, Whole, Sealed
<1>7. Sound(FlushQueue(v))
  BY <1>2, <1>6, FlushQueueSound
<1> QED BY <1>1, <1>6, <1>7, SpendNone, AloneMoves

LEMMA WriteAlone ==
    ASSUME OnePage, NEW t \in Tabs, NEW base \in Bases, NEW kind \in shape.kinds[t], OutboxInv, AloneInv,
           Write(t, base, kind)
    PROVE  AloneInv'
<1>1. tab[t].open /\ shape' = shape /\ spent' = spent
  BY DEF Write
<1>2. /\ Sound(World(t)) /\ t \in shape.tabs /\ refusing \in BOOLEAN /\ World(t).tb = tab[t]
      /\ World(t).stored = stored /\ World(t) \in WorldType /\ Past(Cores, clock) /\ clock \in Nat
  BY <1>1, AloneSound DEF OutboxInv, Typed, Histories
<1>3. kind \in Kinds
  <2>1. shape.kinds \in [Tabs -> SUBSET Kinds]
    BY OutboxAssumption DEF OutboxInv, Typed
  <2> QED BY <2>1
<1>4. PICK d : LET v == [World(t) EXCEPT !.tb.queue = QueueSet(tab[t].queue, d)] IN
                 /\ Placing(tab[t].queue, d, base, kind, clock, t)
                 /\ Do(t, FlushNow(Persist(v)))
  <2>1. PICK d, A : WriteDone(t, base, kind, d, A) BY <1>3, WriteIs
  <2> QED BY <2>1 DEF WriteDone
<1> DEFINE q == QueueSet(tab[t].queue, d)
           v == [World(t) EXCEPT !.tb.queue = q]
<1>5. d \in EntryType /\ d.at = clock + 1
  BY <1>4 DEF Placing
<1>6. q \in SUBSET EntryType
  BY <1>2, <1>5 DEF QueueSet, WorldType, PageType
<1>7. \A e \in tab[t].queue : e.key # d.key \/ e.at <= d.at
  <2>1. \A e \in tab[t].queue : (Core(e) \in Cores) /\ (e \in EntryType)
    BY <1>2, KnownPlaces DEF WorldType, PageType
  <2>2. \A e \in tab[t].queue : e.at <= clock /\ e.at \in Nat
    BY <1>2, <2>1, CoreFields DEF Past, EntryType
  <2> QED BY <1>2, <1>5, <2>2
<1>8. \A e \in stored.has : \A f \in tab[t].queue : e.at <= f.at /\ f.at <= d.at => e.at <= d.at
  <2>1. stored.has \subseteq EntryType /\ tab[t].queue \subseteq EntryType
    BY <1>2 DEF WorldType, PageType, CopyType
  <2> QED BY <1>5, <2>1 DEF EntryType
<1>9. \A e \in stored.has : Covers(tab[t], e) => \E f \in q : f.key = e.key /\ e.at <= f.at
  BY <1>7, <1>8 DEF Covers, QueueSet
<1>10. Do(t, FlushNow(Persist(v)))
  BY <1>4
<1> HIDE DEF q
<1>11. /\ v \in WorldType /\ v.tb.queue = q /\ v.tb.settled = tab[t].settled /\ v.tb.left = tab[t].left
       /\ v.tb.open = tab[t].open /\ v.stored = stored
  BY <1>2, <1>6 DEF WorldType, PageType
<1> HIDE DEF v
<1>12. Sound(v)
  BY <1>2, <1>9, <1>11 DEF Sound, Whole, Sealed, Covers
<1>13. Sound(FlushNow(Persist(v)))
  BY <1>2, <1>12, SoundSealing, PersistSound, FlushNowSound
<1> QED BY <1>1, <1>2, <1>10, <1>13, SpendNone, AloneMoves

LEMMA CloseAlone ==
    ASSUME OnePage, NEW t \in Tabs, OutboxInv, AloneInv, Close(t)
    PROVE  AloneInv'
<1> DEFINE z == [Fresh({}, tab[t].pw) EXCEPT !.open = FALSE]
<1>1. /\ tab' = [tab EXCEPT ![t] = z] /\ events' = [events EXCEPT ![t] = <<>>]
      /\ spent' = [spent EXCEPT !["close"] = @ + 1] /\ shape' = shape /\ stored' = stored /\ tab[t].open
  BY DEF Close, Spend
<1>2. z.open = FALSE
  BY DEF Fresh
<1> HIDE DEF z
<1>3. tab \in [Tabs -> PageType] /\ events \in [Tabs -> Seq(EventType)] /\ shape \in Shapes
  BY DEF OutboxInv, Typed
<1>4. \A u \in Tabs : ~tab'[u].open
  <2>1. \A u \in Tabs : tab[u].open => u = t
    BY <1>1, <1>3 DEF OutboxInv, Shut, OnePage
  <2> QED BY <1>1, <1>2, <1>3, <2>1
<1>5. (spent' \in [Faults -> Nat]) /\ (spent'["close"] # 0)
  BY <1>1 DEF AloneInv, Faults
<1>6. \A u \in Tabs : events'[u] = <<>>
  BY <1>1, <1>3 DEF AloneInv
<1> QED BY <1>4, <1>5, <1>6 DEF AloneInv

LEMMA AloneFirst ==
    ASSUME Init
    PROVE  AloneInv
<1>1. /\ shape \in Shapes /\ tab = [t \in Tabs |-> [Fresh({}, 1) EXCEPT !.open = t \in shape.tabs]]
      /\ stored.has = {} /\ events = [t \in Tabs |-> <<>>] /\ spent = [f \in Faults |-> 0]
  BY DEF Init
<1>2. \A t \in Tabs : tab[t].open = (t \in shape.tabs)
  BY <1>1 DEF Fresh
<1>3. shape.tabs \subseteq Tabs
  BY <1>1, OutboxAssumption
<1>4. \A t \in Tabs : Sealed(World(t))
  BY <1>1 DEF Sealed, World
<1> QED BY <1>1, <1>2, <1>3, <1>4 DEF AloneInv, Faults

LEMMA AloneStep ==
    ASSUME OnePage, OutboxInv, AloneInv, [Next]_vars
    PROVE  AloneInv'
<1>1. CASE UNCHANGED vars
  BY <1>1, SpendNone, AloneAside DEF vars
<1>2. CASE ResetPassword
  BY <1>2, SpendCounts, AloneAside DEF ResetPassword, Faults
<1>3. CASE StorageTurns
  BY <1>3, SpendCounts, SpendNone, AloneAside DEF StorageTurns, Faults
<1>4. ASSUME NEW t \in Tabs, NEW base \in Bases, NEW kind \in shape.kinds[t], Write(t, base, kind) PROVE AloneInv'
  BY <1>4, WriteAlone, SMTT(30)
<1>5. ASSUME NEW t \in Tabs, OnStoredQueueChanged(t) PROVE AloneInv'
  BY <1>5 DEF OnStoredQueueChanged, AloneInv
<1>6. ASSUME NEW t \in Tabs,
             \/ DiscardHeldWrite(t) \/ ParkQueueForReauth(t) \/ ResumeAfterAuth(t) \/ ClearQueue(t)
             \/ Close(t) \/ Open(t)
             \/ ServerAnswers(t) \/ Hears(t) \/ GivesUp(t) \/ TimerFires(t)
      PROVE  AloneInv'
  BY <1>6, DiscardAlone, ParkAlone, ResumeAlone, ClearAlone, CloseAlone, OpenAlone, ServerAlone, HearsAlone,
     GivesUpAlone, TimerAlone
<1> QED BY <1>1, <1>2, <1>3, <1>4, <1>5, <1>6 DEF Next

LEMMA AloneApart ==
    ASSUME OnePage
    PROVE  Apart
  BY DEF OnePage, Apart

LEMMA AloneIdle ==
    ASSUME OutboxInv, AloneInv
    PROVE  IdleMeansStoredEmpty
<1> SUFFICES ASSUME \A t \in Tabs : Idle(t), spent["close"] = 0, NEW e \in stored.has
             PROVE  FALSE
  BY DEF IdleMeansStoredEmpty
<1>1. e \in EntryType
  BY DEF OutboxInv, Typed, CopyType
<1>2. (Core(e) \in Cores) /\ MadeBy(Cores)
  BY KnownPlaces DEF OutboxInv, Histories
<1>3. (e.by \in shape.tabs) /\ (e.by \in Tabs)
  BY <1>1, <1>2, CoreFields DEF MadeBy, EntryType
<1>4. Sealed(World(e.by))
  BY <1>3 DEF AloneInv
<1>5. (tab[e.by].queue = {}) /\ ~tab[e.by].left
  BY <1>3 DEF Idle
<1> QED BY <1>3, <1>4, <1>5, WorldIs DEF Sealed, Covers

\* A device with one page keeps every write until it is settled, and no longer:
\* none is lost before the server has it or a person gave it up, and once the
\* page has nothing left to do, browser storage holds nothing for the next load
\* to send again, with any matches, writes, lost and refused requests, full
\* storage and sign-outs (KeptUntilSettled; _persistQueue, _markSettled).
THEOREM WritesAreKept == OnePage => (Spec => []KeptUntilSettled)
<1> SUFFICES ASSUME OnePage PROVE Spec => []KeptUntilSettled
  OBVIOUS
<1>1. Init => OutboxInv /\ AloneInv
  BY FirstState, AloneFirst
<1>2. (OutboxInv /\ AloneInv) /\ [Next]_vars => (OutboxInv /\ AloneInv)'
  BY AloneApart, StepStays, AloneStep
<1>3. OutboxInv /\ AloneInv => KeptUntilSettled
  BY AloneIdle DEF KeptUntilSettled, OutboxInv
<1> QED BY <1>1, <1>2, <1>3, PTL DEF Spec

---------------------------------------------------------------------------
(* The order of a queue.                                                   *)

\* No two entries share a key or a moment, and an entry follows earlier ones.
Distinct(q) == \A e, f \in q : e.key = f.key \/ e.at = f.at => e = f
Earlier(q) == \A e, f \in q : f.key \in e.after => f.at < e.at

Tidy(q, n) ==
    /\ q \subseteq EntryType /\ Distinct(q) /\ Earlier(q)
    /\ \A e \in q : e.at <= n /\ e.key <= n /\ \A k \in e.after : k <= n

\* What a write of an entry was made after is done, goes with it, or is in an
\* entry before it; M is what was made.
InLine(q, D, M) ==
    \A e \in q : \A m \in e.carries : \A n \in M[m].after :
        n \in D \cup e.carries \/ \E f \in Before(q, e) : n \in f.carries

Sendable(q, f) == Before(q, f) = {} /\ ~f.authBlocked /\ ~f.parked

ListOf(q, listed) == {e \in q : Named(e) \in listed}

\* With an entry of a match, a list has the earlier ones of that match, and no
\* others.
FromHead(q, base, listed) ==
    \A e \in ListOf(q, listed) :
        /\ e.base = base
        /\ \A f \in q : f.base = base /\ f.at < e.at => Named(f) \in listed

\* A turn sends the head of its list, or ends with the reason.
HeadTurn(q, base, listed, u) ==
    /\ u.base = base
    /\ u.rest = {Named(f) : f \in ListOf(q, listed) \ u.sent}
    /\ u.sent \subseteq ListOf(q, listed)
    /\ \A e \in u.sent : WaitsOn(q, e) = {} /\ \A f \in q : f.base = base /\ f.at < e.at => f \in u.sent
    /\ \A f \in ListOf(q, listed) : Sendable(q, f) => u.phase = "sent" /\ f \in u.sent
    /\ u.phase = "settled" => ListOf(q, listed) = {}
    /\ ListOf(q, listed) = {} => u.phase = "settled"
    /\ u.phase \in {"sent", "settled", "kept", "after"}

\* Entries of different moments, none later than n, are finitely many.
LEMMA TidyFinite ==
    ASSUME NEW n \in Nat, NEW q, Tidy(q, n)
    PROVE  IsFiniteSet(q)
<1> DEFINE when == [e \in q |-> e.at]
<1>1. \A e \in q : e.at \in 0 .. n
  BY DEF Tidy, EntryType
<1>2. when \in [q -> 0 .. n]
  BY <1>1
<1>3. \A d, e \in q : when[d] = when[e] => d = e
  BY DEF Tidy, Distinct
<1>4. when \in Injection(q, 0 .. n)
  BY <1>2, <1>3 DEF Injection, IsInjective
<1>5. IsFiniteSet(0 .. n)
  BY FS_Interval
<1> QED BY <1>4, <1>5, FS_Injection

LEMMA TurnFromHead ==
    ASSUME NEW w \in WorldType, NEW base \in Bases, NEW listed, NEW n \in Nat, Tidy(w.tb.queue, n),
           FromHead(w.tb.queue, base, listed)
    PROVE  HeadTurn(w.tb.queue, base, listed, TurnFrom(w.tb, base, listed))
<1> DEFINE q == w.tb.queue
           list == {e \in w.tb.queue : Named(e) \in listed}
           Turn(phase, sent) ==
            [base |-> base, phase |-> phase, sent |-> sent, rest |-> {Named(f) : f \in list \ sent}]
           e == Oldest(list)
           batch == BatchOf(w.tb.queue, list)
           upTo(f) == {g \in list : g.at <= f.at}
<1>1. /\ list \in SUBSET EntryType /\ list \subseteq q /\ list = ListOf(q, listed) /\ IsFiniteSet(list)
      /\ q \subseteq EntryType /\ Distinct(q)
  BY TidyFinite, FS_Subset DEF Tidy, ListOf
<1>2. \A f \in list : f.base = base /\ \A g \in q : g.base = base /\ g.at < f.at => g \in list
  BY <1>1 DEF FromHead
<1> HIDE DEF list
<1>3. (list # {}) => (e \in list /\ \A f \in list : e.at <= f.at)
  BY <1>1, OldestIsThere
<1> HIDE DEF e
<1>4. \A f \in list : \A g \in q : g.base = base /\ g.at < f.at => g \in list /\ g \in Before(q, f)
  BY <1>2 DEF Before
<1>5. ASSUME NEW f \in list, Sendable(q, f)
      PROVE  f = e
  <2>1. (e \in list) /\ (e.at <= f.at) /\ (e.base = base) /\ (e.at \in Nat) /\ (f.at \in Nat)
    BY <1>1, <1>2, <1>3 DEF EntryType
  <2>2. ~(e.at < f.at)
    <3>1. (e.at < f.at) => e \in Before(q, f)
      BY <1>1, <1>4, <2>1
    <3> QED BY <1>5, <3>1 DEF Sendable
  <2>3. e.at = f.at
    BY <2>1, <2>2
  <2> QED BY <1>1, <2>1, <2>3 DEF Distinct
<1>6. \A phase, sent :
        /\ Turn(phase, sent).base = base /\ Turn(phase, sent).phase = phase
        /\ Turn(phase, sent).sent = sent /\ Turn(phase, sent).rest = {Named(f) : f \in list \ sent}
  OBVIOUS
<1>7. CASE list = {}
  <2>1. TurnFrom(w.tb, base, listed) = Turn("settled", {})
    BY <1>7 DEF TurnFrom, list
  <2> HIDE DEF Turn
  <2> QED BY <1>1, <1>6, <1>7, <2>1 DEF HeadTurn
<1>8. CASE list # {} /\ (e.authBlocked \/ e.parked)
  <2>1. TurnFrom(w.tb, base, listed) = Turn("kept", {})
    BY <1>8 DEF TurnFrom, list, e
  <2>2. \A f \in list : ~Sendable(q, f)
    BY <1>5, <1>8 DEF Sendable
  <2> HIDE DEF Turn
  <2> QED BY <1>1, <1>6, <1>8, <2>1, <2>2 DEF HeadTurn
<1>9. CASE list # {} /\ ~(e.authBlocked \/ e.parked) /\ WaitsOn(q, e) # {}
  <2>1. \/ TurnFrom(w.tb, base, listed) = Turn("kept", {})
        \/ TurnFrom(w.tb, base, listed) = Turn("after", {})
    BY <1>9 DEF TurnFrom, list, e
  <2>2. \A f \in list : ~Sendable(q, f)
    <3>1. Before(q, e) # {}
      BY <1>9 DEF WaitsOn, Before, KeysOf
    <3> QED BY <1>5, <3>1 DEF Sendable
  <2> HIDE DEF Turn
  <2> QED BY <1>1, <1>6, <1>9, <2>1, <2>2 DEF HeadTurn
<1>10. CASE list # {} /\ ~(e.authBlocked \/ e.parked) /\ WaitsOn(q, e) = {}
  <2> DEFINE sent == IF e.kind = "tap" THEN batch ELSE {e}
  <2>1. TurnFrom(w.tb, base, listed) = Turn("sent", sent)
    BY <1>10 DEF TurnFrom, list, e
  <2>2. e \in list
    BY <1>3, <1>10
  <2>3. upTo(e) = {e}
    <3>1. e \in upTo(e)
      BY <1>1, <2>2 DEF EntryType
    <3>2. ASSUME NEW f \in upTo(e) PROVE f = e
      <4>1. (f \in list) /\ (f.at <= e.at) /\ (e.at <= f.at) /\ (f.at \in Nat) /\ (e.at \in Nat)
        BY <1>1, <1>3, <2>2, <3>2 DEF EntryType
      <4>2. f.at = e.at
        BY <4>1
      <4> QED BY <1>1, <2>2, <4>1, <4>2 DEF Distinct
    <3> QED BY <3>1, <3>2
  <2>4. (e.kind = "tap") => e \in batch
    <3>1. Cardinality(upTo(e)) <= BatchMax
      <4>1. Cardinality(upTo(e)) = 1
        BY <2>3, FS_Singleton
      <4>2. (BatchMax \in Nat) /\ BatchMax >= 1
        BY OutboxAssumption
      <4> HIDE DEF upTo
      <4> QED BY <4>1, <4>2
    <3> QED BY <1>10, <2>2, <2>3, <3>1 DEF BatchOf, e
  <2>5. batch \subseteq list /\ \A f \in batch : WaitsOn(q, f) = {}
    <3>1. batch \subseteq list
      BY DEF BatchOf
    <3>2. ASSUME NEW f \in batch PROVE WaitsOn(q, f) = {}
      <4>1. f \in {g \in list : g.at <= f.at}
        BY <1>1, <3>1 DEF EntryType
      <4> QED BY <4>1 DEF BatchOf
    <3> QED BY <3>1, <3>2
  <2>6. ASSUME NEW f \in batch, NEW g \in q, g.base = base, g.at < f.at
        PROVE  g \in batch
    <3>1. (f \in list) /\ (g \in list)
      BY <1>2, <2>5, <2>6
    <3>2. upTo(g) \subseteq upTo(f)
      BY <1>1, <2>6, <3>1 DEF EntryType
    <3>3. upTo(f) \subseteq list
      OBVIOUS
    <3>4. IsFiniteSet(upTo(f))
      BY <1>1, <3>3, FS_Subset
    <3>5. (Cardinality(upTo(g)) <= Cardinality(upTo(f))) /\ (Cardinality(upTo(f)) \in Nat) /\ (Cardinality(upTo(g)) \in Nat)
      BY <3>2, <3>4, FS_Subset, FS_CardinalityType
    <3>6. /\ Cardinality(upTo(f)) <= BatchMax
          /\ \A h \in upTo(f) : /\ h.kind = "tap" /\ h.by = Oldest(list).by
                                /\ ~h.authBlocked /\ ~h.parked /\ WaitsOn(q, h) = {}
      BY DEF BatchOf
    <3>7. Cardinality(upTo(g)) <= BatchMax
      BY <3>5, <3>6, OutboxAssumption
    <3> QED BY <3>1, <3>2, <3>6, <3>7 DEF BatchOf
  <2>7. \A g \in q : ~(g.base = base /\ g.at < e.at)
    <3> SUFFICES ASSUME NEW g \in q, g.base = base, g.at < e.at PROVE FALSE
      OBVIOUS
    <3>1. (g \in list) /\ (e.at <= g.at) /\ (g.at \in Nat) /\ (e.at \in Nat)
      BY <1>1, <1>2, <1>3, <2>2 DEF EntryType
    <3> QED BY <3>1
  <2>8. /\ sent \subseteq list /\ e \in sent
        /\ \A f \in sent : WaitsOn(q, f) = {} /\ \A g \in q : g.base = base /\ g.at < f.at => g \in sent
    <3> HIDE DEF batch
    <3> QED BY <1>10, <2>2, <2>4, <2>5, <2>6, <2>7
  <2> HIDE DEF sent
  <2>9. \A f \in list : Sendable(q, f) => f \in sent
    BY <1>5, <2>8
  <2> HIDE DEF Turn
  <2> QED BY <1>1, <1>6, <2>1, <2>8, <2>9 DEF HeadTurn
<1> QED BY <1>7, <1>8, <1>9, <1>10

---------------------------------------------------------------------------
(* A page that sends in order: what its turns are out for and have listed. *)

TurnFits(u, q, D, M, n) ==
    /\ \A p \in NamesOf(u) \cup u.rest : p[2] <= n
    /\ \A e \in q : Named(e) \in NamesOf(u) \cup u.rest => e.base = u.base
    /\ \A e \in q : Named(e) \in u.rest =>
          \A f \in q : f.base = u.base /\ f.at < e.at => Named(f) \in NamesOf(u) \cup u.rest
    /\ \A m \in CarriedBy(u.sent) : M[m].after \subseteq D \cup CarriedBy(u.sent)

OneTurn(tb) == \A u, v \in tb.turns : u.base \notin tb.failed /\ (u.base = v.base => u = v)

Forgotten(tb, n) == \A p \in tb.discarded : p[2] <= n /\ ~Queued(tb, p)

PageFits(tb, D, M, n) ==
    /\ Tidy(tb.queue, n) /\ InLine(tb.queue, D, M) /\ Forgotten(tb, n)
    /\ OneTurn(tb) /\ \A u \in tb.turns : TurnFits(u, tb.queue, D, M, n)
    /\ ~tb.pass => tb.turns = {} /\ ~tb.cut

CopyFits(s, D, M, n) == Tidy(s.has, n) /\ InLine(s.has, D, M)

Fits(w, D, M, n) == w \in WorldType /\ PageFits(w.tb, D, M, n) /\ CopyFits(w.stored, D, M, n)

LEMMA NamedOnce ==
    ASSUME NEW q, NEW n, Tidy(q, n), NEW e \in q, NEW f \in q, Named(e) = Named(f)
    PROVE  e = f
  BY DEF Tidy, Distinct, Named

LEMMA HeadFits ==
    ASSUME NEW q, NEW n \in Nat, Tidy(q, n), NEW D, NEW M, InLine(q, D, M), NEW base, NEW listed,
           FromHead(q, base, listed), NEW u, HeadTurn(q, base, listed, u), u.phase = "sent"
    PROVE  TurnFits(u, q, D, M, n)
<1> DEFINE list == ListOf(q, listed)
<1>1. /\ list \subseteq q /\ u.sent \subseteq list /\ u.base = base
      /\ u.rest = {Named(f) : f \in list \ u.sent} /\ q \subseteq EntryType
  BY DEF ListOf, HeadTurn, Tidy
<1>2. \A p \in NamesOf(u) \cup u.rest : \E f \in list : p = Named(f)
  BY <1>1 DEF NamesOf
<1>3. \A f \in list : Named(f) \in NamesOf(u) \cup u.rest
  BY <1>1 DEF NamesOf
<1>4. \A e \in list : e.base = base /\ \A f \in q : f.base = base /\ f.at < e.at => f \in list
  BY DEF FromHead, ListOf
<1> HIDE DEF list
<1>5. \A e \in q : Named(e) \in NamesOf(u) \cup u.rest => e \in list
  BY <1>1, <1>2, NamedOnce
<1>6. \A p \in NamesOf(u) \cup u.rest : p[2] <= n
  <2>1. \A f \in list : Named(f)[2] <= n
    BY <1>1 DEF Tidy, Named
  <2> QED BY <1>2, <2>1
<1>7. ASSUME NEW e \in u.sent, NEW m \in e.carries, NEW k \in M[m].after
      PROVE  k \in D \cup CarriedBy(u.sent)
  <2>1. (e \in q) /\ (e.base = base)
    BY <1>1, <1>4
  <2>2. k \in D \cup e.carries \/ \E f \in Before(q, e) : k \in f.carries
    BY <1>7, <2>1 DEF InLine
  <2>3. ASSUME NEW f \in Before(q, e) PROVE f \in u.sent
    <3>1. f.key \notin e.after
      BY <2>3 DEF HeadTurn, WaitsOn, Before, KeysOf
    <3> QED BY <2>1, <2>3, <3>1 DEF HeadTurn, Before
  <2> QED BY <2>2, <2>3 DEF CarriedBy
<1>8. \A m \in CarriedBy(u.sent) : M[m].after \subseteq D \cup CarriedBy(u.sent)
  BY <1>7 DEF CarriedBy
<1> QED BY <1>1, <1>3, <1>4, <1>5, <1>6, <1>8 DEF TurnFits

\* A request is out for the entry.
Watched(tb, f) == \E u \in tb.turns : Named(f) \in NamesOf(u)

\* Turns start; nothing else of the page's pass turns.
Starts(w, v) ==
    /\ Quietly(w, v) /\ w.tb.turns \subseteq v.tb.turns /\ v.kick = w.kick
    /\ v.tb.requested = w.tb.requested /\ v.tb.anyFailed = w.tb.anyFailed
    /\ v.tb.pass = w.tb.pass /\ v.tb.cut = w.tb.cut /\ v.tb.discarded = w.tb.discarded
    /\ ~w.tb.cut =>
          \A f \in w.tb.queue : Sendable(w.tb.queue, f) =>
              \/ f.base \in w.tb.failed \/ \E u \in w.tb.turns : u.base = f.base
              \/ Watched(v.tb, f)

LEMMA LaunchFits ==
    ASSUME NEW D, NEW M, NEW n \in Nat, NEW w, Fits(w, D, M, n), w.tb.pass
    PROVE  Fits(Launch(w), D, M, n) /\ Starts(w, Launch(w))
<1> DEFINE q == w.tb.queue
           idle == {e.base : e \in q} \ ({u.base : u \in w.tb.turns} \cup w.tb.failed)
           All(base) == {Named(e) : e \in EntriesFor(q, base)}
           First(base) == TurnFrom(w.tb, base, All(base))
           begun == {First(base) : base \in idle}
           ts == w.tb.turns \cup {u \in begun : u.phase = "sent"}
           fs == w.tb.failed \cup {u.base : u \in {v \in begun : v.phase = "kept"}}
           v == [w EXCEPT !.tb.turns = ts, !.tb.failed = fs]
<1>1. /\ w \in WorldType /\ Tidy(q, n) /\ InLine(q, D, M) /\ OneTurn(w.tb)
      /\ \A u \in w.tb.turns : TurnFits(u, q, D, M, n)
  BY DEF Fits, PageFits
<1>2. /\ idle \subseteq Bases /\ \A base \in idle : base \notin w.tb.failed /\ \A u \in w.tb.turns : u.base # base
  BY <1>1 DEF WorldType, PageType, EntryType
<1>3. \A base \in idle : FromHead(q, base, All(base)) /\ ListOf(q, All(base)) = EntriesFor(q, base)
  <2> SUFFICES ASSUME NEW base \in idle
               PROVE  FromHead(q, base, All(base)) /\ ListOf(q, All(base)) = EntriesFor(q, base)
    OBVIOUS
  <2>1. \A e \in q : Named(e) \in All(base) => e \in EntriesFor(q, base)
    BY <1>1, NamedOnce DEF EntriesFor
  <2>2. EntriesFor(q, base) = {e \in q : e.base = base}
    BY DEF EntriesFor
  <2>3. \A e \in EntriesFor(q, base) : Named(e) \in All(base)
    OBVIOUS
  <2> HIDE DEF All, q
  <2> QED BY <2>1, <2>2, <2>3 DEF FromHead, ListOf
<1>4. \A base \in idle : HeadTurn(q, base, All(base), First(base))
  <2> HIDE DEF All, idle
  <2> QED BY <1>1, <1>2, <1>3, TurnFromHead
<1>5. \A base \in idle : (First(base).base = base) /\
          (First(base).phase = "sent" => TurnFits(First(base), q, D, M, n))
  <2> HIDE DEF All, idle, First, q
  <2> QED BY <1>1, <1>3, <1>4, HeadFits DEF HeadTurn
<1>6. \A f \in q : Sendable(q, f) /\ f.base \in idle =>
          First(f.base).phase = "sent" /\ Named(f) \in NamesOf(First(f.base))
  <2>1. \A f \in q : f.base \in idle => f \in ListOf(q, All(f.base))
    BY <1>3 DEF EntriesFor
  <2> HIDE DEF All, idle, First, q
  <2> QED BY <1>4, <2>1 DEF HeadTurn, NamesOf
<1>7. (Launch(w) = w /\ w.tb.cut) \/ (Launch(w) = v /\ ~w.tb.cut)
  BY DEF Launch
<1>8. begun = {First(base) : base \in idle}
  OBVIOUS
<1> HIDE DEF First, All, begun, idle
<1>9. \A u \in ts : u \in w.tb.turns \/ \E base \in idle : u = First(base) /\ u.phase = "sent"
  BY <1>8
<1>10. \A b \in fs : b \in w.tb.failed \/ \E base \in idle : b = base /\ First(base).phase = "kept"
  BY <1>5, <1>8
<1>11. \A base \in idle : First(base).phase = "sent" => First(base) \in ts
  BY <1>8
<1>12. (w.tb.turns \subseteq ts)
  OBVIOUS
<1>13. Quietly(w, Launch(w))
  BY <1>1, LaunchQuiet
<1>14. \A u \in ts : TurnFits(u, q, D, M, n)
  <2> HIDE DEF ts, q
  <2> QED BY <1>1, <1>5, <1>9
<1>15. \A u, x \in ts : u.base \notin fs /\ (u.base = x.base => u = x)
  <2> HIDE DEF ts, fs
  <2>1. \A u \in w.tb.turns : u.base \notin w.tb.failed /\ \A x \in w.tb.turns : u.base = x.base => u = x
    BY <1>1 DEF OneTurn
  <2> QED BY <1>2, <1>5, <1>9, <1>10, <2>1
<1> HIDE DEF ts, fs
<1>16. /\ v.tb.queue = q /\ v.tb.turns = ts /\ v.tb.failed = fs /\ v.tb.pass = w.tb.pass /\ v.tb.cut = w.tb.cut
       /\ v.tb.discarded = w.tb.discarded /\ v.stored = w.stored /\ v.kick = w.kick
       /\ v.tb.requested = w.tb.requested /\ v.tb.anyFailed = w.tb.anyFailed
  BY <1>1 DEF WorldType, PageType
<1> HIDE DEF v
<1>17. CASE Launch(w) = v /\ ~w.tb.cut
  <2>1. PageFits(v.tb, D, M, n)
    BY <1>1, <1>14, <1>15, <1>16 DEF Fits, PageFits, OneTurn, Forgotten, Queued
  <2>2. Fits(v, D, M, n)
    BY <1>13, <1>16, <1>17, <2>1 DEF Fits, Quietly
  <2>3. ASSUME NEW f \in q, Sendable(q, f), f.base \notin w.tb.failed, \A u \in w.tb.turns : u.base # f.base
        PROVE  Watched(v.tb, f)
    <3>1. f.base \in idle
      BY <2>3 DEF idle
    <3> QED BY <1>6, <1>11, <1>16, <2>3, <3>1 DEF Watched
  <2> QED BY <1>12, <1>13, <1>16, <1>17, <2>2, <2>3 DEF Starts
<1>18. CASE Launch(w) = w /\ w.tb.cut
  BY <1>13, <1>18 DEF Starts
<1> QED BY <1>7, <1>17, <1>18

---------------------------------------------------------------------------
(* A page that is never left with something to send and nothing to do.     *)

\* A pass sees to every entry that could go: it will run again, it will be
\* tried again later, or a request is out for the entry.
Awake(tb, others) ==
    \/ tb.requested \/ tb.anyFailed
    \/ \A f \in tb.queue : Sendable(tb.queue, f) => f.base \in others \/ Watched(tb, f)

Severed(tb) == tb.cut => tb.requested \/ \A e \in tb.queue : e.authBlocked

Up(tb) ==
    /\ tb.pass => Awake(tb, {}) /\ Severed(tb)
    /\ ~tb.pass => tb.timer \/ \A f \in tb.queue : ~Sendable(tb.queue, f)

\* The page as it stands, but for what it settled and what it knows of storage.
SamePass(w, v) ==
    /\ v.tb.queue = w.tb.queue /\ v.tb.turns = w.tb.turns /\ v.tb.failed = w.tb.failed
    /\ v.tb.pass = w.tb.pass /\ v.tb.cut = w.tb.cut /\ v.tb.requested = w.tb.requested
    /\ v.tb.anyFailed = w.tb.anyFailed /\ v.tb.timer = w.tb.timer /\ v.tb.discarded = w.tb.discarded
    /\ v.kick = w.kick

LEMMA SamePassFits ==
    ASSUME NEW D, NEW M, NEW n, NEW w, NEW v, PageFits(w.tb, D, M, n), SamePass(w, v)
    PROVE  /\ PageFits(v.tb, D, M, n)
           /\ Up(w.tb) => Up(v.tb)
           /\ Severed(w.tb) => Severed(v.tb)
           /\ \A others : Awake(w.tb, others) => Awake(v.tb, others)
<1>1. PageFits(v.tb, D, M, n)
  BY DEF PageFits, SamePass, OneTurn, Forgotten, Queued
<1>2. \A others : Awake(w.tb, others) => Awake(v.tb, others)
  BY DEF Awake, SamePass, Watched
<1>3. Severed(w.tb) => Severed(v.tb)
  BY DEF Severed, SamePass
<1>4. Up(w.tb) => Up(v.tb)
  BY <1>2, <1>3 DEF Up, SamePass
<1> QED BY <1>1, <1>2, <1>3, <1>4

\* The page stores its queue, or storage stays as it is.
LEMMA PersistIs ==
    ASSUME NEW n, NEW w, Whole(w), Sealing(w), Tidy(w.tb.queue, n)
    PROVE  /\ SamePass(w, Persist(w))
           /\ Persist(w).stored = w.stored \/ Persist(w).stored = [there |-> TRUE, has |-> w.tb.queue]
<1> DEFINE q == w.tb.queue
           free == {f \in w.stored.has : ~IsSettled(w.tb.settled, f)}
           mine == {d \in q : ~\E f \in free : f.key = d.key /\ f.at > d.at}
           m == Merge(w.stored.has, w.tb.queue, w.tb.settled)
           landed == [w EXCEPT !.tb.settled = {}, !.tb.left = FALSE]
           l == \E e \in w.stored.has : IsSettled(w.tb.settled, e)
           kept == [w EXCEPT !.tb.left = l]
           copy == [there |-> TRUE, has |-> m]
           event == [old |-> w.stored, new |-> copy]
           done == [landed EXCEPT !.stored = copy, !.news = Append(@, event)]
<1>1. /\ w \in WorldType /\ q \in SUBSET EntryType /\ w.stored.has \in SUBSET EntryType /\ Distinct(q)
  BY DEF Whole, WorldType, PageType, CopyType, Tidy
<1>2. ASSUME NEW f \in free
      PROVE  \E e \in q : e.key = f.key /\ f.at <= e.at /\ \A d \in q : d.key = f.key => d = e
  <2>1. PICK e \in q : e.key = f.key /\ f.at <= e.at
    BY <1>2 DEF Sealing, Covers
  <2> QED BY <1>1, <2>1 DEF Distinct
<1>3. mine = q
  <2>1. ASSUME NEW d \in q, NEW f \in free, f.key = d.key, f.at > d.at PROVE FALSE
    <3>1. (f.at <= d.at) /\ (f.at \in Nat) /\ (d.at \in Nat)
      BY <1>1, <1>2, <2>1 DEF EntryType
    <3> QED BY <2>1, <3>1
  <2> QED BY <2>1
<1>4. m = {f \in free : f.key \notin KeysOf(mine)} \cup mine
  BY DEF Merge
<1>5. \A f \in free : f.key \in KeysOf(q)
  BY <1>2 DEF KeysOf
<1>6. m = q
  <2> HIDE DEF free, mine, m, q
  <2> QED BY <1>3, <1>4, <1>5
<1> HIDE DEF free, mine, m, l, q
<1>7. SamePass(w, landed) /\ landed.stored = w.stored /\ landed \in WorldType
  BY <1>1 DEF SamePass, WorldType, PageType
<1>8. SamePass(w, kept) /\ kept.stored = w.stored
  BY <1>1 DEF SamePass, WorldType, PageType
<1>9. SamePass(w, done) /\ done.stored = copy
  <2> HIDE DEF landed, event, copy
  <2>1. done.tb = landed.tb /\ done.stored = copy /\ done.kick = landed.kick
    BY <1>7 DEF WorldType
  <2> QED BY <1>7, <2>1 DEF SamePass
<1>10. Persist(w) \in {landed, kept, done}
  <2>1. (landed.stored = w.stored) /\ landed.news = w.news
    BY <1>1 DEF WorldType
  <2> QED BY <2>1 DEF Persist, Store, m, l
<1> HIDE DEF landed, kept, done
<1> QED BY <1>6, <1>7, <1>8, <1>9, <1>10 DEF q

LEMMA PersistFits ==
    ASSUME NEW D, NEW M, NEW n, NEW w, Whole(w), Sealing(w), Fits(w, D, M, n), refusing \in BOOLEAN
    PROVE  Fits(Persist(w), D, M, n) /\ SamePass(w, Persist(w))
<1>1. Tidy(w.tb.queue, n) /\ InLine(w.tb.queue, D, M)
  BY DEF Fits, PageFits
<1>2. /\ SamePass(w, Persist(w))
      /\ Persist(w).stored = w.stored \/ Persist(w).stored = [there |-> TRUE, has |-> w.tb.queue]
  BY <1>1, PersistIs
<1>3. CopyFits(Persist(w).stored, D, M, n)
  BY <1>1, <1>2 DEF CopyFits, Fits
<1>4. PageFits(Persist(w).tb, D, M, n)
  BY <1>2, SamePassFits DEF Fits
<1>5. Persist(w) \in WorldType
  BY PersistSound, SoundSealing
<1> QED BY <1>2, <1>3, <1>4, <1>5 DEF Fits

LEMMA SoundParts ==
    ASSUME NEW w, Sound(w)
    PROVE  w \in WorldType /\ Whole(w) /\ Sealing(w)
  BY SoundSealing

\* A pass that begins starts whatever could go.
LEMMA BeginFits ==
    ASSUME NEW D, NEW M, NEW n \in Nat, NEW w, Fits(w, D, M, n), w.tb.turns = {}
    PROVE  LET v == Begin(w) IN
           /\ Fits(v, D, M, n) /\ v.tb.pass /\ ~v.tb.requested /\ ~v.tb.anyFailed /\ ~v.tb.cut
           /\ \A f \in v.tb.queue : Sendable(v.tb.queue, f) => Watched(v.tb, f)
<1> DEFINE b == [w EXCEPT !.tb.pass = TRUE, !.tb.requested = FALSE, !.tb.cut = FALSE, !.tb.timer = FALSE,
                          !.tb.anyFailed = FALSE, !.tb.failed = {}]
           v == Launch(b)
<1>1. w \in WorldType
  BY DEF Fits
<1>2. /\ b \in WorldType /\ b.tb.queue = w.tb.queue /\ b.tb.turns = w.tb.turns /\ b.tb.failed = {}
      /\ b.tb.pass /\ ~b.tb.requested /\ ~b.tb.cut /\ ~b.tb.anyFailed /\ b.tb.discarded = w.tb.discarded
      /\ b.stored = w.stored
  BY <1>1, ZenonT(30) DEF WorldType, PageType
<1>3. Begin(w) = v
  BY DEF Begin
<1> HIDE DEF b
<1>4. PageFits(b.tb, D, M, n)
  BY <1>2 DEF Fits, PageFits, OneTurn, Forgotten, Queued
<1>5. Fits(b, D, M, n)
  BY <1>2, <1>4 DEF Fits
<1>6. Fits(v, D, M, n) /\ Starts(b, v)
  BY <1>2, <1>5, LaunchFits
<1> HIDE DEF v
<1>7. v.tb.queue = b.tb.queue
  BY <1>6 DEF Starts, Quietly
<1>8. v.tb.pass /\ ~v.tb.requested /\ ~v.tb.anyFailed /\ ~v.tb.cut
  BY <1>2, <1>6 DEF Starts
<1>9. \A f \in b.tb.queue : Sendable(b.tb.queue, f) => Watched(v.tb, f)
  BY <1>2, <1>6 DEF Starts
<1> QED BY <1>3, <1>6, <1>7, <1>8, <1>9

\* A pass that is over leaves a timer when something failed, or nothing to send.
LEMMA FinishFits ==
    ASSUME NEW D, NEW M, NEW n \in Nat, NEW w, Fits(w, D, M, n), Sound(w), refusing \in BOOLEAN, w.tb.turns = {},
           w.tb.anyFailed \/ \A f \in w.tb.queue : ~Sendable(w.tb.queue, f)
    PROVE  Fits(Finish(w), D, M, n) /\ Up(Finish(w).tb)
<1> DEFINE p == Persist(w)
           b == p.tb.queue # {} /\ p.tb.anyFailed
           v == [p EXCEPT !.tb.pass = FALSE, !.tb.cut = FALSE, !.tb.failed = {}, !.tb.anyFailed = FALSE,
                          !.tb.timer = b]
<1>1. Fits(p, D, M, n) /\ SamePass(w, p)
  BY SoundParts, PersistFits
<1>2. (p \in WorldType) /\ (b \in BOOLEAN)
  BY <1>1 DEF Fits, WorldType, PageType
<1>3. Finish(w) = v
  BY DEF Finish
<1>4. b = (p.tb.queue # {} /\ p.tb.anyFailed)
  OBVIOUS
<1> HIDE DEF p, b
<1>5. /\ v \in WorldType /\ v.tb.queue = p.tb.queue /\ v.tb.turns = p.tb.turns /\ v.tb.failed = {} /\ ~v.tb.cut
      /\ ~v.tb.pass /\ v.tb.discarded = p.tb.discarded /\ v.tb.timer = b /\ v.stored = p.stored
  BY <1>2 DEF WorldType, PageType
<1> HIDE DEF v
<1>6. v.tb.turns = {}
  BY <1>1, <1>5 DEF SamePass
<1>7. PageFits(v.tb, D, M, n)
  BY <1>1, <1>5, <1>6 DEF Fits, PageFits, OneTurn, Forgotten, Queued
<1>8. Up(v.tb)
  BY <1>1, <1>4, <1>5 DEF Up, SamePass
<1> QED BY <1>1, <1>3, <1>5, <1>7, <1>8 DEF Fits

LEMMA PassEndFits ==
    ASSUME NEW D, NEW M, NEW n \in Nat, NEW w, Fits(w, D, M, n), Sound(w), refusing \in BOOLEAN, Up(w.tb)
    PROVE  Fits(PassEnd(w), D, M, n) /\ Up(PassEnd(w).tb)
<1> DEFINE p == Persist(w)
           again == Begin(p)
<1>1. CASE ~w.tb.pass \/ w.tb.turns # {}
  BY <1>1 DEF PassEnd
<1>2. CASE w.tb.pass /\ w.tb.turns = {} /\ ~w.tb.requested
  <2>1. w.tb.anyFailed \/ \A f \in w.tb.queue : ~Sendable(w.tb.queue, f)
    BY <1>2 DEF Up, Awake, Watched
  <2>2. PassEnd(w) = Finish(w)
    BY <1>2 DEF PassEnd
  <2> QED BY <1>2, <2>1, <2>2, FinishFits
<1>3. CASE w.tb.pass /\ w.tb.turns = {} /\ w.tb.requested
  <2>1. Fits(p, D, M, n) /\ SamePass(w, p) /\ Sound(p)
    BY SoundParts, PersistFits, PersistSound
  <2>2. PassEnd(w) = IF again.tb.turns = {} THEN Finish(again) ELSE again
    BY <1>3 DEF PassEnd
  <2>3. p.tb.turns = {} /\ p \in WorldType
    BY <1>3, <2>1 DEF SamePass, Fits
  <2> HIDE DEF p
  <2>4. /\ Fits(again, D, M, n) /\ again.tb.pass /\ ~again.tb.cut
        /\ \A f \in again.tb.queue : Sendable(again.tb.queue, f) => Watched(again.tb, f)
    BY <2>1, <2>3, BeginFits
  <2>5. Sound(again)
    BY <2>1, <2>3, BeginQuiet, QuietlySound
  <2> HIDE DEF again
  <2>6. Up(again.tb)
    BY <2>4 DEF Up, Awake, Severed
  <2>7. (again.tb.turns = {}) => \A f \in again.tb.queue : ~Sendable(again.tb.queue, f)
    BY <2>4 DEF Watched
  <2>8. (again.tb.turns = {}) => Fits(Finish(again), D, M, n) /\ Up(Finish(again).tb)
    BY <2>4, <2>5, <2>7, FinishFits
  <2> QED BY <2>2, <2>4, <2>6, <2>8
<1> QED BY <1>1, <1>2, <1>3

\* Whoever asks for a pass gets one, now or once this one is over.
LEMMA FlushQueueFits ==
    ASSUME NEW D, NEW M, NEW n \in Nat, NEW w, Fits(w, D, M, n), Sound(w), refusing \in BOOLEAN
    PROVE  LET v == FlushQueue(w) IN
           /\ Fits(v, D, M, n) /\ Up(v.tb)
           /\ w.tb.pass => /\ v.tb.queue = w.tb.queue /\ w.tb.turns \subseteq v.tb.turns
                           /\ v.tb.pass /\ v.tb.requested
<1> DEFINE a == [w EXCEPT !.tb.requested = TRUE]
           v == Launch(a)
           b == Begin(w)
<1>1. w \in WorldType
  BY DEF Fits
<1>2. CASE w.tb.pass
  <2>1. FlushQueue(w) = v
    BY <1>2 DEF FlushQueue
  <2>2. /\ a \in WorldType /\ a.tb.queue = w.tb.queue /\ a.tb.turns = w.tb.turns /\ a.tb.failed = w.tb.failed
        /\ a.tb.pass = w.tb.pass /\ a.tb.cut = w.tb.cut /\ a.tb.requested /\ a.tb.discarded = w.tb.discarded
        /\ a.stored = w.stored
    BY <1>1 DEF WorldType, PageType
  <2> HIDE DEF a
  <2>3. PageFits(a.tb, D, M, n)
    BY <2>2 DEF Fits, PageFits, OneTurn, Forgotten, Queued
  <2>4. Fits(a, D, M, n)
    BY <2>2, <2>3 DEF Fits
  <2>5. Fits(v, D, M, n) /\ Starts(a, v)
    BY <1>2, <2>2, <2>4, LaunchFits
  <2> HIDE DEF v
  <2>6. v.tb.pass /\ v.tb.requested /\ v.tb.queue = w.tb.queue /\ w.tb.turns \subseteq v.tb.turns
    BY <1>2, <2>2, <2>5 DEF Starts, Quietly
  <2> QED BY <2>1, <2>5, <2>6 DEF Up, Awake, Severed
<1>3. CASE ~w.tb.pass
  <2>1. FlushQueue(w) = PassEnd(b)
    BY <1>3 DEF FlushQueue
  <2>2. w.tb.turns = {}
    BY <1>3 DEF Fits, PageFits
  <2>3. /\ Fits(b, D, M, n) /\ b.tb.pass /\ ~b.tb.cut
        /\ \A f \in b.tb.queue : Sendable(b.tb.queue, f) => Watched(b.tb, f)
    BY <2>2, BeginFits
  <2>4. Sound(b)
    BY <1>1, BeginQuiet, QuietlySound
  <2> HIDE DEF b
  <2>5. Up(b.tb)
    BY <2>3 DEF Up, Awake, Severed
  <2> QED BY <1>3, <2>1, <2>3, <2>4, <2>5, PassEndFits
<1> QED BY <1>2, <1>3

LEMMA FlushNowFits ==
    ASSUME NEW D, NEW M, NEW n \in Nat, NEW w, Fits(w, D, M, n), Sound(w), refusing \in BOOLEAN
    PROVE  Fits(FlushNow(w), D, M, n) /\ Up(FlushNow(w).tb)
<1> DEFINE v == [w EXCEPT !.tb.timer = FALSE]
<1>1. w \in WorldType
  BY DEF Fits
<1>2. /\ v \in WorldType /\ v.tb.queue = w.tb.queue /\ v.tb.turns = w.tb.turns /\ v.tb.failed = w.tb.failed
      /\ v.tb.pass = w.tb.pass /\ v.tb.cut = w.tb.cut /\ v.tb.discarded = w.tb.discarded /\ v.stored = w.stored
  BY <1>1 DEF WorldType, PageType
<1>3. Quietly(w, v)
  BY <1>1 DEF Quietly, WorldType, PageType
<1>4. FlushNow(w) = FlushQueue(v)
  BY DEF FlushNow
<1> HIDE DEF v
<1>5. PageFits(v.tb, D, M, n)
  BY <1>2 DEF Fits, PageFits, OneTurn, Forgotten, Queued
<1>6. Fits(v, D, M, n) /\ Sound(v)
  BY <1>2, <1>3, <1>5, QuietlySound DEF Fits
<1> QED BY <1>4, <1>6, FlushQueueFits

\* What followed an entry taken out is sent, when the page has a pass for it.
LEMMA RerunFits ==
    ASSUME NEW D, NEW M, NEW n \in Nat, NEW w, Fits(w, D, M, n), Sound(w), refusing \in BOOLEAN
    PROVE  LET v == RerunFlushSoon(w) IN
           /\ Fits(v, D, M, n)
           /\ w.tb.pass => \/ v = w /\ ~w.kick
                           \/ /\ v.tb.queue = w.tb.queue /\ w.tb.turns \subseteq v.tb.turns
                              /\ v.tb.pass /\ v.tb.requested
<1> DEFINE a == [w EXCEPT !.kick = FALSE]
<1>1. w \in WorldType
  BY DEF Fits
<1>2. a \in WorldType /\ a.tb = w.tb /\ a.stored = w.stored /\ Quietly(w, a)
  BY <1>1 DEF WorldType, Quietly
<1>3. \/ RerunFlushSoon(w) = w /\ (w.tb.pass => ~w.kick)
      \/ RerunFlushSoon(w) = FlushQueue(a)
  BY DEF RerunFlushSoon
<1> HIDE DEF a
<1>4. Fits(a, D, M, n) /\ Sound(a)
  BY <1>2, QuietlySound DEF Fits
<1>5. /\ Fits(FlushQueue(a), D, M, n)
      /\ a.tb.pass => /\ FlushQueue(a).tb.queue = a.tb.queue /\ a.tb.turns \subseteq FlushQueue(a).tb.turns
                      /\ FlushQueue(a).tb.pass /\ FlushQueue(a).tb.requested
  BY <1>4, FlushQueueFits
<1> QED BY <1>2, <1>3, <1>5

---------------------------------------------------------------------------
(* A turn that ends or goes on keeps the page awake.                       *)

\* The page is awake but for the match whose turn this is.
Between(w, u, D, M, n) ==
    /\ Fits(w, D, M, n) /\ w.tb.pass /\ u \in w.tb.turns
    /\ Awake(w.tb, {u.base}) /\ Severed(w.tb)

\* Nothing of the match could go, or the pass will see to it.
NoneOf(tb, base) ==
    \/ tb.requested \/ tb.anyFailed
    \/ \A f \in tb.queue : f.base = base => ~Sendable(tb.queue, f)

LEMMA SeveredNone ==
    ASSUME NEW tb, Severed(tb), tb.cut
    PROVE  \A base : NoneOf(tb, base)
  BY DEF Severed, NoneOf, Sendable

LEMMA EndTurnFits ==
    ASSUME NEW D, NEW M, NEW n \in Nat, NEW w, NEW u, Between(w, u, D, M, n), NEW outcome,
           outcome \in {"settled", "restamped"} \/ NoneOf(w.tb, u.base)
    PROVE  Fits(EndTurn(w, u, outcome), D, M, n) /\ Up(EndTurn(w, u, outcome).tb)
<1> DEFINE out == IF outcome = "kept" THEN {u.base} ELSE {}
           ts == w.tb.turns \ {u}
           fs == w.tb.failed \cup out
           v == [w EXCEPT !.tb.turns = ts, !.tb.failed = fs]
           x == Launch(v)
           again == outcome \in {"settled", "restamped"} /\ EntriesFor(w.tb.queue, u.base) # {}
<1>1. (w \in WorldType) /\ (u \in w.tb.turns) /\ w.tb.pass /\ Fits(w, D, M, n) /\ u.base \in Bases
  BY DEF Between, Fits, WorldType, PageType, TurnType
<1>2. EndTurn(w, u, outcome) = IF again THEN x ELSE v
  BY DEF EndTurn
<1>3. again => out = {}
  OBVIOUS
<1>4. out \subseteq {u.base}
  OBVIOUS
<1>5. ~again => NoneOf(w.tb, u.base)
  BY DEF EntriesFor, NoneOf
<1>6. (ts \subseteq TurnType) /\ (fs \subseteq Bases)
  BY <1>1, <1>4 DEF WorldType, PageType
<1>7. \A a, b \in w.tb.turns : a.base \notin w.tb.failed /\ (a.base = b.base => a = b)
  BY <1>1 DEF Fits, PageFits, OneTurn
<1>8. (\A a \in ts : a \in w.tb.turns /\ a.base # u.base) /\ \A a \in w.tb.turns : a.base # u.base => a \in ts
  BY <1>1, <1>7
<1>9. (\A b \in fs : b \in w.tb.failed \/ b \in out)
  OBVIOUS
<1> HIDE DEF out, again, ts, fs
<1>10. /\ v \in WorldType /\ v.tb.queue = w.tb.queue /\ v.tb.turns = ts /\ v.tb.failed = fs /\ v.tb.pass = w.tb.pass
       /\ v.tb.cut = w.tb.cut /\ v.tb.discarded = w.tb.discarded /\ v.stored = w.stored
       /\ v.tb.requested = w.tb.requested /\ v.tb.anyFailed = w.tb.anyFailed
  BY <1>1, <1>6 DEF WorldType, PageType
<1> HIDE DEF v
<1>11. OneTurn(v.tb)
  BY <1>4, <1>7, <1>8, <1>9, <1>10 DEF OneTurn
<1>12. PageFits(v.tb, D, M, n)
  BY <1>1, <1>8, <1>10, <1>11 DEF Fits, PageFits, Forgotten, Queued
<1>13. Fits(v, D, M, n)
  BY <1>1, <1>10, <1>12 DEF Fits
<1>14. ASSUME NEW f \in w.tb.queue, Watched(w.tb, f)
       PROVE  f.base = u.base \/ Watched(v.tb, f)
  <2>1. PICK a \in w.tb.turns : Named(f) \in NamesOf(a)
    BY <1>14 DEF Watched
  <2>2. f.base = a.base
    BY <1>1, <2>1 DEF Fits, PageFits, TurnFits
  <2> QED BY <1>8, <1>10, <2>1, <2>2 DEF Watched
<1>15. Awake(v.tb, {u.base}) /\ Severed(v.tb)
  BY <1>10, <1>14 DEF Between, Awake, Severed
<1>16. NoneOf(w.tb, u.base) => Up(v.tb)
  BY <1>1, <1>10, <1>15 DEF NoneOf, Awake, Up
<1>17. CASE ~again
  BY <1>2, <1>5, <1>13, <1>16, <1>17
<1>18. CASE again
  <2>1. Fits(x, D, M, n) /\ Starts(v, x)
    BY <1>1, <1>10, <1>13, LaunchFits
  <2> HIDE DEF x
  <2>2. /\ x.tb.queue = v.tb.queue /\ x.tb.requested = v.tb.requested /\ x.tb.anyFailed = v.tb.anyFailed
        /\ x.tb.pass /\ x.tb.cut = v.tb.cut /\ v.tb.turns \subseteq x.tb.turns
    BY <1>1, <1>10, <2>1 DEF Starts, Quietly
  <2>3. Severed(x.tb)
    BY <1>15, <2>2 DEF Severed
  <2>4. CASE w.tb.cut
    <3>1. NoneOf(v.tb, u.base)
      BY <1>10, <1>15, <2>4, SeveredNone
    <3>2. Awake(v.tb, {})
      BY <1>15, <3>1 DEF NoneOf, Awake
    <3>3. Awake(x.tb, {})
      BY <2>2, <3>2 DEF Awake, Watched
    <3> QED BY <1>2, <1>18, <2>1, <2>2, <2>3, <3>3 DEF Up
  <2>5. CASE ~w.tb.cut
    <3>1. \A f \in v.tb.queue : Sendable(v.tb.queue, f) /\ f.base = u.base => Watched(x.tb, f)
      BY <1>1, <1>3, <1>7, <1>8, <1>9, <1>10, <1>18, <2>1, <2>5 DEF Starts
    <3>2. \A f \in v.tb.queue : Watched(v.tb, f) => Watched(x.tb, f)
      BY <2>2 DEF Watched
    <3>3. Awake(x.tb, {})
      BY <1>15, <2>2, <3>1, <3>2 DEF Awake
    <3> QED BY <1>2, <1>18, <2>1, <2>2, <2>3, <3>3 DEF Up
  <2> QED BY <2>4, <2>5
<1> QED BY <1>17, <1>18

LEMMA GoOnFits ==
    ASSUME NEW D, NEW M, NEW n \in Nat, NEW w, NEW u, Between(w, u, D, M, n),
           \A e \in w.tb.queue : Named(e) \notin NamesOf(u)
    PROVE  Fits(GoOn(w, u), D, M, n) /\ Up(GoOn(w, u).tb)
<1> DEFINE q == w.tb.queue
           next == TurnFrom(w.tb, u.base, u.rest)
           ts == (w.tb.turns \ {u}) \cup {next}
           v == [w EXCEPT !.tb.turns = ts]
<1>1. /\ w \in WorldType /\ u \in w.tb.turns /\ u \in TurnType /\ u.base \in Bases /\ w.tb.pass /\ Fits(w, D, M, n)
      /\ Tidy(q, n) /\ InLine(q, D, M) /\ TurnFits(u, q, D, M, n) /\ Severed(w.tb)
  BY DEF Between, Fits, PageFits, WorldType, PageType, TurnType
<1>2. FromHead(q, u.base, u.rest)
  BY <1>1 DEF TurnFits, FromHead, ListOf
<1>3. HeadTurn(q, u.base, u.rest, next)
  BY <1>1, <1>2, TurnFromHead
<1>4. (next.phase = "sent") => TurnFits(next, q, D, M, n)
  <2> HIDE DEF next, q
  <2> QED BY <1>1, <1>2, <1>3, HeadFits
<1>5. next \in TurnType
  BY <1>1, TurnFromSound DEF TurnType
<1> HIDE DEF next
<1>6. ASSUME next.phase # "settled", NEW f \in q, f.base = u.base, Sendable(q, f)
      PROVE  next.phase = "sent" /\ Named(f) \in NamesOf(next)
  <2>1. PICK e \in ListOf(q, u.rest) : TRUE
    BY <1>3, <1>6 DEF HeadTurn
  <2>2. (e \in q) /\ (e.base = u.base) /\ (e \in EntryType) /\ (f \in EntryType) /\ (Named(e) \in u.rest)
    BY <1>1, <1>2, <2>1 DEF FromHead, ListOf, Tidy
  <2>3. f \in ListOf(q, u.rest)
    <3>1. ~(e.at < f.at)
      BY <1>6, <2>2 DEF Sendable, Before
    <3>2. CASE f.at < e.at
      BY <1>2, <1>6, <2>1, <3>2 DEF FromHead, ListOf
    <3>3. CASE f.at = e.at
      BY <1>1, <1>6, <2>1, <2>2, <3>3 DEF Tidy, Distinct
    <3> QED BY <2>2, <3>1, <3>2, <3>3 DEF EntryType
  <2> QED BY <1>3, <1>6, <2>3 DEF HeadTurn, NamesOf
<1>7. (next.phase \notin {"settled", "sent"}) => NoneOf(w.tb, u.base)
  BY <1>6 DEF NoneOf
<1>8. CASE u.rest # {} /\ w.tb.cut
  <2>1. GoOn(w, u) = EndTurn(w, u, "cut")
    BY <1>8 DEF GoOn
  <2>2. NoneOf(w.tb, u.base)
    BY <1>1, <1>8, SeveredNone
  <2> QED BY <2>1, <2>2, EndTurnFits
<1>9. CASE ~(u.rest # {} /\ w.tb.cut) /\ next.phase # "sent"
  <2>1. GoOn(w, u) = EndTurn(w, u, next.phase)
    BY <1>9 DEF GoOn, next
  <2> QED BY <1>7, <1>9, <2>1, EndTurnFits
<1>10. CASE ~(u.rest # {} /\ w.tb.cut) /\ next.phase = "sent"
  <2>1. GoOn(w, u) = v
    BY <1>10 DEF GoOn, next
  <2>2. (ts \subseteq TurnType) /\ (next \in ts) /\ (w.tb.turns \ {u}) \subseteq ts /\ \A a \in ts : a = next \/ (a \in w.tb.turns /\ a # u)
    BY <1>1, <1>5 DEF WorldType, PageType
  <2> HIDE DEF ts
  <2>3. /\ v \in WorldType /\ v.tb.queue = q /\ v.tb.turns = ts /\ v.tb.failed = w.tb.failed /\ v.tb.pass = w.tb.pass
        /\ v.tb.cut = w.tb.cut /\ v.tb.discarded = w.tb.discarded /\ v.stored = w.stored
        /\ v.tb.requested = w.tb.requested /\ v.tb.anyFailed = w.tb.anyFailed
    BY <1>1, <2>2 DEF WorldType, PageType
  <2> HIDE DEF v
  <2>4. next.base = u.base
    BY <1>3 DEF HeadTurn
  <2>5. \A a, b \in w.tb.turns : a.base \notin w.tb.failed /\ (a.base = b.base => a = b)
    BY <1>1 DEF Fits, PageFits, OneTurn
  <2>6. OneTurn(v.tb)
    BY <1>1, <2>2, <2>3, <2>4, <2>5 DEF OneTurn
  <2>7. \A a \in ts : TurnFits(a, q, D, M, n)
    BY <1>1, <1>4, <1>10, <2>2 DEF Fits, PageFits
  <2>8. PageFits(v.tb, D, M, n)
    BY <1>1, <2>3, <2>6, <2>7 DEF Fits, PageFits, Forgotten, Queued
  <2>9. Fits(v, D, M, n)
    BY <1>1, <2>3, <2>8 DEF Fits
  <2>10. ASSUME NEW f \in q, Watched(w.tb, f) PROVE Watched(v.tb, f)
    <3>1. PICK a \in w.tb.turns : Named(f) \in NamesOf(a)
      BY <2>10 DEF Watched
    <3>2. a # u
      BY <3>1
    <3> QED BY <2>2, <2>3, <3>1, <3>2 DEF Watched
  <2>11. ASSUME NEW f \in q, Sendable(q, f), f.base = u.base PROVE Watched(v.tb, f)
    BY <1>6, <1>10, <2>2, <2>3, <2>11 DEF Watched
  <2>12. Awake(v.tb, {})
    BY <2>3, <2>10, <2>11 DEF Between, Awake
  <2>13. Severed(v.tb)
    BY <1>1, <2>3 DEF Severed
  <2> QED BY <1>1, <2>1, <2>3, <2>9, <2>12, <2>13 DEF Up
<1> QED BY <1>8, <1>9, <1>10

\* What an entry taken out leaves of the page, and who may go then.
Dequeues(w, v, ps) ==
    /\ v.tb.queue = {e \in w.tb.queue : Named(e) \notin ps}
    /\ v.tb.turns = w.tb.turns /\ v.tb.pass = w.tb.pass /\ v.tb.cut = w.tb.cut /\ v.tb.timer = w.tb.timer
    /\ v.tb.requested = w.tb.requested /\ v.tb.anyFailed = w.tb.anyFailed
    /\ v.tb.discarded = w.tb.discarded
    /\ \A f \in v.tb.queue : Sendable(v.tb.queue, f) =>
          \/ v.kick \/ Sendable(w.tb.queue, f)
          \/ \E e \in w.tb.queue : Named(e) \in ps /\ e.base = f.base

LEMMA DequeueFits ==
    ASSUME NEW D, NEW M, NEW n \in Nat, NEW w, Fits(w, D, M, n), Sound(w), NEW ps,
           \A e \in w.tb.queue : Named(e) \in ps => e.carries \subseteq D
    PROVE  Fits(Dequeue(w, ps), D, M, n) /\ Dequeues(w, Dequeue(w, ps), ps)
<1> DEFINE leaving == {e \in w.tb.queue : Named(e) \in ps}
           q == w.tb.queue \ leaving
           names == {Named(e) : e \in leaving}
           followed == \E e \in leaving : IsFollowed(q, e.key)
           k == w.kick \/ followed
           v == [w EXCEPT !.tb.queue = q, !.tb.settled = @ \cup names, !.tb.here = @ \cup names, !.kick = k]
<1>1. /\ w \in WorldType /\ Tidy(w.tb.queue, n) /\ InLine(w.tb.queue, D, M)
      /\ \A u \in w.tb.turns : TurnFits(u, w.tb.queue, D, M, n)
  BY DEF Fits, PageFits
<1>2. Dequeue(w, ps) = v
  BY DEF Dequeue
<1>3. q \subseteq w.tb.queue /\ q = {e \in w.tb.queue : Named(e) \notin ps}
  OBVIOUS
<1>4. \A e \in w.tb.queue : e \in q \/ e \in leaving
  OBVIOUS
<1>5. \A e \in leaving : e \in w.tb.queue /\ e.carries \subseteq D /\ Named(e) \in ps
  OBVIOUS
<1>6. k \in BOOLEAN /\ (followed => k)
  BY <1>1 DEF WorldType
<1> HIDE DEF leaving, q, names, k, followed
<1>7. /\ v.tb.queue = q /\ v.tb.turns = w.tb.turns /\ v.tb.failed = w.tb.failed /\ v.tb.pass = w.tb.pass
      /\ v.tb.cut = w.tb.cut /\ v.tb.timer = w.tb.timer /\ v.tb.requested = w.tb.requested
      /\ v.tb.anyFailed = w.tb.anyFailed /\ v.tb.discarded = w.tb.discarded /\ v.stored = w.stored /\ v.kick = k
  BY <1>1 DEF WorldType, PageType
<1>8. v \in WorldType
  BY <1>2, DequeueSealing DEF Whole
<1> HIDE DEF v
<1>9. Tidy(q, n)
  BY <1>1, <1>3 DEF Tidy, Distinct, Earlier
<1>10. InLine(q, D, M)
  <2> SUFFICES ASSUME NEW e \in q, NEW m \in e.carries, NEW i \in M[m].after
               PROVE  i \in D \cup e.carries \/ \E f \in Before(q, e) : i \in f.carries
    BY DEF InLine
  <2>1. i \in D \cup e.carries \/ \E f \in Before(w.tb.queue, e) : i \in f.carries
    BY <1>1, <1>3 DEF InLine
  <2>2. \A f \in Before(w.tb.queue, e) : f \in Before(q, e) \/ f.carries \subseteq D
    BY <1>4, <1>5 DEF Before
  <2> QED BY <2>1, <2>2
<1>11. \A u \in w.tb.turns : TurnFits(u, q, D, M, n)
  BY <1>1, <1>3 DEF TurnFits
<1>12. Forgotten(v.tb, n)
  BY <1>3, <1>7 DEF Fits, PageFits, Forgotten, Queued
<1>13. OneTurn(v.tb)
  BY <1>7 DEF Fits, PageFits, OneTurn
<1>14. PageFits(v.tb, D, M, n)
  BY <1>7, <1>9, <1>10, <1>11, <1>12, <1>13 DEF Fits, PageFits
<1>15. Fits(v, D, M, n)
  BY <1>7, <1>8, <1>14 DEF Fits
<1>16. ASSUME NEW f \in q, Sendable(q, f), ~k, ~Sendable(w.tb.queue, f)
       PROVE  \E e \in w.tb.queue : Named(e) \in ps /\ e.base = f.base
  <2>1. PICK e \in Before(w.tb.queue, f) : TRUE
    BY <1>16 DEF Sendable
  <2>2. e \in leaving
    BY <1>4, <1>16, <2>1 DEF Sendable, Before
  <2>3. e.key \notin f.after
    BY <1>6, <1>16, <2>2 DEF followed, IsFollowed
  <2> QED BY <1>5, <2>1, <2>2, <2>3 DEF Before
<1> QED BY <1>2, <1>3, <1>7, <1>15, <1>16 DEF Dequeues

---------------------------------------------------------------------------
(* Entries whose marks and passwords alone change keep their order.        *)

Reworn(q, r) == SameCores(q, r) /\ \A c, d \in r : Core(c) = Core(d) => c = d

LEMMA RewornImage ==
    ASSUME NEW q \in SUBSET EntryType, Distinct(q), NEW h \in [q -> EntryType], \A e \in q : Core(h[e]) = Core(e)
    PROVE  Reworn(q, {h[e] : e \in q})
<1> DEFINE r == {h[e] : e \in q}
<1>1. SameCores(q, r)
  BY DEF SameCores
<1>2. ASSUME NEW d \in q, NEW e \in q, Core(h[d]) = Core(h[e]) PROVE h[d] = h[e]
  <2>1. d.key = e.key
    BY <1>2, CoreFields
  <2> QED BY <2>1 DEF Distinct
<1> QED BY <1>1, <1>2 DEF Reworn

\* The same entry, but for its marks and its password.
Alike(d, e) ==
    d.key = e.key /\ d.at = e.at /\ d.base = e.base /\ d.carries = e.carries /\ d.after = e.after /\ Named(d) = Named(e)

LEMMA RewornFits ==
    ASSUME NEW D, NEW M, NEW n \in Nat, NEW q, Tidy(q, n), InLine(q, D, M), NEW r, Reworn(q, r)
    PROVE  /\ Tidy(r, n) /\ InLine(r, D, M)
           /\ \A u : TurnFits(u, q, D, M, n) => TurnFits(u, r, D, M, n)
           /\ \A d \in r, e \in q : Alike(d, e) /\ Before(r, d) = {} => Before(q, e) = {}
           /\ \A d \in r : \E e \in q : Alike(d, e)
           /\ \A e \in q : \E d \in r : Alike(d, e)
<1>1. q \subseteq EntryType /\ r \subseteq EntryType /\ Distinct(q)
  BY DEF Tidy, Reworn, SameCores
<1>2. \A d, e \in EntryType : Core(d) = Core(e) => Alike(d, e)
  BY CoreFields DEF Alike, Named
<1>3. \A d \in r : \E e \in q : Alike(d, e) /\ Core(d) = Core(e)
  BY <1>1, <1>2 DEF Reworn, SameCores
<1>4. \A e \in q : \E d \in r : Alike(d, e)
  BY <1>1, <1>2 DEF Reworn, SameCores
<1>5. Distinct(r)
  <2> SUFFICES ASSUME NEW c \in r, NEW d \in r, c.key = d.key \/ c.at = d.at PROVE c = d
    BY DEF Distinct
  <2>1. PICK e \in q : Alike(c, e) /\ Core(c) = Core(e)
    BY <1>3
  <2>2. PICK f \in q : Alike(d, f) /\ Core(d) = Core(f)
    BY <1>3
  <2>3. e = f
    BY <1>1, <2>1, <2>2 DEF Alike, Distinct
  <2> QED BY <2>1, <2>2, <2>3 DEF Reworn
<1>6. Earlier(r)
  BY <1>3 DEF Tidy, Earlier, Alike
<1>7. Tidy(r, n)
  BY <1>1, <1>3, <1>5, <1>6 DEF Tidy, Alike
<1>8. ASSUME NEW d \in r, NEW e \in q, Alike(d, e), NEW f \in Before(q, e)
      PROVE  \E c \in Before(r, d) : Alike(c, f)
  <2>1. PICK c \in r : Alike(c, f)
    BY <1>4, <1>8 DEF Before
  <2> QED BY <1>8, <2>1 DEF Before, Alike
<1>9. InLine(r, D, M)
  <2> SUFFICES ASSUME NEW d \in r, NEW m \in d.carries, NEW i \in M[m].after
               PROVE  i \in D \cup d.carries \/ \E f \in Before(r, d) : i \in f.carries
    BY DEF InLine
  <2>1. PICK e \in q : Alike(d, e)
    BY <1>3
  <2>2. i \in D \cup e.carries \/ \E f \in Before(q, e) : i \in f.carries
    BY <2>1 DEF InLine, Alike
  <2> QED BY <1>8, <2>1, <2>2 DEF Alike
<1>10. ASSUME NEW u, TurnFits(u, q, D, M, n) PROVE TurnFits(u, r, D, M, n)
  <2>1. \A d \in r : Named(d) \in NamesOf(u) \cup u.rest => d.base = u.base
    BY <1>3, <1>10 DEF TurnFits, Alike
  <2>2. ASSUME NEW c \in r, Named(c) \in u.rest, NEW d \in r, d.base = u.base, d.at < c.at
        PROVE  Named(d) \in NamesOf(u) \cup u.rest
    <3>1. PICK e \in q : Alike(c, e)
      BY <1>3
    <3>2. PICK f \in q : Alike(d, f)
      BY <1>3
    <3> QED BY <1>10, <2>2, <3>1, <3>2 DEF TurnFits, Alike
  <2> QED BY <1>10, <2>1, <2>2 DEF TurnFits
<1>11. \A d \in r, e \in q : Alike(d, e) /\ Before(r, d) = {} => Before(q, e) = {}
  BY <1>8
<1> QED BY <1>3, <1>4, <1>7, <1>9, <1>10, <1>11

\* A refusal leaves its entries waiting: nothing of the match could go.
LEMMA MarkFits ==
    ASSUME NEW D, NEW M, NEW n \in Nat, NEW w, Fits(w, D, M, n), Up(w.tb), w.tb.pass, NEW u \in w.tb.turns,
           u.phase \in {"err", "auth", "no"}
    PROVE  Between(Mark(w, u), u, D, M, n) /\ NoneOf(Mark(w, u).tb, u.base)
<1> DEFINE after(e) == IF Named(e) \in NamesOf(u) THEN Marked(e, u.phase) ELSE e
           h == [e \in w.tb.queue |-> after(e)]
           q == {after(e) : e \in w.tb.queue}
           failed == w.tb.anyFailed \/ u.phase = "err"
           v == [w EXCEPT !.tb.queue = q, !.tb.anyFailed = failed]
<1>1. /\ w \in WorldType /\ Tidy(w.tb.queue, n) /\ InLine(w.tb.queue, D, M) /\ w.tb.queue \in SUBSET EntryType
      /\ OneTurn(w.tb) /\ \A a \in w.tb.turns : TurnFits(a, w.tb.queue, D, M, n)
  BY DEF Fits, PageFits, Tidy
<1>2. Mark(w, u) = v
  BY <1>1 DEF Mark, WorldType, PageType
<1>3. \A e \in w.tb.queue : (after(e) \in EntryType) /\ (Core(after(e)) = Core(e))
  BY <1>1, MarkedType DEF Core
<1>4. ASSUME NEW e \in w.tb.queue
      PROVE  /\ Alike(after(e), e)
             /\ e.authBlocked => after(e).authBlocked
             /\ e.parked => after(e).parked
             /\ Named(e) \in NamesOf(u) => after(e).authBlocked \/ after(e).parked \/ u.phase = "err"
  <2>1. (e \in EntryType) /\ (e.authBlocked \in BOOLEAN) /\ (e.parked \in BOOLEAN)
    BY <1>1 DEF EntryType
  <2>2. Alike(after(e), e)
    BY <1>3, <2>1, CoreFields DEF Alike, Named
  <2>3. /\ Marked(e, u.phase).authBlocked = (e.authBlocked \/ u.phase = "auth")
        /\ Marked(e, u.phase).parked = (e.parked \/ u.phase = "no")
    BY <2>1 DEF Marked, EntryType
  <2> QED BY <2>1, <2>2, <2>3
<1> HIDE DEF after
<1>5. Reworn(w.tb.queue, q)
  <2>1. (h \in [w.tb.queue -> EntryType]) /\ (\A e \in w.tb.queue : Core(h[e]) = Core(e)) /\ q = {h[e] : e \in w.tb.queue}
    BY <1>3
  <2> HIDE DEF h, q
  <2>2. Reworn(w.tb.queue, {h[e] : e \in w.tb.queue})
    BY <1>1, <2>1, RewornImage DEF Tidy
  <2> QED BY <2>1, <2>2
<1>6. \A d \in q : \E e \in w.tb.queue : d = after(e)
  OBVIOUS
<1>7. (q \in SUBSET EntryType) /\ (failed \in BOOLEAN) /\ (u.phase = "err" => failed) /\ (w.tb.anyFailed => failed)
  <2>1. w.tb.anyFailed \in BOOLEAN
    BY <1>1 DEF WorldType, PageType
  <2> QED BY <1>3, <2>1
<1> HIDE DEF q, failed, h
<1>8. /\ v \in WorldType /\ v.tb.queue = q /\ v.tb.turns = w.tb.turns /\ v.tb.failed = w.tb.failed
      /\ v.tb.pass = w.tb.pass /\ v.tb.cut = w.tb.cut /\ v.tb.requested = w.tb.requested
      /\ v.tb.anyFailed = failed /\ v.tb.discarded = w.tb.discarded /\ v.stored = w.stored
  BY <1>1, <1>7 DEF WorldType, PageType
<1> HIDE DEF v
<1>9. /\ Tidy(q, n) /\ InLine(q, D, M)
      /\ \A a : TurnFits(a, w.tb.queue, D, M, n) => TurnFits(a, q, D, M, n)
      /\ \A d \in q, e \in w.tb.queue : Alike(d, e) /\ Before(q, d) = {} => Before(w.tb.queue, e) = {}
  BY <1>1, <1>5, RewornFits
<1>10. Forgotten(v.tb, n)
  BY <1>4, <1>6, <1>8 DEF Fits, PageFits, Forgotten, Queued, Alike
<1>11. PageFits(v.tb, D, M, n)
  BY <1>1, <1>8, <1>9, <1>10 DEF Fits, PageFits, OneTurn
<1>12. Fits(v, D, M, n)
  BY <1>8, <1>11 DEF Fits
<1>13. ASSUME NEW e \in w.tb.queue, Sendable(q, after(e))
       PROVE  Sendable(w.tb.queue, e)
  <2>1. after(e) \in q
    BY DEF q
  <2> QED BY <1>4, <1>9, <1>13, <2>1 DEF Sendable
<1>14. w.tb.requested \/ failed \/ \A e \in w.tb.queue : Sendable(q, after(e)) => Watched(w.tb, e)
  BY <1>7, <1>13 DEF Up, Awake
<1>15. \A e \in w.tb.queue : Watched(w.tb, e) => Watched(v.tb, after(e))
  BY <1>4, <1>8 DEF Watched, Alike
<1>16. Awake(v.tb, {u.base})
  BY <1>6, <1>8, <1>14, <1>15 DEF Awake
<1>17. Severed(v.tb)
  BY <1>4, <1>6, <1>8 DEF Up, Severed
<1>18. ASSUME NEW e \in w.tb.queue, Watched(w.tb, e), after(e).base = u.base, Sendable(q, after(e))
       PROVE  failed
  <2>1. PICK a \in w.tb.turns : Named(e) \in NamesOf(a)
    BY <1>18 DEF Watched
  <2>2. (e.base = a.base) /\ (e.base = u.base)
    BY <1>1, <1>4, <1>18, <2>1 DEF TurnFits, Alike
  <2>3. a = u
    BY <1>1, <2>1, <2>2 DEF OneTurn
  <2> QED BY <1>4, <1>7, <1>18, <2>1, <2>3 DEF Sendable
<1>19. NoneOf(v.tb, u.base)
  BY <1>6, <1>8, <1>14, <1>18 DEF NoneOf
<1> QED BY <1>2, <1>8, <1>12, <1>16, <1>17, <1>19 DEF Between

\* What a request settled is taken out, and the page stays awake.
LEMMA TakeOutFits ==
    ASSUME NEW D, NEW M, NEW n \in Nat, NEW w, Fits(w, D, M, n), Sound(w), Up(w.tb), w.tb.pass, NEW u \in w.tb.turns,
           refusing \in BOOLEAN, \A e \in w.tb.queue : Named(e) \in NamesOf(u) => e.carries \subseteq D
    PROVE  LET v == RerunFlushSoon(Persist(Dequeue(w, NamesOf(u)))) IN
           /\ Between(v, u, D, M, n)
           /\ \A e \in v.tb.queue : Named(e) \notin NamesOf(u)
<1> DEFINE out == Dequeue(w, NamesOf(u))
           p == Persist(out)
           v == RerunFlushSoon(p)
<1>1. /\ Fits(out, D, M, n) /\ out.tb.queue = {e \in w.tb.queue : Named(e) \notin NamesOf(u)}
      /\ out.tb.turns = w.tb.turns /\ out.tb.pass = w.tb.pass /\ out.tb.cut = w.tb.cut
      /\ out.tb.requested = w.tb.requested /\ out.tb.anyFailed = w.tb.anyFailed
      /\ \A f \in out.tb.queue : Sendable(out.tb.queue, f) =>
            \/ out.kick \/ Sendable(w.tb.queue, f)
            \/ \E e \in w.tb.queue : Named(e) \in NamesOf(u) /\ e.base = f.base
  <2>1. Fits(Dequeue(w, NamesOf(u)), D, M, n) /\ Dequeues(w, Dequeue(w, NamesOf(u)), NamesOf(u))
    <3> DEFINE ps == NamesOf(u)
    <3>1. \A e \in w.tb.queue : Named(e) \in ps => e.carries \subseteq D
      OBVIOUS
    <3> HIDE DEF ps
    <3>2. Fits(Dequeue(w, ps), D, M, n) /\ Dequeues(w, Dequeue(w, ps), ps)
      BY <3>1, DequeueFits
    <3> QED BY <3>2 DEF ps
  <2>2. Fits(out, D, M, n) /\ Dequeues(w, out, NamesOf(u))
    BY <2>1
  <2> HIDE DEF out
  <2> QED BY <2>2 DEF Dequeues
<1>2. Whole(out) /\ Sealing(out)
  BY DequeueSealing
<1> HIDE DEF out
<1>3. Fits(p, D, M, n) /\ SamePass(out, p) /\ Sound(p)
  BY <1>1, <1>2, PersistFits, PersistSound
<1> HIDE DEF p
<1>4. /\ Fits(v, D, M, n)
      /\ p.tb.pass => \/ v = p /\ ~p.kick
                      \/ /\ v.tb.queue = p.tb.queue /\ p.tb.turns \subseteq v.tb.turns
                         /\ v.tb.pass /\ v.tb.requested
  BY <1>3, RerunFits
<1> HIDE DEF v
<1>5. \A e \in w.tb.queue : Named(e) \in NamesOf(u) => e.base = u.base
  BY DEF Fits, PageFits, TurnFits
<1>6. (out.tb.queue \subseteq w.tb.queue) /\ \A e \in out.tb.queue : Named(e) \notin NamesOf(u)
  BY <1>1
<1>7. p.tb.pass /\ u \in p.tb.turns /\ p.tb.queue = out.tb.queue
  BY <1>1, <1>3 DEF SamePass
<1>8. \A f \in out.tb.queue : Watched(w.tb, f) => Watched(out.tb, f)
  BY <1>1 DEF Watched
<1>9. ~out.kick => Awake(out.tb, {u.base})
  BY <1>1, <1>5, <1>6, <1>8 DEF Up, Awake
<1>10. Severed(out.tb)
  BY <1>1, <1>6 DEF Up, Severed
<1>11. (~p.kick => Awake(p.tb, {u.base})) /\ Severed(p.tb)
  BY <1>1, <1>3, <1>9, <1>10, SamePassFits DEF Fits, SamePass
<1>12. CASE v = p /\ ~p.kick
  BY <1>4, <1>6, <1>7, <1>11, <1>12 DEF Between, v, p, out
<1>13. CASE v.tb.queue = p.tb.queue /\ p.tb.turns \subseteq v.tb.turns /\ v.tb.pass /\ v.tb.requested
  <2>1. Awake(v.tb, {u.base}) /\ Severed(v.tb)
    BY <1>13 DEF Awake, Severed
  <2> QED BY <1>4, <1>6, <1>7, <1>13, <2>1 DEF Between, v, p, out
<1> QED BY <1>4, <1>7, <1>12, <1>13

LEMMA UpBetween ==
    ASSUME NEW D, NEW M, NEW n, NEW w, Fits(w, D, M, n), Up(w.tb), w.tb.pass, NEW u \in w.tb.turns
    PROVE  Between(w, u, D, M, n)
  BY DEF Up, Between, Awake

LEMMA SendEntryFits ==
    ASSUME NEW D, NEW M, NEW n \in Nat, NEW w, Fits(w, D, M, n), Sound(w), Up(w.tb), w.tb.pass, NEW u \in w.tb.turns,
           refusing \in BOOLEAN, u.phase \in Out, u.phase # "sent", OneOrTaps(u), ~IsTaps(u),
           Counts(u) => \A e \in w.tb.queue : Named(e) \in NamesOf(u) => e.carries \subseteq D
    PROVE  Fits(SendEntry(w, u), D, M, n) /\ Up(SendEntry(w, u).tb)
<1> DEFINE e == Oldest(u.sent)
           p == Named(e)
           heard == [w EXCEPT !.tb.discarded = @ \ {p}]
           asked == [w EXCEPT !.tb.requested = TRUE]
           left == RerunFlushSoon(Persist(Dequeue(heard, {p})))
<1>1. (w \in WorldType) /\ (u \in TurnType) /\ Forgotten(w.tb, n)
  BY DEF Fits, PageFits, WorldType, PageType
<1>2. NamesOf(u) = {p}
  <2>1. PICK s \in EntryType : u.sent = {s}
    BY DEF OneOrTaps
  <2>2. e \in u.sent
    BY <1>1, <2>1, OldestIsThere DEF TurnType
  <2>3. e = s
    BY <2>1, <2>2
  <2> HIDE DEF e
  <2> QED BY <2>1, <2>3 DEF NamesOf
<1> HIDE DEF e, p
<1>3. /\ heard \in WorldType /\ SamePass(w, [heard EXCEPT !.tb.discarded = w.tb.discarded])
      /\ heard.tb.queue = w.tb.queue /\ heard.tb.turns = w.tb.turns /\ heard.tb.failed = w.tb.failed
      /\ heard.tb.pass = w.tb.pass /\ heard.tb.cut = w.tb.cut /\ heard.tb.requested = w.tb.requested
      /\ heard.tb.anyFailed = w.tb.anyFailed /\ heard.tb.timer = w.tb.timer
      /\ heard.tb.discarded = w.tb.discarded \ {p} /\ heard.stored = w.stored /\ Quietly(w, heard)
  BY <1>1 DEF WorldType, PageType, SamePass, Quietly
<1>4. /\ asked \in WorldType /\ asked.tb.queue = w.tb.queue /\ asked.tb.turns = w.tb.turns
      /\ asked.tb.failed = w.tb.failed /\ asked.tb.pass = w.tb.pass /\ asked.tb.cut = w.tb.cut
      /\ asked.tb.requested /\ asked.tb.discarded = w.tb.discarded /\ asked.stored = w.stored
  BY <1>1 DEF WorldType, PageType
<1>5. SendEntry(w, u) =
        IF p \in w.tb.discarded THEN GoOn(heard, u)
        ELSE IF u.phase \in {"err", "auth"} THEN EndTurn(Mark(w, u), u, "kept")
        ELSE IF Queued(w.tb, p) THEN GoOn(left, u)
        ELSE IF e.key \in KeysOf(w.tb.queue) THEN EndTurn(asked, u, "restamped")
        ELSE GoOn(w, u)
  BY DEF SendEntry, e, p
<1> HIDE DEF heard, asked
<1>6. Fits(heard, D, M, n) /\ Up(heard.tb) /\ Sound(heard)
  <2>1. PageFits(heard.tb, D, M, n)
    BY <1>3 DEF Fits, PageFits, OneTurn, Forgotten, Queued
  <2>2. Up(heard.tb)
    BY <1>3 DEF Up, Awake, Severed, Watched
  <2> QED BY <1>3, <2>1, <2>2, QuietlySound DEF Fits
<1>7. Between(heard, u, D, M, n) /\ Between(w, u, D, M, n)
  BY <1>3, <1>6, UpBetween
<1>8. CASE p \in w.tb.discarded
  <2>1. \A f \in heard.tb.queue : Named(f) \notin NamesOf(u)
    BY <1>1, <1>2, <1>3, <1>8 DEF Forgotten, Queued
  <2> QED BY <1>5, <1>7, <1>8, <2>1, GoOnFits
<1>9. CASE p \notin w.tb.discarded /\ u.phase \in {"err", "auth"}
  <2>1. Between(Mark(w, u), u, D, M, n) /\ NoneOf(Mark(w, u).tb, u.base)
    BY <1>9, MarkFits
  <2> QED BY <1>5, <1>9, <2>1, EndTurnFits
<1>10. CASE p \notin w.tb.discarded /\ u.phase \notin {"err", "auth"} /\ Queued(w.tb, p)
  <2>1. Counts(u)
    BY <1>10 DEF Counts, Out
  <2>2. \A f \in heard.tb.queue : Named(f) \in NamesOf(u) => f.carries \subseteq D
    BY <1>3, <2>1
  <2>3. /\ Between(left, u, D, M, n)
        /\ \A f \in left.tb.queue : Named(f) \notin NamesOf(u)
    BY <1>2, <1>3, <1>6, <2>2, TakeOutFits
  <2> HIDE DEF left
  <2> QED BY <1>5, <1>10, <2>3, GoOnFits
<1>11. CASE p \notin w.tb.discarded /\ u.phase \notin {"err", "auth"} /\ ~Queued(w.tb, p)
  <2>1. PageFits(asked.tb, D, M, n)
    BY <1>4 DEF Fits, PageFits, OneTurn, Forgotten, Queued
  <2>2. Between(asked, u, D, M, n)
    BY <1>4, <2>1 DEF Fits, Between, Awake, Severed
  <2>3. Fits(EndTurn(asked, u, "restamped"), D, M, n) /\ Up(EndTurn(asked, u, "restamped").tb)
    BY <2>2, EndTurnFits
  <2>4. \A f \in w.tb.queue : Named(f) \notin NamesOf(u)
    BY <1>2, <1>11 DEF Queued
  <2>5. Fits(GoOn(w, u), D, M, n) /\ Up(GoOn(w, u).tb)
    BY <1>7, <2>4, GoOnFits
  <2> QED BY <1>5, <1>11, <2>3, <2>5
<1> QED BY <1>8, <1>9, <1>10, <1>11

LEMMA SendTapBatchFits ==
    ASSUME NEW D, NEW M, NEW n \in Nat, NEW w, Fits(w, D, M, n), Sound(w), Up(w.tb), w.tb.pass, NEW u \in w.tb.turns,
           refusing \in BOOLEAN, u.phase \in Out, u.phase # "sent",
           Counts(u) => \A e \in w.tb.queue : Named(e) \in NamesOf(u) => e.carries \subseteq D
    PROVE  Fits(SendTapBatch(w, u), D, M, n) /\ Up(SendTapBatch(w, u).tb)
<1> DEFINE m == Mark(w, u)
           p == Persist(m)
           left == RerunFlushSoon(Persist(Dequeue(w, NamesOf(u))))
<1>1. SendTapBatch(w, u) =
        IF u.phase \in {"err", "auth"} THEN EndTurn(m, u, "kept")
        ELSE IF u.phase = "no" THEN EndTurn(p, u, "kept")
        ELSE IF \E i \in NamesOf(u) : Queued(w.tb, i) THEN GoOn(left, u)
        ELSE GoOn(w, u)
  BY DEF SendTapBatch
<1>2. CASE u.phase \in {"err", "auth", "no"}
  <2>1. Between(m, u, D, M, n) /\ NoneOf(m.tb, u.base) /\ Sound(m)
    BY <1>2, MarkFits, MarkSound
  <2> HIDE DEF m
  <2>2. Fits(p, D, M, n) /\ SamePass(m, p)
    BY <2>1, SoundParts, PersistFits DEF Between
  <2> HIDE DEF p
  <2>3. Awake(p.tb, {u.base}) /\ Severed(p.tb)
    BY <2>1, <2>2, SamePassFits DEF Between, Fits
  <2>4. Between(p, u, D, M, n) /\ NoneOf(p.tb, u.base)
    BY <2>1, <2>2, <2>3 DEF Between, NoneOf, SamePass
  <2>5. Fits(EndTurn(m, u, "kept"), D, M, n) /\ Up(EndTurn(m, u, "kept").tb)
    BY <2>1, EndTurnFits
  <2>6. Fits(EndTurn(p, u, "kept"), D, M, n) /\ Up(EndTurn(p, u, "kept").tb)
    BY <2>4, EndTurnFits
  <2> QED BY <1>1, <1>2, <2>5, <2>6
<1>3. CASE u.phase \notin {"err", "auth", "no"}
  <2>1. Counts(u)
    BY <1>3 DEF Counts, Out
  <2>2. /\ Between(left, u, D, M, n)
        /\ \A f \in left.tb.queue : Named(f) \notin NamesOf(u)
    BY <2>1, TakeOutFits
  <2> HIDE DEF left
  <2>3. Fits(GoOn(left, u), D, M, n) /\ Up(GoOn(left, u).tb)
    BY <2>2, GoOnFits
  <2>4. (~\E i \in NamesOf(u) : Queued(w.tb, i)) => Fits(GoOn(w, u), D, M, n) /\ Up(GoOn(w, u).tb)
    BY UpBetween, GoOnFits DEF Queued
  <2> QED BY <1>1, <1>3, <2>3, <2>4
<1> QED BY <1>2, <1>3

---------------------------------------------------------------------------
(* The steps of a page that is alone.                                      *)

MadeType == [by : Tabs, kind : Kinds, after : SUBSET Nat]

\* An open page sends in order and is never left with something to send and
\* nothing to do; what storage holds is in order too.
OrderInv ==
    /\ made \in Seq(MadeType) /\ Len(made) = clock
    /\ CopyFits(stored, Done, made, clock)
    /\ \A t \in Tabs : tab[t].open => PageFits(tab[t], Done, made, clock) /\ Up(tab[t])

AllInv == OutboxInv /\ AloneInv /\ OrderInv

LEMMA FitsOn ==
    ASSUME NEW D, NEW E, NEW M, NEW n, D \subseteq E
    PROVE  /\ \A tb : PageFits(tb, D, M, n) => PageFits(tb, E, M, n)
           /\ \A s : CopyFits(s, D, M, n) => CopyFits(s, E, M, n)
<1>1. \A q : InLine(q, D, M) => InLine(q, E, M)
  BY DEF InLine
<1>2. \A u, q : TurnFits(u, q, D, M, n) => TurnFits(u, q, E, M, n)
  <2>1. ASSUME NEW u, NEW q, TurnFits(u, q, D, M, n) PROVE TurnFits(u, q, E, M, n)
    <3>1. \A m \in CarriedBy(u.sent) : M[m].after \subseteq E \cup CarriedBy(u.sent)
      BY <2>1 DEF TurnFits
    <3> QED BY <2>1, <3>1 DEF TurnFits
  <2> QED BY <2>1
<1> QED BY <1>1, <1>2 DEF PageFits, CopyFits

\* Where an open page is.
LEMMA WorldFits ==
    ASSUME AllInv, NEW t \in Tabs, tab[t].open, Done \subseteq Done'
    PROVE  /\ Fits(World(t), Done', made, clock) /\ Sound(World(t)) /\ Up(World(t).tb)
           /\ clock \in Nat /\ refusing \in BOOLEAN /\ t \in shape.tabs
           /\ World(t).tb = tab[t] /\ World(t).stored = stored
<1>1. /\ Sound(World(t)) /\ World(t) \in WorldType /\ World(t).tb = tab[t] /\ World(t).stored = stored
      /\ t \in shape.tabs /\ refusing \in BOOLEAN
  BY AloneSound DEF AllInv
<1>2. PageFits(tab[t], Done, made, clock) /\ Up(tab[t]) /\ CopyFits(stored, Done, made, clock)
  BY DEF AllInv, OrderInv
<1>3. PageFits(tab[t], Done', made, clock) /\ CopyFits(stored, Done', made, clock)
  BY <1>2, FitsOn
<1>4. clock \in Nat BY DEF AllInv, OutboxInv, Typed
<1> QED BY <1>1, <1>2, <1>3, <1>4 DEF Fits

LEMMA OrderMoves ==
    ASSUME OnePage, AllInv, NEW t \in Tabs, t \in shape.tabs, NEW z, shape' = shape,
           tab' = [tab EXCEPT ![t] = z], CopyFits(stored', Done', made', clock'),
           made' \in Seq(MadeType), Len(made') = clock',
           z.open => PageFits(z, Done', made', clock') /\ Up(z)
    PROVE  OrderInv'
<1>1. tab \in [Tabs -> PageType] /\ shape \in Shapes BY DEF AllInv, OutboxInv, Typed
<1>3. CopyFits(stored', Done', made', clock') OBVIOUS
<1>4. ASSUME NEW u \in Tabs, tab'[u].open
      PROVE  PageFits(tab'[u], Done', made', clock') /\ Up(tab'[u])
  <2>1. CASE u = t
    BY <1>1, <1>4, <2>1
  <2>2. CASE u # t
    <3>1. tab'[u] = tab[u] BY <1>1, <2>2
    <3>2. u \in shape.tabs BY <1>4, <3>1 DEF AllInv, OutboxInv, Shut
    <3> QED BY <1>1, <2>2, <3>2 DEF OnePage
  <2> QED BY <2>1, <2>2
<1> QED BY <1>3, <1>4 DEF OrderInv

\* Such a step in which nothing is made.
LEMMA OrderDo ==
    ASSUME OnePage, AllInv, NEW t \in Tabs, t \in shape.tabs, NEW w, Do(t, w), UNCHANGED <<shape, clock, made>>,
           Fits(w, Done', made, clock), Up(w.tb)
    PROVE  OrderInv'
<1>1. made' \in Seq(MadeType) /\ Len(made') = clock' /\ clock' = clock /\ made' = made
  BY DEF AllInv, OrderInv
<1>2. tab' = [tab EXCEPT ![t] = w.tb] /\ stored' = w.stored BY DEF Do
<1>3. PageFits(w.tb, Done', made', clock') /\ CopyFits(stored', Done', made', clock') BY <1>1, <1>2 DEF Fits
<1> QED BY <1>1, <1>2, <1>3, OrderMoves

LEMMA TimerOrder ==
    ASSUME OnePage, NEW t \in Tabs, AllInv, TimerFires(t)
    PROVE  OrderInv'
<1>1. /\ Done' = Done /\ tab[t].open /\ Do(t, FlushNow(World(t))) /\ UNCHANGED <<shape, clock, made>>
  BY DEF TimerFires, Done
<1>2. /\ Fits(World(t), Done', made, clock) /\ Sound(World(t)) /\ clock \in Nat /\ refusing \in BOOLEAN
      /\ t \in shape.tabs
  BY <1>1, WorldFits
<1>3. Fits(FlushNow(World(t)), Done', made, clock) /\ Up(FlushNow(World(t)).tb)
  BY <1>2, FlushNowFits
<1> QED BY <1>1, <1>2, <1>3, OrderDo

LEMMA HearsOrder ==
    ASSUME OnePage, NEW t \in Tabs, AllInv, Hears(t)
    PROVE  OrderInv'
<1>1. PICK u \in {v \in tab[t].turns : v.phase # "sent"} :
         Do(t, PassEnd(IF IsTaps(u) THEN SendTapBatch(World(t), u) ELSE SendEntry(World(t), u)))
  BY DEF Hears
<1>2. Done' = Done /\ UNCHANGED <<shape, clock, made>> BY DEF Hears, Done
<1>3. u \in tab[t].turns /\ u.phase # "sent" BY <1>1
<1>4. tab[t].open BY <1>3 DEF AllInv, OutboxInv, Shut
<1>5. /\ Fits(World(t), Done', made, clock) /\ Sound(World(t)) /\ Up(World(t).tb)
      /\ clock \in Nat /\ refusing \in BOOLEAN /\ t \in shape.tabs /\ World(t).tb = tab[t]
  BY <1>2, <1>4, WorldFits
<1>6. Good(World(t), t, Cores, Done') /\ Agree(Cores, Done')
  BY <1>2, WorldGood DEF AllInv
<1>7. u.phase \in Out /\ OneOrTaps(u)
  BY <1>3, <1>5, <1>6 DEF Good, PageGood, Answered
<1>8. u \in World(t).tb.turns BY <1>3, <1>5
<1>9. Counts(u) => \A e \in World(t).tb.queue : Named(e) \in NamesOf(u) => e.carries \subseteq Done'
  BY <1>6, <1>8, SentDone
<1>10. World(t).tb.pass BY <1>5, <1>8 DEF Fits, PageFits
<1>11. CASE IsTaps(u)
  <2>1. Fits(SendTapBatch(World(t), u), Done', made, clock) /\ Up(SendTapBatch(World(t), u).tb)
    BY <1>3, <1>5, <1>7, <1>8, <1>9, <1>10, SendTapBatchFits
  <2>2. Sound(SendTapBatch(World(t), u)) BY <1>5, <1>8, SendTapBatchSound
  <2>3. Fits(PassEnd(SendTapBatch(World(t), u)), Done', made, clock) /\ Up(PassEnd(SendTapBatch(World(t), u)).tb)
    BY <1>5, <2>1, <2>2, PassEndFits
  <2>4. Do(t, PassEnd(SendTapBatch(World(t), u))) BY <1>1, <1>11
  <2> QED BY <1>2, <1>5, <2>3, <2>4, OrderDo
<1>12. CASE ~IsTaps(u)
  <2>1. Fits(SendEntry(World(t), u), Done', made, clock) /\ Up(SendEntry(World(t), u).tb)
    BY <1>3, <1>5, <1>7, <1>8, <1>9, <1>10, <1>12, SendEntryFits
  <2>2. Sound(SendEntry(World(t), u)) BY <1>5, <1>8, SendEntrySound
  <2>3. Fits(PassEnd(SendEntry(World(t), u)), Done', made, clock) /\ Up(PassEnd(SendEntry(World(t), u)).tb)
    BY <1>5, <2>1, <2>2, PassEndFits
  <2>4. Do(t, PassEnd(SendEntry(World(t), u))) BY <1>1, <1>12
  <2> QED BY <1>2, <1>5, <2>3, <2>4, OrderDo
<1> QED BY <1>11, <1>12

LEMMA GivesUpOrder ==
    ASSUME OnePage, NEW t \in Tabs, AllInv, GivesUp(t)
    PROVE  OrderInv'
<1>1. PICK u \in tab[t].turns :
         LET w == [World(t) EXCEPT !.tb.anyFailed = TRUE, !.tb.discarded = @ \ NamesOf(u)]
         IN  Do(t, PassEnd(EndTurn(w, u, "kept")))
  BY DEF GivesUp
<1>2. Done' = Done /\ UNCHANGED <<shape, clock, made>> BY DEF GivesUp, Done
<1>3. u \in tab[t].turns BY <1>1
<1>4. tab[t].open BY <1>3 DEF AllInv, OutboxInv, Shut
<1>5. /\ Fits(World(t), Done', made, clock) /\ Sound(World(t)) /\ Up(World(t).tb)
      /\ clock \in Nat /\ refusing \in BOOLEAN /\ t \in shape.tabs /\ World(t).tb = tab[t]
  BY <1>2, <1>4, WorldFits
<1> DEFINE w == [World(t) EXCEPT !.tb.anyFailed = TRUE, !.tb.discarded = @ \ NamesOf(u)]
<1>6. World(t) \in WorldType BY <1>5 DEF Fits
<1>7. /\ w \in WorldType /\ w.stored = World(t).stored /\ w.news = World(t).news /\ w.kick = World(t).kick
      /\ w.tb.queue = World(t).tb.queue /\ w.tb.turns = World(t).tb.turns /\ w.tb.failed = World(t).tb.failed
      /\ w.tb.pass = World(t).tb.pass /\ w.tb.cut = World(t).tb.cut /\ w.tb.requested = World(t).tb.requested
      /\ w.tb.anyFailed /\ w.tb.discarded \subseteq World(t).tb.discarded
      /\ w.tb.open = World(t).tb.open /\ w.tb.adopted = World(t).tb.adopted
      /\ w.tb.settled = World(t).tb.settled /\ w.tb.left = World(t).tb.left
  BY <1>6 DEF WorldType, PageType
<1> HIDE DEF w
<1>8. Fits(w, Done', made, clock)
  BY <1>5, <1>7 DEF Fits, PageFits, Forgotten, OneTurn, Queued
<1>9. Sound(w)
  BY <1>5, <1>7, QuietlySound DEF Quietly
<1>10. u \in w.tb.turns BY <1>3, <1>5, <1>7
<1>11. w.tb.pass BY <1>8, <1>10 DEF Fits, PageFits
<1>12. Awake(w.tb, {u.base}) /\ Severed(w.tb) /\ NoneOf(w.tb, u.base)
  BY <1>5, <1>7, <1>11 DEF Awake, Severed, NoneOf, Up
<1>13. Between(w, u, Done', made, clock) BY <1>8, <1>10, <1>11, <1>12 DEF Between
<1>14. Fits(EndTurn(w, u, "kept"), Done', made, clock) /\ Up(EndTurn(w, u, "kept").tb)
  BY <1>5, <1>12, <1>13, EndTurnFits
<1>15. Sound(EndTurn(w, u, "kept"))
  <2>1. u \in TurnType BY <1>7, <1>10 DEF WorldType, PageType
  <2> QED BY <1>9, <2>1, EndTurnSound
<1>16. Fits(PassEnd(EndTurn(w, u, "kept")), Done', made, clock) /\ Up(PassEnd(EndTurn(w, u, "kept")).tb)
  BY <1>5, <1>14, <1>15, PassEndFits
<1>17. Do(t, PassEnd(EndTurn(w, u, "kept"))) BY <1>1 DEF w
<1> QED BY <1>2, <1>5, <1>16, <1>17, OrderDo

LEMMA DiscardOrder ==
    ASSUME OnePage, NEW t \in Tabs, AllInv, DiscardHeldWrite(t)
    PROVE  OrderInv'
<1>1. PICK e \in tab[t].queue :
         LET left == Dequeue(World(t), {Named(e)})
             out == IF Named(e) \in InFlight(tab[t]) THEN {Named(e)} ELSE {}
             w == RerunFlushSoon(Persist([left EXCEPT !.tb.discarded = @ \cup out]))
         IN  /\ Do(t, IF w.tb.queue = {} THEN w ELSE FlushNow(w))
             /\ gone' = gone \cup (e.carries \ met)
  BY DEF DiscardHeldWrite
<1>2. e \in tab[t].queue BY <1>1
<1>3. Done \subseteq Done' /\ e.carries \subseteq Done'
  <2>1. met' = met BY DEF DiscardHeldWrite
  <2> QED BY <1>1, <2>1 DEF Done
<1>4. tab[t].open /\ UNCHANGED <<shape, clock, made>> BY DEF DiscardHeldWrite
<1>5. /\ Fits(World(t), Done', made, clock) /\ Sound(World(t)) /\ Up(World(t).tb)
      /\ clock \in Nat /\ refusing \in BOOLEAN /\ t \in shape.tabs /\ World(t).tb = tab[t]
  BY <1>3, <1>4, WorldFits
<1> DEFINE out == IF Named(e) \in InFlight(tab[t]) THEN {Named(e)} ELSE {}
           left == Dequeue(World(t), {Named(e)})
           x == [left EXCEPT !.tb.discarded = @ \cup out]
           w == RerunFlushSoon(Persist(x))
<1>6. Do(t, IF w.tb.queue = {} THEN w ELSE FlushNow(w)) BY <1>1
<1>7. Tidy(World(t).tb.queue, clock) BY <1>5 DEF Fits, PageFits
<1>8. \A f \in World(t).tb.queue : Named(f) \in {Named(e)} => f.carries \subseteq Done'
  <2>1. ASSUME NEW f \in World(t).tb.queue, Named(f) \in {Named(e)} PROVE f.carries \subseteq Done'
    <3>1. f = e BY <1>2, <1>5, <1>7, <2>1, NamedOnce
    <3> QED BY <1>3, <3>1
  <2> QED BY <2>1
<1>9. Fits(left, Done', made, clock) /\ Dequeues(World(t), left, {Named(e)})
  BY <1>5, <1>8, DequeueFits
<1>10. Whole(left) /\ Sealing(left) BY <1>5, DequeueSealing
<1>11. out \subseteq {Named(e)} OBVIOUS
<1>12. e \in EntryType /\ e.at <= clock BY <1>2, <1>5, <1>7 DEF Tidy
<1>13. Named(e) \in Names BY <1>12, NamedType
<1> HIDE DEF out, left
<1>14. left \in WorldType BY <1>9 DEF Fits
<1>15. /\ x \in WorldType /\ x.stored = left.stored /\ x.kick = left.kick
       /\ x.tb.queue = left.tb.queue /\ x.tb.turns = left.tb.turns /\ x.tb.failed = left.tb.failed
       /\ x.tb.pass = left.tb.pass /\ x.tb.cut = left.tb.cut /\ x.tb.open = left.tb.open
       /\ x.tb.settled = left.tb.settled /\ x.tb.left = left.tb.left
       /\ x.tb.discarded = left.tb.discarded \cup out
  BY <1>11, <1>13, <1>14 DEF WorldType, PageType
<1> HIDE DEF x
<1>16. Forgotten(x.tb, clock)
  <2>1. ASSUME NEW p \in x.tb.discarded PROVE p[2] <= clock /\ ~Queued(x.tb, p)
    <3>1. CASE p \in left.tb.discarded
      BY <1>9, <1>15, <3>1 DEF Fits, PageFits, Forgotten, Queued
    <3>2. CASE p = Named(e)
      <4>1. p[2] = e.at BY <3>2 DEF Named
      <4>2. \A f \in x.tb.queue : Named(f) # p BY <1>9, <1>15, <3>2 DEF Dequeues
      <4> QED BY <1>12, <4>1, <4>2 DEF Queued
    <3> QED BY <1>11, <1>15, <2>1, <3>1, <3>2
  <2> QED BY <2>1 DEF Forgotten
<1>17. Fits(x, Done', made, clock)
  BY <1>9, <1>15, <1>16 DEF Fits, PageFits, OneTurn
<1>18. Whole(x) /\ Sealing(x)
  BY <1>10, <1>15 DEF Whole, Sealing, Covers
<1>19. Fits(Persist(x), Done', made, clock) BY <1>5, <1>17, <1>18, PersistFits
<1>20. Sound(Persist(x)) BY <1>5, <1>18, PersistSound
<1>21. Fits(w, Done', made, clock) BY <1>5, <1>19, <1>20, RerunFits
<1>22. Sound(w) BY <1>5, <1>20, RerunSound
<1> HIDE DEF w
<1>23. CASE w.tb.queue = {}
  <2>1. Up(w.tb) BY <1>23 DEF Up, Awake, Severed
  <2>2. Do(t, w) BY <1>6, <1>23
  <2> QED BY <1>4, <1>5, <1>21, <2>1, <2>2, OrderDo
<1>24. CASE w.tb.queue # {}
  <2>1. Fits(FlushNow(w), Done', made, clock) /\ Up(FlushNow(w).tb) BY <1>5, <1>21, <1>22, FlushNowFits
  <2>2. Do(t, FlushNow(w)) BY <1>6, <1>24
  <2> QED BY <1>4, <1>5, <2>1, <2>2, OrderDo
<1> QED BY <1>23, <1>24

\* A page whose entries changed their marks alone.
LEMMA RewornWorld ==
    ASSUME NEW D, NEW M, NEW n \in Nat, NEW w, Fits(w, D, M, n), Sound(w), NEW v, v \in WorldType,
           Reworn(w.tb.queue, v.tb.queue), v.tb.turns = w.tb.turns, v.tb.failed = w.tb.failed,
           v.tb.pass = w.tb.pass, ~v.tb.pass => ~v.tb.cut, v.tb.discarded = w.tb.discarded,
           v.tb.open = w.tb.open, v.tb.settled = w.tb.settled, v.tb.left = w.tb.left, v.stored = w.stored
    PROVE  Fits(v, D, M, n) /\ Sound(v)
<1>1. Sound(v) BY RemarkSound DEF Reworn
<1>2. PageFits(w.tb, D, M, n) /\ CopyFits(v.stored, D, M, n) BY DEF Fits
<1>3. Tidy(w.tb.queue, n) /\ InLine(w.tb.queue, D, M) BY <1>2 DEF PageFits
<1>4. /\ Tidy(v.tb.queue, n) /\ InLine(v.tb.queue, D, M)
      /\ \A u : TurnFits(u, w.tb.queue, D, M, n) => TurnFits(u, v.tb.queue, D, M, n)
  <2> DEFINE q == w.tb.queue
             r == v.tb.queue
  <2>1. n \in Nat /\ Tidy(q, n) /\ InLine(q, D, M) /\ Reworn(q, r) BY <1>3
  <2> HIDE DEF q, r
  <2>2. /\ Tidy(r, n) /\ InLine(r, D, M)
        /\ \A u : TurnFits(u, q, D, M, n) => TurnFits(u, r, D, M, n)
    BY <2>1, RewornFits
  <2> QED BY <2>2 DEF q, r
<1>5. \A p : Queued(v.tb, p) => Queued(w.tb, p)
  <2>1. w.tb.queue \in SUBSET EntryType BY <1>3 DEF Tidy
  <2> DEFINE q == w.tb.queue
             r == v.tb.queue
  <2>2. q \in SUBSET EntryType /\ SameCores(q, r) BY <2>1 DEF Reworn
  <2> HIDE DEF q, r
  <2>3. {Named(e) : e \in q} = {Named(e) : e \in r} BY <2>2, SameCarried
  <2>4. {Named(e) : e \in w.tb.queue} = {Named(e) : e \in v.tb.queue} BY <2>3 DEF q, r
  <2> QED BY <2>4 DEF Queued
<1>6. PageFits(v.tb, D, M, n)
  BY <1>2, <1>4, <1>5 DEF PageFits, Forgotten, OneTurn
<1> QED BY <1>1, <1>2, <1>6 DEF Fits

LEMMA ResumeOrder ==
    ASSUME OnePage, NEW t \in Tabs, AllInv, ResumeAfterAuth(t)
    PROVE  OrderInv'
<1> DEFINE stale == {e.pw : e \in {f \in tab[t].queue : f.authBlocked /\ f.pw # 0}}
           resumed == \E e \in tab[t].queue : e.authBlocked
           h == [e \in tab[t].queue |-> IF e.authBlocked \/ e.pw \in stale
                 THEN [e EXCEPT !.authBlocked = FALSE, !.pw = pw, !.attempts = 0] ELSE e]
           q == {IF e.authBlocked \/ e.pw \in stale
                 THEN [e EXCEPT !.authBlocked = FALSE, !.pw = pw, !.attempts = 0] ELSE e : e \in tab[t].queue}
           w == [World(t) EXCEPT !.tb.queue = q, !.tb.pw = pw]
<1>1. Do(t, IF resumed THEN FlushNow(Persist(w)) ELSE w) BY DEF ResumeAfterAuth
<1>2. /\ Done' = Done /\ tab[t].open /\ UNCHANGED <<shape, clock, made>>
  BY DEF ResumeAfterAuth, Done
<1>3. /\ Fits(World(t), Done', made, clock) /\ Sound(World(t)) /\ Up(World(t).tb)
      /\ clock \in Nat /\ refusing \in BOOLEAN /\ t \in shape.tabs /\ World(t).tb = tab[t]
  BY <1>2, WorldFits
<1>4. tab[t].queue \in SUBSET EntryType /\ Distinct(tab[t].queue)
  BY <1>3 DEF Fits, PageFits, Tidy
<1>5. pw \in Nat BY DEF AllInv, OutboxInv, Typed
<1>6. h \in [tab[t].queue -> EntryType]
  <2>1. ASSUME NEW e \in tab[t].queue PROVE h[e] \in EntryType
    BY <1>4, <1>5 DEF EntryType
  <2> QED BY <2>1
<1>7. \A e \in tab[t].queue : Core(h[e]) = Core(e)
  <2>1. ASSUME NEW e \in tab[t].queue PROVE Core(h[e]) = Core(e)
    <3>1. e \in EntryType BY <1>4
    <3> DEFINE f == [e EXCEPT !.authBlocked = FALSE, !.pw = pw, !.attempts = 0]
    <3>2. Core(f) = Core(e) BY <3>1 DEF EntryType, Core
    <3>3. h[e] = f \/ h[e] = e OBVIOUS
    <3> HIDE DEF f, h
    <3> QED BY <3>2, <3>3
  <2> QED BY <2>1
<1>8. q = {h[e] : e \in tab[t].queue} OBVIOUS
<1>9. Reworn(tab[t].queue, {h[e] : e \in tab[t].queue})
  <2> HIDE DEF h
  <2> QED BY <1>4, <1>6, <1>7, RewornImage, SMTT(30)
<1>10. Reworn(tab[t].queue, q) BY <1>8, <1>9
<1>11. q \subseteq EntryType BY <1>10 DEF Reworn, SameCores
<1>12. ~resumed => q = tab[t].queue OBVIOUS
<1> HIDE DEF q, h
<1>13. World(t) \in WorldType BY <1>3 DEF Fits
<1>14. /\ w \in WorldType /\ w.stored = World(t).stored /\ w.kick = World(t).kick
       /\ w.tb.queue = q /\ w.tb.turns = World(t).tb.turns /\ w.tb.failed = World(t).tb.failed
       /\ w.tb.pass = World(t).tb.pass /\ w.tb.cut = World(t).tb.cut /\ w.tb.open = World(t).tb.open
       /\ w.tb.requested = World(t).tb.requested /\ w.tb.anyFailed = World(t).tb.anyFailed
       /\ w.tb.timer = World(t).tb.timer
       /\ w.tb.settled = World(t).tb.settled /\ w.tb.left = World(t).tb.left
       /\ w.tb.discarded = World(t).tb.discarded
  BY <1>5, <1>11, <1>13 DEF WorldType, PageType
<1> HIDE DEF w
<1>15. ~World(t).tb.pass => ~World(t).tb.cut BY <1>3 DEF Fits, PageFits
<1>16. Fits(w, Done', made, clock) /\ Sound(w)
  BY <1>3, <1>10, <1>14, <1>15, RewornWorld
<1>17. CASE resumed
  <2>1. Whole(w) /\ Sealing(w) BY <1>16, SoundSealing
  <2>2. Fits(Persist(w), Done', made, clock) BY <1>3, <1>16, <2>1, PersistFits
  <2>3. Sound(Persist(w)) BY <1>3, <2>1, PersistSound
  <2>4. Fits(FlushNow(Persist(w)), Done', made, clock) /\ Up(FlushNow(Persist(w)).tb)
    BY <1>3, <2>2, <2>3, FlushNowFits
  <2>5. Do(t, FlushNow(Persist(w))) BY <1>1, <1>17
  <2> QED BY <1>2, <1>3, <2>4, <2>5, OrderDo
<1>18. CASE ~resumed
  <2>1. SamePass(World(t), w) BY <1>3, <1>12, <1>14, <1>18 DEF SamePass
  <2>2. PageFits(World(t).tb, Done', made, clock) BY <1>3 DEF Fits
  <2>3. Up(w.tb) BY <1>3, <2>1, <2>2, SamePassFits
  <2>4. Do(t, w) BY <1>1, <1>18
  <2> QED BY <1>2, <1>3, <1>16, <2>3, <2>4, OrderDo
<1> QED BY <1>17, <1>18

LEMMA ParkOrder ==
    ASSUME OnePage, NEW t \in Tabs, AllInv, ParkQueueForReauth(t)
    PROVE  OrderInv'
<1> DEFINE q == {Parked(e) : e \in tab[t].queue}
           w == [World(t) EXCEPT !.tb.queue = q, !.tb.pw = 0, !.tb.timer = FALSE, !.tb.cut = tab[t].pass]
           h == {Parked(e) : e \in stored.has}
           scrubbed == IF refusing THEN w ELSE Store(w, [stored EXCEPT !.has = {Parked(e) : e \in @}])
<1>1. Do(t, IF q = {} THEN scrubbed ELSE Persist(scrubbed)) BY DEF ParkQueueForReauth
<1>2. /\ Done' = Done /\ tab[t].open /\ UNCHANGED <<shape, clock, made>>
  BY DEF ParkQueueForReauth, Done
<1>3. /\ Fits(World(t), Done', made, clock) /\ Sound(World(t))
      /\ clock \in Nat /\ refusing \in BOOLEAN /\ t \in shape.tabs /\ World(t).tb = tab[t] /\ World(t).stored = stored
  BY <1>2, WorldFits
<1>4. /\ tab[t].queue \in SUBSET EntryType /\ Distinct(tab[t].queue)
      /\ Tidy(stored.has, clock) /\ InLine(stored.has, Done', made)
  BY <1>3 DEF Fits, PageFits, CopyFits, Tidy
<1>5. ASSUME NEW r \in SUBSET EntryType, Distinct(r) PROVE Reworn(r, {Parked(e) : e \in r})
  <2> DEFINE p == [e \in r |-> Parked(e)]
  <2>1. p \in [r -> EntryType]
    <3>1. ASSUME NEW e \in r PROVE Parked(e) \in EntryType BY DEF Parked, EntryType
    <3> QED BY <3>1
  <2>2. \A e \in r : Core(p[e]) = Core(e)
    <3>1. ASSUME NEW e \in r PROVE Core(Parked(e)) = Core(e)
      <4>1. e \in EntryType OBVIOUS
      <4> QED BY <4>1 DEF Parked, EntryType, Core
    <3> QED BY <3>1
  <2>3. {Parked(e) : e \in r} = {p[e] : e \in r} OBVIOUS
  <2> HIDE DEF p
  <2>4. Reworn(r, {p[e] : e \in r}) BY <1>5, <2>1, <2>2, RewornImage
  <2> QED BY <2>3, <2>4
<1>6. Reworn(tab[t].queue, q) BY <1>4, <1>5
<1>7. Reworn(stored.has, h) BY <1>4, <1>5 DEF Tidy
<1>8. \A e \in q : e.authBlocked
  <2>1. ASSUME NEW e \in tab[t].queue PROVE Parked(e).authBlocked
    <3>1. e \in EntryType BY <1>4
    <3> QED BY <3>1 DEF Parked, EntryType
  <2> QED BY <2>1
<1>9. q \subseteq EntryType BY <1>6 DEF Reworn, SameCores
<1> HIDE DEF q
<1>10. World(t) \in WorldType BY <1>3 DEF Fits
<1>11. /\ w \in WorldType /\ w.stored = World(t).stored /\ w.kick = World(t).kick
       /\ w.tb.queue = q /\ w.tb.turns = World(t).tb.turns /\ w.tb.failed = World(t).tb.failed
       /\ w.tb.pass = World(t).tb.pass /\ w.tb.cut = World(t).tb.pass /\ w.tb.open = World(t).tb.open
       /\ w.tb.settled = World(t).tb.settled /\ w.tb.left = World(t).tb.left
       /\ w.tb.discarded = World(t).tb.discarded
  BY <1>3, <1>9, <1>10 DEF WorldType, PageType
<1> HIDE DEF w
<1>12. Fits(w, Done', made, clock) /\ Sound(w)
  BY <1>3, <1>6, <1>11, RewornWorld
<1>13. Up(w.tb)
  BY <1>8, <1>11 DEF Up, Awake, Severed, Sendable
<1>14. Fits(scrubbed, Done', made, clock) /\ Sound(scrubbed) /\ SamePass(w, scrubbed)
  <2>1. CASE refusing
    <3>1. scrubbed = w BY <2>1
    <3> QED BY <1>12, <3>1 DEF SamePass
  <2>2. CASE ~refusing
    <3>1. scrubbed = Store(w, [w.stored EXCEPT !.has = h]) BY <1>3, <1>11, <2>2
    <3>2. SameCores(w.stored.has, h) BY <1>3, <1>7, <1>11 DEF Reworn
    <3>3. Sound(Store(w, [w.stored EXCEPT !.has = h])) BY <1>12, <3>2, ScrubSound
    <3> HIDE DEF h
    <3>4. w.stored \in CopyType BY <1>11 DEF WorldType
    <3>5. /\ Store(w, [w.stored EXCEPT !.has = h]).tb = w.tb /\ Store(w, [w.stored EXCEPT !.has = h]).kick = w.kick
          /\ Store(w, [w.stored EXCEPT !.has = h]).stored = [w.stored EXCEPT !.has = h]
      BY <1>11 DEF Store, WorldType
    <3>6. [w.stored EXCEPT !.has = h].has = h BY <3>4 DEF CopyType
    <3>7. Tidy(h, clock) /\ InLine(h, Done', made) BY <1>3, <1>4, <1>7, RewornFits, ZenonT(30)
    <3>8. CopyFits([w.stored EXCEPT !.has = h], Done', made, clock) BY <3>6, <3>7 DEF CopyFits
    <3>9. Store(w, [w.stored EXCEPT !.has = h]) \in WorldType BY <3>3, SoundSealing
    <3>10. Fits(Store(w, [w.stored EXCEPT !.has = h]), Done', made, clock)
      BY <1>12, <3>5, <3>8, <3>9 DEF Fits
    <3> QED BY <3>1, <3>3, <3>5, <3>10 DEF SamePass
  <2> QED BY <1>3, <2>1, <2>2
<1> HIDE DEF scrubbed
<1>15. Up(scrubbed.tb)
  <2>1. PageFits(w.tb, Done', made, clock) BY <1>12 DEF Fits
  <2> QED BY <1>13, <1>14, <2>1, SamePassFits
<1>16. CASE q = {}
  <2>1. Do(t, scrubbed) BY <1>1, <1>16
  <2> QED BY <1>2, <1>3, <1>14, <1>15, <2>1, OrderDo
<1>17. CASE q # {}
  <2>1. Whole(scrubbed) /\ Sealing(scrubbed) BY <1>14, SoundSealing
  <2>2. Fits(Persist(scrubbed), Done', made, clock) /\ SamePass(scrubbed, Persist(scrubbed))
    BY <1>3, <1>14, <2>1, PersistFits
  <2>3. PageFits(scrubbed.tb, Done', made, clock) BY <1>14 DEF Fits
  <2>4. Up(Persist(scrubbed).tb) BY <1>15, <2>2, <2>3, SamePassFits
  <2>5. Do(t, Persist(scrubbed)) BY <1>1, <1>17
  <2> QED BY <1>2, <1>3, <2>2, <2>4, <2>5, OrderDo
<1> QED BY <1>16, <1>17

LEMMA OpenOrder ==
    ASSUME OnePage, NEW t \in Tabs, AllInv, Open(t)
    PROVE  OrderInv'
<1> DEFINE w == [World(t) EXCEPT !.tb = Fresh(stored.has, tab[t].pw)]
<1>1. Do(t, IF stored.has = {} THEN w ELSE FlushQueue(w)) BY DEF Open
<1>2. /\ Done' = Done /\ t \in shape.tabs /\ UNCHANGED <<shape, clock, made>>
  BY DEF Open, Done
<1>3. /\ Typed /\ CopyFits(stored, Done', made, clock) /\ clock \in Nat /\ refusing \in BOOLEAN
      /\ ~stored.there => stored.has = {}
  BY <1>2, WorldIs DEF AllInv, OutboxInv, Typed, OrderInv, Pages, Good, PageGood
<1>4. tab[t].pw \in Nat /\ stored \in CopyType BY <1>3 DEF Typed, PageType
<1>5. World(t) \in WorldType /\ World(t).stored = stored
  <2>1. Good(World(t), t, Cores, Done) BY DEF AllInv, OutboxInv, Pages
  <2> QED BY <2>1, WorldIs DEF Good, PageGood
<1>6. stored.has \subseteq EntryType BY <1>4 DEF CopyType
<1>7. w \in WorldType /\ w.tb = Fresh(stored.has, tab[t].pw) /\ w.stored = stored
  BY <1>4, <1>5, <1>6, ZenonT(30) DEF WorldType, PageType, Fresh
<1> HIDE DEF w
<1>8. /\ w.tb.open /\ w.tb.queue = stored.has /\ w.tb.turns = {} /\ ~w.tb.cut /\ ~w.tb.pass
      /\ w.tb.discarded = {}
  BY <1>7 DEF Fresh
<1>9. Fits(w, Done', made, clock)
  <2>1. Forgotten(w.tb, clock) BY <1>8 DEF Forgotten
  <2>2. OneTurn(w.tb) /\ \A u \in w.tb.turns : TurnFits(u, w.tb.queue, Done', made, clock) BY <1>8 DEF OneTurn
  <2>3. PageFits(w.tb, Done', made, clock) BY <1>3, <1>8, <2>1, <2>2 DEF PageFits, CopyFits
  <2> QED BY <1>3, <1>7, <2>3 DEF Fits
<1>10. Sound(w)
  <2>1. \A e \in stored.has : Covers(w.tb, e) BY <1>6, <1>8 DEF Covers, EntryType
  <2> QED BY <1>3, <1>7, <1>8, <2>1 DEF Sound, Whole, Sealed
<1>11. CASE stored.has = {}
  <2>1. Up(w.tb) BY <1>8, <1>11 DEF Up
  <2>2. Do(t, w) BY <1>1, <1>11
  <2> QED BY <1>2, <1>9, <2>1, <2>2, OrderDo
<1>12. CASE stored.has # {}
  <2>1. Fits(FlushQueue(w), Done', made, clock) /\ Up(FlushQueue(w).tb)
    BY <1>3, <1>9, <1>10, FlushQueueFits
  <2>2. Do(t, FlushQueue(w)) BY <1>1, <1>12
  <2> QED BY <1>2, <2>1, <2>2, OrderDo
<1> QED BY <1>11, <1>12

\* The server answers: the request is out for the same entries.
LEMMA ServerOrder ==
    ASSUME OnePage, NEW t \in Tabs, AllInv, ServerAnswers(t)
    PROVE  OrderInv'
<1>1. PICK u \in tab[t].turns, answer \in {"ok", "no", "err", "auth"} :
        /\ u.phase = "sent"
        /\ tab' = [tab EXCEPT ![t].turns = (@ \ {u}) \cup {[u EXCEPT !.phase = answer]}]
        /\ met' = IF answer = "ok" \/ (answer = "no" /\ ~IsTaps(u)) THEN met \cup CarriedBy(u.sent) ELSE met
  BY DEF ServerAnswers
<1>2. u \in tab[t].turns BY <1>1
<1>3. /\ Done \subseteq Done' /\ UNCHANGED <<shape, clock, made, stored>>
  BY <1>1 DEF ServerAnswers, Done
<1>4. tab[t].open BY <1>2 DEF AllInv, OutboxInv, Shut
<1>5. /\ Fits(World(t), Done', made, clock) /\ Up(World(t).tb)
      /\ t \in shape.tabs /\ World(t).tb = tab[t] /\ World(t).stored = stored
  BY <1>3, <1>4, WorldFits
<1> DEFINE x == [u EXCEPT !.phase = answer]
           turns == (tab[t].turns \ {u}) \cup {x}
           z == [tab[t] EXCEPT !.turns = turns]
<1>6. tab' = [tab EXCEPT ![t] = z] BY <1>1
<1>7. tab[t] \in PageType BY DEF AllInv, OutboxInv, Typed
<1>8. u \in TurnType BY <1>2, <1>7 DEF PageType
<1>9. x.base = u.base /\ x.rest = u.rest /\ x.sent = u.sent BY <1>8 DEF TurnType
<1> HIDE DEF x
<1>10. /\ z.turns = turns /\ z.queue = tab[t].queue /\ z.failed = tab[t].failed /\ z.pass = tab[t].pass
       /\ z.cut = tab[t].cut /\ z.requested = tab[t].requested /\ z.anyFailed = tab[t].anyFailed
       /\ z.timer = tab[t].timer /\ z.discarded = tab[t].discarded
  BY <1>7 DEF PageType
<1> HIDE DEF z
<1>11. PageFits(tab[t], Done', made, clock) /\ Up(tab[t]) BY <1>5 DEF Fits
<1>12. NamesOf(x) = NamesOf(u) BY <1>9 DEF NamesOf
<1>13. PageFits(z, Done', made, clock)
  <2>1. OneTurn(z) BY <1>2, <1>9, <1>10, <1>11 DEF PageFits, OneTurn
  <2>2. TurnFits(u, tab[t].queue, Done', made, clock) BY <1>2, <1>11 DEF PageFits
  <2>3. TurnFits(x, tab[t].queue, Done', made, clock) BY <1>9, <1>12, <2>2 DEF TurnFits
  <2>4. \A y \in z.turns : TurnFits(y, z.queue, Done', made, clock) BY <1>10, <1>11, <2>3 DEF PageFits
  <2>5. z.pass BY <1>2, <1>10, <1>11 DEF PageFits
  <2> QED BY <1>10, <1>11, <2>1, <2>4, <2>5 DEF PageFits, Forgotten, Queued
<1>14. \A f : Watched(tab[t], f) => Watched(z, f)
  BY <1>10, <1>12 DEF Watched
<1>15. Up(z)
  <2>1. Awake(tab[t], {}) => Awake(z, {}) BY <1>10, <1>14 DEF Awake
  <2>2. Severed(tab[t]) => Severed(z) BY <1>10 DEF Severed
  <2> QED BY <1>10, <1>11, <2>1, <2>2 DEF Up
<1>16. CopyFits(stored', Done', made', clock') BY <1>3, <1>5 DEF Fits
<1>17. made' \in Seq(MadeType) /\ Len(made') = clock' /\ made' = made /\ clock' = clock BY <1>3 DEF AllInv, OrderInv
<1> QED BY <1>3, <1>5, <1>6, <1>13, <1>15, <1>16, <1>17, OrderMoves

LEMMA ClearOrder ==
    ASSUME OnePage, NEW t \in Tabs, AllInv, ClearQueue(t)
    PROVE  OrderInv'
<1> DEFINE v == [World(t) EXCEPT !.tb.queue = {}, !.tb.settled = {}, !.tb.here = {}, !.tb.left = FALSE,
                                 !.tb.timer = FALSE, !.tb.cut = tab[t].pass, !.tb.pw = 0]
           s == [there |-> FALSE, has |-> {}]
<1>1. Do(t, Store(v, s)) /\ tab[t].open BY DEF ClearQueue
<1>2. /\ Done \subseteq Done' /\ UNCHANGED <<shape, clock, made>>
  BY DEF ClearQueue, Done
<1>3. /\ Fits(World(t), Done', made, clock)
      /\ t \in shape.tabs /\ World(t).tb = tab[t]
  BY <1>1, <1>2, WorldFits
<1>4. World(t) \in WorldType /\ PageFits(tab[t], Done', made, clock) BY <1>3 DEF Fits
<1>5. /\ v.tb.queue = {} /\ v.tb.turns = tab[t].turns /\ v.tb.failed = tab[t].failed /\ v.tb.pass = tab[t].pass
      /\ v.tb.cut = tab[t].pass /\ v.tb.discarded = tab[t].discarded
  BY <1>3, <1>4, ZenonT(30) DEF WorldType, PageType
<1>6. v \in [tb : {v.tb}, stored : {v.stored}, news : {v.news}, kick : {v.kick}]
  BY <1>4 DEF WorldType
<1> HIDE DEF v
<1>7. Store(v, s).tb = v.tb /\ Store(v, s).stored = s
  BY <1>6 DEF Store
<1>8. tab' = [tab EXCEPT ![t] = v.tb] /\ stored' = s
  BY <1>1, <1>7 DEF Do
<1>9. PageFits(v.tb, Done', made, clock)
  <2>1. Tidy({}, clock) /\ InLine({}, Done', made) BY DEF Tidy, InLine, Distinct, Earlier
  <2>2. Forgotten(v.tb, clock) BY <1>4, <1>5 DEF PageFits, Forgotten, Queued
  <2>3. \A u \in v.tb.turns : TurnFits(u, v.tb.queue, Done', made, clock)
    BY <1>4, <1>5 DEF PageFits, TurnFits
  <2>4. OneTurn(v.tb) BY <1>4, <1>5 DEF PageFits, OneTurn
  <2> QED BY <1>4, <1>5, <2>1, <2>2, <2>3, <2>4 DEF PageFits
<1>10. Up(v.tb) BY <1>5 DEF Up, Awake, Severed
<1>11. CopyFits(stored', Done', made', clock')
  BY <1>8 DEF CopyFits, Tidy, InLine, Distinct, Earlier
<1>12. made' \in Seq(MadeType) /\ Len(made') = clock' /\ made' = made /\ clock' = clock BY <1>2 DEF AllInv, OrderInv
<1> QED BY <1>2, <1>3, <1>8, <1>9, <1>10, <1>11, <1>12, OrderMoves

LEMMA CloseOrder ==
    ASSUME OnePage, NEW t \in Tabs, AllInv, Close(t)
    PROVE  OrderInv'
<1> DEFINE z == [Fresh({}, tab[t].pw) EXCEPT !.open = FALSE]
<1>1. /\ tab' = [tab EXCEPT ![t] = z] /\ UNCHANGED <<shape, clock, made, stored>> /\ tab[t].open
  BY DEF Close
<1>2. Done \subseteq Done' BY DEF Close, Done
<1>3. z.open = FALSE BY DEF Fresh
<1> HIDE DEF z
<1>4. t \in shape.tabs BY <1>1 DEF AllInv, OutboxInv, Shut
<1>5. CopyFits(stored', Done', made', clock')
  BY <1>1, <1>2, FitsOn DEF AllInv, OrderInv
<1>6. made' \in Seq(MadeType) /\ Len(made') = clock' BY <1>1 DEF AllInv, OrderInv
<1> QED BY <1>1, <1>3, <1>4, <1>5, <1>6, OrderMoves

\* A step that leaves the pages and storage alone.
LEMMA OrderAside ==
    ASSUME OrderInv, UNCHANGED <<clock, made, tab, stored, met, gone>>
    PROVE  OrderInv'
<1>1. Done' = Done BY DEF Done
<1> QED BY <1>1 DEF OrderInv

---------------------------------------------------------------------------
(* A write that is placed in the queue keeps its order.                    *)

LEMMA FollowingTidy ==
    ASSUME NEW n \in Nat, NEW q, Tidy(q, n), NEW base, NEW A, Elsewhere(q, base, A),
           NEW d \in EntryType, Following(q, d, base, n, A)
    PROVE  Tidy(QueueSet(q, d), n + 1)
<1> DEFINE r == QueueSet(q, d)
<1>1. /\ q \subseteq EntryType /\ Distinct(q) /\ Earlier(q)
      /\ \A e \in q : e.at <= n /\ e.key <= n /\ \A k \in e.after : k <= n
  BY DEF Tidy
<1>2. \A e \in EntryType : e.at \in Nat /\ e.key \in Nat /\ e.after \subseteq Nat
  BY DEF EntryType
<1>3. d.at = n + 1 /\ d.base = base BY DEF Following
<1>4. \A e \in r : e = d \/ (e \in q /\ e.key # d.key) BY DEF QueueSet
<1>5. r \subseteq EntryType BY <1>1, <1>4
<1>6. \A k \in A : k <= n BY <1>1 DEF Elsewhere
<1>7. d.key <= n + 1 /\ \A k \in d.after : k <= n
  <2>1. CASE d.key = n + 1 /\ d.after = A BY <1>6, <2>1
  <2>2. CASE \E p \in q : d.key = p.key /\ d.after = A \cup p.after
    BY <1>1, <1>2, <1>6, <2>2
  <2> QED BY <2>1, <2>2 DEF Following
<1>8. \A e \in q : d.key \notin e.after
  <2>1. CASE d.key = n + 1
    <3>1. \A e \in q : \A k \in e.after : k <= n BY <1>1
    <3> QED BY <2>1, <3>1
  <2>2. CASE \E p \in q : d.key = p.key /\ ~IsFollowed(q, p.key)
    BY <2>2 DEF IsFollowed
  <2> QED BY <2>1, <2>2 DEF Following
<1>9. d.key \notin d.after
  <2>1. CASE d.key = n + 1 BY <1>7, <2>1
  <2>2. CASE \E p \in q : d.key = p.key /\ d.after = A \cup p.after /\ p.base = base /\ ~IsFollowed(q, p.key)
    <3>1. PICK p \in q : d.key = p.key /\ d.after = A \cup p.after /\ p.base = base /\ ~IsFollowed(q, p.key)
      BY <2>2
    <3>2. p.key \notin p.after BY <3>1 DEF IsFollowed
    <3>3. p.key \notin A BY <1>1, <3>1 DEF Elsewhere, Distinct
    <3> QED BY <3>1, <3>2, <3>3
  <2> QED BY <2>1, <2>2 DEF Following
<1> HIDE DEF r
<1>10. Distinct(r)
  <2> SUFFICES ASSUME NEW e \in r, NEW f \in r, e.key = f.key \/ e.at = f.at PROVE e = f
    BY DEF Distinct
  <2>1. \A g \in q : g.at # d.at BY <1>1, <1>2, <1>3
  <2> QED BY <1>1, <1>4, <2>1 DEF Distinct
<1>11. Earlier(r)
  <2> SUFFICES ASSUME NEW e \in r, NEW f \in r, f.key \in e.after PROVE f.at < e.at
    BY DEF Earlier
  <2>1. f # d BY <1>4, <1>8, <1>9
  <2>2. f \in q BY <1>4, <2>1
  <2>3. CASE e = d BY <1>1, <1>2, <1>3, <2>2, <2>3
  <2>4. CASE e \in q BY <1>1, <2>2, <2>4 DEF Earlier
  <2> QED BY <1>4, <2>3, <2>4
<1>12. \A e \in r : e.at <= n + 1 /\ e.key <= n + 1 /\ \A k \in e.after : k <= n + 1
  <2>1. \A k \in Nat : k <= n => k <= n + 1 OBVIOUS
  <2>2. ASSUME NEW e \in q PROVE e.at <= n + 1 /\ e.key <= n + 1 /\ \A k \in e.after : k <= n + 1
    BY <1>1, <1>2, <2>1, <2>2
  <2>3. d.at <= n + 1 /\ d.key <= n + 1 /\ \A k \in d.after : k <= n + 1
    BY <1>2, <1>3, <1>7, <2>1
  <2> QED BY <1>4, <2>2, <2>3
<1> QED BY <1>5, <1>10, <1>11, <1>12 DEF Tidy, r

LEMMA FollowingInLine ==
    ASSUME NEW n \in Nat, NEW q, Tidy(q, n), NEW D, NEW M, InLine(q, D, M), NEW base, NEW A,
           NEW d \in EntryType, Following(q, d, base, n, A),
           \A e \in q : e.carries \subseteq 1 .. n,
           NEW N, \A m \in 1 .. n : N[m] = M[m],
           N[n + 1].after = CarriedBy({e \in q : e.base = base \/ e.key \in A})
    PROVE  InLine(QueueSet(q, d), D, N)
<1> DEFINE r == QueueSet(q, d)
<1>1. /\ q \subseteq EntryType /\ Distinct(q) /\ Earlier(q) /\ \A e \in q : e.at <= n /\ e.key <= n
  BY DEF Tidy
<1>2. \A e \in q : e.at \in Nat /\ e.key \in Nat
  BY <1>1 DEF EntryType
<1>3. d.at = n + 1 /\ d.base = base BY DEF Following
<1>4. /\ \A e \in r : e = d \/ (e \in q /\ e.key # d.key)
      /\ d \in r /\ \A e \in q : e.key # d.key => e \in r
  BY DEF QueueSet
<1>5. A \subseteq d.after BY DEF Following
<1> HIDE DEF r
<1>6. ASSUME NEW e \in q, e.key # d.key, NEW f \in Before(q, e) PROVE f \in Before(r, e)
  <2>1. f \in q /\ (f.key \in e.after \/ (f.base = e.base /\ f.at < e.at)) BY <1>6 DEF Before
  <2>2. f.key # d.key
    <3>1. CASE d.key = n + 1 BY <1>1, <1>2, <2>1, <3>1
    <3>2. CASE \E p \in q : d.key = p.key /\ p.base = base /\ ~IsFollowed(q, p.key) /\ \A g \in q : g.base = base => g.at <= p.at
      <4>1. PICK p \in q : d.key = p.key /\ p.base = base /\ ~IsFollowed(q, p.key) /\ \A g \in q : g.base = base => g.at <= p.at
        BY <3>2
      <4>2. p.key \notin e.after BY <1>6, <4>1 DEF IsFollowed
      <4>3. p.base = e.base => ~(p.at < e.at) BY <1>2, <1>6, <4>1
      <4>4. f # p BY <2>1, <4>2, <4>3
      <4> QED BY <1>1, <2>1, <4>1, <4>4 DEF Distinct
    <3> QED BY <3>1, <3>2 DEF Following
  <2> QED BY <1>4, <2>1, <2>2 DEF Before
<1>7. ASSUME NEW e \in q, e.key # d.key, NEW m \in e.carries, NEW k \in N[m].after
      PROVE  k \in D \cup e.carries \/ \E f \in Before(r, e) : k \in f.carries
  <2>1. N[m] = M[m] BY <1>7
  <2>2. k \in D \cup e.carries \/ \E f \in Before(q, e) : k \in f.carries
    BY <1>7, <2>1 DEF InLine
  <2> QED BY <1>6, <1>7, <2>2
<1>8. ASSUME NEW g \in q, g.key # d.key, g.base = base \/ g.key \in d.after PROVE g \in Before(r, d)
  <2>1. g \in r BY <1>4, <1>8
  <2>2. g.at < d.at BY <1>1, <1>2, <1>3, <1>8
  <2> QED BY <1>3, <1>8, <2>1, <2>2 DEF Before
<1>9. ASSUME NEW k \in N[n + 1].after
      PROVE  k \in D \cup d.carries \/ \E f \in Before(r, d) : k \in f.carries
  <2>1. PICK g \in q : (g.base = base \/ g.key \in A) /\ k \in g.carries
    BY <1>9 DEF CarriedBy
  <2>2. CASE g.key # d.key BY <1>5, <1>8, <2>1, <2>2
  <2>3. CASE g.key = d.key
    <3>1. CASE d.key = n + 1 BY <1>1, <1>2, <2>1, <2>3, <3>1
    <3>2. CASE \E p \in q : d.key = p.key /\ d.carries = {n + 1} \cup p.carries
      BY <1>1, <2>1, <2>3, <3>2 DEF Distinct
    <3> QED BY <3>1, <3>2 DEF Following
  <2> QED BY <2>2, <2>3
<1>10. ASSUME NEW m \in d.carries, NEW k \in N[m].after
       PROVE  k \in D \cup d.carries \/ \E f \in Before(r, d) : k \in f.carries
  <2>1. CASE m = n + 1 BY <1>9, <1>10, <2>1
  <2>2. CASE \E p \in q : /\ d.key = p.key /\ d.carries = {n + 1} \cup p.carries /\ d.after = A \cup p.after
                          /\ p.base = base /\ m \in p.carries
    <3>1. PICK p \in q : /\ d.key = p.key /\ d.carries = {n + 1} \cup p.carries /\ d.after = A \cup p.after
                         /\ p.base = base /\ m \in p.carries
      BY <2>2
    <3>2. N[m] = M[m] BY <3>1
    <3>3. k \in D \cup p.carries \/ \E f \in Before(q, p) : k \in f.carries
      BY <1>10, <3>1, <3>2 DEF InLine
    <3>4. CASE k \in D \cup p.carries BY <3>1, <3>4
    <3>5. CASE \E f \in Before(q, p) : k \in f.carries
      <4>1. PICK f \in Before(q, p) : k \in f.carries BY <3>5
      <4>2. f \in q /\ (f.key \in p.after \/ (f.base = p.base /\ f.at < p.at)) BY <4>1 DEF Before
      <4>3. f.at < p.at BY <1>1, <3>1, <4>2 DEF Earlier
      <4>4. f # p BY <1>2, <3>1, <4>3
      <4>5. f.key # d.key BY <1>1, <3>1, <4>2, <4>4 DEF Distinct
      <4>6. f \in Before(r, d) BY <1>8, <3>1, <4>2, <4>5
      <4> QED BY <4>1, <4>6
    <3> QED BY <3>3, <3>4, <3>5
  <2> QED BY <1>10, <2>1, <2>2 DEF Following
<1>11. ASSUME NEW e \in r, NEW m \in e.carries, NEW k \in N[m].after
       PROVE  k \in D \cup e.carries \/ \E f \in Before(r, e) : k \in f.carries
  BY <1>4, <1>7, <1>10, <1>11
<1> QED BY <1>11 DEF InLine, r

\* What a page, its requests and storage hold are writes made by now.
LEMMA CarriesPast ==
    ASSUME OutboxInv, NEW t \in Tabs
    PROVE  \A e \in tab[t].queue \cup Sent(tab[t]) \cup stored.has : e \in EntryType /\ e.carries \subseteq 1 .. clock
<1>1. Good(World(t), t, Cores, Done) /\ Past(Cores, clock) /\ World(t).tb = tab[t] /\ World(t).stored = stored
  BY WorldIs DEF OutboxInv, Pages, Histories
<1>2. \A e \in tab[t].queue \cup Sent(tab[t]) \cup stored.has : Core(e) \in Cores
  BY <1>1 DEF Good, PageGood
<1>3. tab[t] \in PageType /\ stored \in CopyType BY DEF OutboxInv, Typed
<1>4. \A e \in tab[t].queue \cup Sent(tab[t]) \cup stored.has : e \in EntryType
  BY <1>3 DEF PageType, TurnType, CopyType, Sent
<1> QED BY <1>1, <1>2, <1>4, CoreFields DEF Past

\* What was made by n orders the same entries after more is made.
LEMMA LongerFits ==
    ASSUME NEW n \in Nat, NEW D, NEW M, NEW N, \A m \in 1 .. n : N[m] = M[m]
    PROVE  /\ \A q : Tidy(q, n) => Tidy(q, n + 1)
           /\ \A q : InLine(q, D, M) /\ (\A e \in q : e.carries \subseteq 1 .. n) => InLine(q, D, N)
<1>1. ASSUME NEW q, Tidy(q, n) PROVE Tidy(q, n + 1)
  <2>1. \A k \in Nat : k <= n => k <= n + 1 OBVIOUS
  <2>2. \A e \in q : e.at \in Nat /\ e.key \in Nat /\ e.after \subseteq Nat
    BY <1>1 DEF Tidy, EntryType
  <2>3. \A e \in q : e.at <= n /\ e.key <= n /\ \A k \in e.after : k <= n BY <1>1 DEF Tidy
  <2>4. \A e \in q : e.at <= n + 1 /\ e.key <= n + 1 /\ \A k \in e.after : k <= n + 1
    BY <2>1, <2>2, <2>3
  <2> QED BY <1>1, <2>4 DEF Tidy
<1>2. ASSUME NEW q, InLine(q, D, M), \A e \in q : e.carries \subseteq 1 .. n PROVE InLine(q, D, N)
  <2> SUFFICES ASSUME NEW e \in q, NEW m \in e.carries, NEW k \in N[m].after
               PROVE  k \in D \cup e.carries \/ \E f \in Before(q, e) : k \in f.carries
    BY DEF InLine
  <2>1. N[m] = M[m] BY <1>2
  <2> QED BY <1>2, <2>1 DEF InLine
<1> QED BY <1>1, <1>2

\* A turn is out for the same entries when a write is placed.
LEMMA FollowingTurn ==
    ASSUME NEW n \in Nat, NEW q, Tidy(q, n), NEW D, NEW M, NEW base, NEW A,
           NEW d \in EntryType, Following(q, d, base, n, A), NEW N, \A m \in 1 .. n : N[m] = M[m],
           NEW u \in TurnType, TurnFits(u, q, D, M, n), \A e \in u.sent : e.carries \subseteq 1 .. n
    PROVE  TurnFits(u, QueueSet(q, d), D, N, n + 1)
<1> DEFINE r == QueueSet(q, d)
<1>1. \A e \in r : e = d \/ e \in q BY DEF QueueSet
<1>2. q \subseteq EntryType /\ \A e \in q : e.at <= n /\ e.at \in Nat BY DEF Tidy, EntryType
<1>3. d.at = n + 1 BY DEF Following
<1>4. \A p \in NamesOf(u) \cup u.rest : p[2] <= n /\ p[2] \in Nat
  <2>1. \A p \in NamesOf(u) \cup u.rest : p[2] <= n BY DEF TurnFits
  <2>2. NamesOf(u) \subseteq Names BY NamedType DEF NamesOf, TurnType
  <2>3. u.rest \subseteq Names BY DEF TurnType
  <2> QED BY <2>1, <2>2, <2>3 DEF Names
<1>5. Named(d)[2] = n + 1 BY <1>3 DEF Named
<1>6. Named(d) \notin NamesOf(u) \cup u.rest
  <2>1. ~(n + 1 <= n) OBVIOUS
  <2> QED BY <1>4, <1>5, <2>1
<1>7. \A p \in NamesOf(u) \cup u.rest : p[2] <= n + 1 BY <1>4
<1> HIDE DEF r
<1>8. \A e \in r : Named(e) \in NamesOf(u) \cup u.rest => e.base = u.base
  BY <1>1, <1>6 DEF TurnFits
<1>9. ASSUME NEW e \in r, Named(e) \in u.rest, NEW f \in r, f.base = u.base, f.at < e.at
      PROVE  Named(f) \in NamesOf(u) \cup u.rest
  <2>1. e \in q BY <1>1, <1>6, <1>9
  <2>2. f # d BY <1>2, <1>3, <1>9, <2>1
  <2>3. f \in q BY <1>1, <2>2
  <2> QED BY <1>9, <2>1, <2>3 DEF TurnFits
<1>10. ASSUME NEW m \in CarriedBy(u.sent) PROVE N[m].after \subseteq D \cup CarriedBy(u.sent)
  <2>1. m \in 1 .. n BY <1>10 DEF CarriedBy
  <2>2. N[m] = M[m] BY <2>1
  <2> QED BY <1>10, <2>2 DEF TurnFits
<1> QED BY <1>7, <1>8, <1>9, <1>10 DEF TurnFits, r

LEMMA WriteOrder ==
    ASSUME OnePage, NEW t \in Tabs, NEW base \in Bases, NEW kind \in shape.kinds[t], AllInv, Write(t, base, kind)
    PROVE  OrderInv'
<1>1. /\ tab[t].open /\ shape' = shape /\ clock' = clock + 1 /\ Done' = Done
  BY DEF Write, Done
<1>2. /\ Fits(World(t), Done', made, clock) /\ Sound(World(t))
      /\ clock \in Nat /\ refusing \in BOOLEAN /\ t \in shape.tabs
      /\ World(t).tb = tab[t] /\ World(t).stored = stored
  BY <1>1, WorldFits
<1>3. kind \in Kinds
  <2>1. shape.kinds \in [Tabs -> SUBSET Kinds]
    BY OutboxAssumption DEF AllInv, OutboxInv, Typed
  <2> QED BY <2>1
<1>4. PICK d, A : WriteDone(t, base, kind, d, A)
  BY <1>3, WriteIs DEF AllInv
<1> DEFINE q == tab[t].queue
           r == QueueSet(q, d)
           v == [World(t) EXCEPT !.tb.queue = r]
           rec == [by |-> t, kind |-> kind, after |-> CarriedBy({e \in q : e.base = base \/ e.key \in A})]
<1>5. /\ d \in EntryType /\ d.at = clock + 1 /\ Following(q, d, base, clock, A) /\ Elsewhere(q, base, A)
      /\ Do(t, FlushNow(Persist(v))) /\ made' = Append(made, rec)
  BY <1>4 DEF WriteDone, Placing
<1>6. World(t) \in WorldType /\ PageFits(tab[t], Done', made, clock) /\ CopyFits(stored, Done', made, clock)
  BY <1>2 DEF Fits
<1>7. Tidy(q, clock) /\ InLine(q, Done', made) BY <1>6 DEF PageFits
<1>8. \A e \in q \cup Sent(tab[t]) \cup stored.has : e \in EntryType /\ e.carries \subseteq 1 .. clock
  BY CarriesPast DEF AllInv
<1>9. rec \in MadeType
  <2>1. \A e \in q : e.carries \subseteq Nat BY <1>8
  <2>2. CarriedBy({e \in q : e.base = base \/ e.key \in A}) \subseteq Nat BY <2>1 DEF CarriedBy
  <2> QED BY <1>3, <2>2 DEF MadeType
<1>10. rec.after = CarriedBy({e \in q : e.base = base \/ e.key \in A}) OBVIOUS
<1> HIDE DEF rec
<1>11. /\ made' \in Seq(MadeType) /\ Len(made') = clock' /\ made'[clock + 1] = rec
       /\ \A m \in 1 .. clock : made'[m] = made[m]
  <2>1. made \in Seq(MadeType) /\ Len(made) = clock BY DEF AllInv, OrderInv
  <2> QED BY <1>1, <1>2, <1>5, <1>9, <2>1
<1>12. made'[clock + 1].after = CarriedBy({e \in q : e.base = base \/ e.key \in A}) BY <1>10, <1>11
<1>13. Tidy(r, clock + 1) BY <1>2, <1>5, <1>7, FollowingTidy
<1>14. InLine(r, Done', made')
  <2>1. \A e \in q : e.carries \subseteq 1 .. clock BY <1>8
  <2> DEFINE E == Done'
             N == made'
  <2>2. /\ InLine(q, E, made) /\ \A m \in 1 .. clock : N[m] = made[m]
        /\ N[clock + 1].after = CarriedBy({e \in q : e.base = base \/ e.key \in A})
    BY <1>7, <1>11, <1>12
  <2> HIDE DEF E, N, q
  <2>3. InLine(r, E, N) BY <1>2, <1>5, <1>7, <2>1, <2>2, FollowingInLine
  <2> QED BY <2>3 DEF E, N
<1>15. \A u \in tab[t].turns : TurnFits(u, r, Done', made', clock + 1)
  <2> DEFINE E == Done'
             N == made'
  <2>1. ASSUME NEW u \in tab[t].turns PROVE TurnFits(u, r, E, N, clock + 1)
    <3>1. u \in TurnType BY <1>2, <1>6 DEF WorldType, PageType
    <3>2. TurnFits(u, q, E, made, clock) BY <1>6 DEF PageFits
    <3>3. \A e \in u.sent : e.carries \subseteq 1 .. clock BY <1>8, <2>1 DEF Sent
    <3>4. \A m \in 1 .. clock : N[m] = made[m] BY <1>11
    <3> HIDE DEF E, N, q
    <3> QED BY <1>2, <1>5, <1>7, <3>1, <3>2, <3>3, <3>4, FollowingTurn
  <2> QED BY <2>1
<1>16. r \in SUBSET EntryType BY <1>13 DEF Tidy
<1>17. \A e \in q : e.at <= clock /\ e.at \in Nat BY <1>7 DEF Tidy, EntryType
<1>18. \A e \in r : e = d \/ e \in q BY DEF QueueSet
<1>19. \A e \in stored.has : Covers(tab[t], e) => \E f \in r : f.key = e.key /\ e.at <= f.at
  <2>1. ASSUME NEW e \in stored.has, Covers(tab[t], e) PROVE \E f \in r : f.key = e.key /\ e.at <= f.at
    <3>1. PICK f \in q : f.key = e.key /\ e.at <= f.at BY <2>1 DEF Covers
    <3>2. CASE f.key # d.key BY <3>1, <3>2 DEF QueueSet
    <3>3. CASE f.key = d.key
      <4>1. e.at \in Nat BY <1>8 DEF EntryType
      <4>2. e.at <= d.at BY <1>2, <1>5, <1>17, <3>1, <4>1
      <4> QED BY <3>1, <3>3, <4>2 DEF QueueSet
    <3> QED BY <3>2, <3>3
  <2> QED BY <2>1
<1> HIDE DEF r
<1>20. /\ v \in WorldType /\ v.tb.queue = r /\ v.tb.settled = tab[t].settled /\ v.tb.left = tab[t].left
       /\ v.tb.open = tab[t].open /\ v.stored = stored /\ v.tb.turns = tab[t].turns
       /\ v.tb.failed = tab[t].failed /\ v.tb.pass = tab[t].pass /\ v.tb.cut = tab[t].cut
       /\ v.tb.discarded = tab[t].discarded
  BY <1>2, <1>6, <1>16 DEF WorldType, PageType
<1> HIDE DEF v
<1>21. Sound(v)
  BY <1>2, <1>19, <1>20 DEF Sound, Whole, Sealed, Covers
<1>22. Forgotten(v.tb, clock + 1)
  <2>1. ASSUME NEW p \in tab[t].discarded PROVE p[2] <= clock + 1 /\ \A e \in r : Named(e) # p
    <3>1. p \in Names BY <1>2, <1>6 DEF WorldType, PageType
    <3>2. p[2] <= clock /\ p[2] \in Nat /\ \A e \in q : Named(e) # p
      BY <1>6, <3>1 DEF PageFits, Forgotten, Queued, Names
    <3>3. Named(d)[2] = clock + 1 BY <1>5 DEF Named
    <3>4. Named(d) # p BY <1>2, <3>2, <3>3
    <3> QED BY <1>2, <1>18, <3>2, <3>4
  <2> QED BY <1>20, <2>1 DEF Forgotten, Queued
<1>23. PageFits(v.tb, Done', made', clock + 1)
  <2>1. OneTurn(v.tb) BY <1>6, <1>20 DEF PageFits, OneTurn
  <2> QED BY <1>6, <1>13, <1>14, <1>15, <1>20, <1>22, <2>1 DEF PageFits
<1>24. CopyFits(v.stored, Done', made', clock + 1)
  <2> DEFINE E == Done'
             N == made'
  <2>1. \A m \in 1 .. clock : N[m] = made[m] BY <1>11
  <2>2. Tidy(stored.has, clock) /\ InLine(stored.has, E, made) BY <1>6 DEF CopyFits
  <2>3. \A e \in stored.has : e.carries \subseteq 1 .. clock BY <1>8
  <2> HIDE DEF E, N
  <2>4. Tidy(stored.has, clock + 1) /\ InLine(stored.has, E, N) BY <1>2, <2>1, <2>2, <2>3, LongerFits
  <2> QED BY <1>20, <2>4 DEF CopyFits, E, N
<1> DEFINE E == Done'
           N == made'
           n == clock + 1
<1>25. Fits(v, E, N, n) BY <1>20, <1>23, <1>24 DEF Fits
<1>26. n \in Nat BY <1>2
<1>27. Whole(v) /\ Sealing(v) BY <1>21, SoundSealing
<1> HIDE DEF E, N, n
<1>28. Fits(Persist(v), E, N, n) BY <1>2, <1>25, <1>27, PersistFits
<1>29. Sound(Persist(v)) BY <1>2, <1>27, PersistSound
<1>30. Fits(FlushNow(Persist(v)), E, N, n) /\ Up(FlushNow(Persist(v)).tb)
  BY <1>2, <1>26, <1>28, <1>29, FlushNowFits
<1>31. tab' = [tab EXCEPT ![t] = FlushNow(Persist(v)).tb] /\ stored' = FlushNow(Persist(v)).stored
  BY <1>5 DEF Do
<1>32. PageFits(FlushNow(Persist(v)).tb, Done', made', clock') /\ CopyFits(stored', Done', made', clock')
  BY <1>1, <1>30, <1>31 DEF Fits, E, N, n
<1> QED BY <1>1, <1>2, <1>11, <1>30, <1>31, <1>32, OrderMoves

LEMMA OrderFirst ==
    ASSUME Init
    PROVE  OrderInv
<1>1. /\ made = <<>> /\ clock = 0 /\ stored.has = {}
      /\ tab = [t \in Tabs |-> [Fresh({}, 1) EXCEPT !.open = t \in shape.tabs]]
  BY DEF Init
<1>2. made \in Seq(MadeType) /\ Len(made) = clock BY <1>1
<1>3. Tidy({}, clock) /\ InLine({}, Done, made) BY DEF Tidy, InLine, Distinct, Earlier
<1>4. CopyFits(stored, Done, made, clock) BY <1>1, <1>3 DEF CopyFits
<1>5. ASSUME NEW t \in Tabs PROVE PageFits(tab[t], Done, made, clock) /\ Up(tab[t])
  <2>1. /\ tab[t].queue = {} /\ tab[t].turns = {} /\ ~tab[t].cut /\ ~tab[t].pass /\ tab[t].discarded = {}
    BY <1>1 DEF Fresh
  <2> QED BY <1>3, <2>1 DEF PageFits, Up, Forgotten, OneTurn
<1> QED BY <1>2, <1>4, <1>5 DEF OrderInv

LEMMA OrderStep ==
    ASSUME OnePage, AllInv, [Next]_vars
    PROVE  OrderInv'
<1> OutboxInv /\ AloneInv /\ OrderInv BY DEF AllInv
<1>1. CASE UNCHANGED vars
  BY <1>1, OrderAside DEF vars
<1>2. CASE ResetPassword
  BY <1>2, OrderAside DEF ResetPassword
<1>3. CASE StorageTurns
  BY <1>3, OrderAside DEF StorageTurns
<1>4. ASSUME NEW t \in Tabs, NEW base \in Bases, NEW kind \in shape.kinds[t], Write(t, base, kind) PROVE OrderInv'
  BY <1>4, WriteOrder, SMTT(30)
<1>5. ASSUME NEW t \in Tabs, OnStoredQueueChanged(t) PROVE OrderInv'
  BY <1>5 DEF OnStoredQueueChanged, AloneInv
<1>6. ASSUME NEW t \in Tabs,
             \/ DiscardHeldWrite(t) \/ ParkQueueForReauth(t) \/ ResumeAfterAuth(t) \/ ClearQueue(t)
             \/ Close(t) \/ Open(t)
             \/ ServerAnswers(t) \/ Hears(t) \/ GivesUp(t) \/ TimerFires(t)
      PROVE  OrderInv'
  BY <1>6, DiscardOrder, ParkOrder, ResumeOrder, ClearOrder, CloseOrder, OpenOrder, ServerOrder, HearsOrder,
     GivesUpOrder, TimerOrder
<1> QED BY <1>1, <1>2, <1>3, <1>4, <1>5, <1>6 DEF Next

---------------------------------------------------------------------------
(* What the order of a queue means for those who wait in it.               *)

LEMMA UpstreamEarlier ==
    ASSUME NEW q, NEW n, Tidy(q, n), NEW e \in q
    PROVE  \A f \in Upstream(q, e) : f.at < e.at
<1> DEFINE T == {f \in q : f.at < e.at}
<1>1. \A f \in q : f.at \in Nat BY DEF Tidy, EntryType
<1>2. ASSUME NEW g \in T \cup {e}, NEW h \in Before(q, g) PROVE h \in T
  <2>1. g \in q /\ g.at <= e.at BY <1>1, <1>2
  <2>2. h \in q /\ h.at < g.at BY <1>2, <2>1 DEF Before, Tidy, Earlier
  <2> QED BY <1>1, <2>1, <2>2
<1>3. T \in SUBSET q /\ \A g \in T \cup {e} : Before(q, g) \subseteq T BY <1>2
<1> HIDE DEF T
<1>4. Upstream(q, e) \subseteq T BY <1>3 DEF Upstream, IsOnTheWay
<1> QED BY <1>4 DEF T

\* Where nothing could go, whatever waits does so behind an entry that waits
\* for a password or for an operator.
LEMMA StuckSomewhere ==
    ASSUME NEW q, NEW n, Tidy(q, n), \A f \in q : ~Sendable(q, f), NEW e \in q
    PROVE  \E f \in {e} \cup Upstream(q, e) : f.authBlocked \/ f.parked
<1> DEFINE S == {e} \cup Upstream(q, e)
           A == {f.at : f \in S}
<1>1. S \subseteq q BY DEF Upstream
<1>2. \A f \in q : f.at \in Nat BY DEF Tidy, EntryType
<1>3. ASSUME NEW f \in S, NEW h \in Before(q, f) PROVE h \in S
  <2>1. h \in q BY DEF Before
  <2>2. ASSUME NEW T \in SUBSET q, \A g \in T \cup {e} : Before(q, g) \subseteq T PROVE h \in T
    <3>1. f \in T \cup {e} BY <2>2 DEF Upstream, IsOnTheWay
    <3> QED BY <2>2, <3>1
  <2> QED BY <2>1, <2>2 DEF Upstream, IsOnTheWay
<1>4. \E f \in S : \A g \in S : f.at <= g.at
  <2>1. A \in SUBSET Nat BY <1>1, <1>2
  <2>2. A # {} OBVIOUS
  <2>3. \A f \in S : f.at \in A OBVIOUS
  <2>4. \A a \in A : \E f \in S : f.at = a OBVIOUS
  <2> HIDE DEF A, S
  <2>5. PICK a \in A : \A m \in A : a <= m BY <2>1, <2>2, Least
  <2>6. PICK f \in S : f.at = a BY <2>4, <2>5
  <2> QED BY <2>3, <2>5, <2>6
<1>5. PICK f \in S : \A g \in S : f.at <= g.at BY <1>4
<1> HIDE DEF S
<1>6. f \in q BY <1>1, <1>5
<1>7. \A h \in Before(q, f) : h \in q /\ h.at < f.at BY <1>6 DEF Before, Tidy, Earlier
<1>8. Before(q, f) = {} BY <1>2, <1>3, <1>5, <1>6, <1>7
<1>9. f.authBlocked \/ f.parked BY <1>6, <1>8 DEF Sendable
<1> QED BY <1>5, <1>9 DEF S

LEMMA OrderWaits ==
    ASSUME AllInv
    PROVE  NobodyWaitsInVain
<1>1. ASSUME NEW t \in Tabs, NEW e \in tab[t].queue
      PROVE  tab[t].open /\ Tidy(tab[t].queue, clock) /\ Up(tab[t])
  <2>1. tab[t].open BY <1>1 DEF AllInv, OutboxInv, Shut
  <2> QED BY <2>1 DEF AllInv, OrderInv, PageFits
<1>2. NoWaitCycle
  <2> SUFFICES ASSUME NEW t \in Tabs, NEW e \in tab[t].queue, e \in Upstream(tab[t].queue, e) PROVE FALSE
    BY DEF NoWaitCycle, OnCycle, Upstream
  <2>1. Tidy(tab[t].queue, clock) BY <1>1
  <2>2. e.at < e.at BY <2>1, UpstreamEarlier
  <2>3. e.at \in Nat BY <2>1 DEF Tidy, EntryType
  <2> QED BY <2>2, <2>3
<1>3. QuietMeansStuck
  <2> SUFFICES ASSUME \A t \in Tabs : Quiet(t), NEW t \in Tabs, NEW e \in tab[t].queue
               PROVE  \E f \in {e} \cup Upstream(tab[t].queue, e) : f.authBlocked \/ f.parked
    BY DEF QuietMeansStuck
  <2>1. tab[t].open /\ Tidy(tab[t].queue, clock) /\ Up(tab[t]) BY <1>1
  <2>2. \A f \in tab[t].queue : ~Sendable(tab[t].queue, f) BY <2>1 DEF Quiet, Up
  <2> DEFINE q == tab[t].queue
  <2>3. e \in q /\ Tidy(q, clock) /\ \A f \in q : ~Sendable(q, f) BY <2>1, <2>2
  <2> HIDE DEF q
  <2>4. \E f \in {e} \cup Upstream(q, e) : f.authBlocked \/ f.parked BY <2>3, StuckSomewhere
  <2> QED BY <2>4 DEF q
<1> QED BY <1>2, <1>3 DEF NobodyWaitsInVain

LEMMA AllFirst ==
    ASSUME Init
    PROVE  AllInv
  BY FirstState, AloneFirst, OrderFirst DEF AllInv

LEMMA AllStep ==
    ASSUME OnePage, AllInv, [Next]_vars
    PROVE  AllInv'
  BY AloneApart, StepStays, AloneStep, OrderStep DEF AllInv

\* On a device with one page no entry ever waits in a circle, and whenever the
\* page is at rest, with no pass, no timer and no reset to hear, every entry left
\* waits for a password or for an operator, itself or behind one that does: no
\* wake-up is ever lost, whatever is coalesced, refused, dropped, discarded or
\* signed in to (_flushQueue, _rerunFlushSoon, _markWaitCycles).
THEOREM NobodyIsLeftWaiting == OnePage => (Spec => []NobodyWaitsInVain)
<1> SUFFICES ASSUME OnePage PROVE Spec => []NobodyWaitsInVain
  OBVIOUS
<1>1. Init => AllInv
  BY AllFirst
<1>2. AllInv /\ [Next]_vars => AllInv'
  BY AllStep
<1>3. AllInv => NobodyWaitsInVain
  BY OrderWaits
<1> QED BY <1>1, <1>2, <1>3, PTL DEF Spec

LEMMA StepInOrder ==
    ASSUME AllInv, [Next]_vars, NEW m \in met' \ met, NEW n \in made[m].after \ (met' \cup gone')
    PROVE  FALSE
<1>1. PICK t \in Tabs : ServerAnswers(t)
  <2>1. met' # met OBVIOUS
  <2>3. ASSUME NEW t \in Tabs, NEW base \in Bases, NEW kind \in shape.kinds[t], Write(t, base, kind) PROVE met' = met
    BY <2>3 DEF Write
  <2>4. (ResetPassword \/ StorageTurns) => met' = met BY DEF ResetPassword, StorageTurns
  <2>5. ASSUME NEW t \in Tabs PROVE /\ DiscardHeldWrite(t) => met' = met
                                    /\ ParkQueueForReauth(t) => met' = met
                                    /\ ResumeAfterAuth(t) => met' = met
                                    /\ ClearQueue(t) => met' = met
                                    /\ Close(t) => met' = met
                                    /\ Open(t) => met' = met
    <3>1. /\ DiscardHeldWrite(t) => met' = met
          /\ ParkQueueForReauth(t) => met' = met
          /\ ResumeAfterAuth(t) => met' = met
      BY DEF DiscardHeldWrite, ParkQueueForReauth, ResumeAfterAuth
    <3>2. ClearQueue(t) => met' = met
      BY DEF ClearQueue
    <3>3. Close(t) => met' = met
      BY DEF Close
    <3>4. Open(t) => met' = met
      BY DEF Open
    <3> QED BY <3>1, <3>2, <3>3, <3>4
  <2>6. ASSUME NEW t \in Tabs PROVE /\ Hears(t) => met' = met
                                    /\ GivesUp(t) => met' = met
                                    /\ TimerFires(t) => met' = met
                                    /\ OnStoredQueueChanged(t) => met' = met
    BY DEF Hears, GivesUp, TimerFires, OnStoredQueueChanged
  <2>7. UNCHANGED vars => met' = met BY DEF vars
  <2>8. Next BY <2>1, <2>7
  <2> QED BY <2>1, <2>3, <2>4, <2>5, <2>6, <2>8 DEF Next
<1>2. PICK u \in tab[t].turns : met' = met \/ met' = met \cup CarriedBy(u.sent)
  BY <1>1 DEF ServerAnswers
<1>3. gone' = gone BY <1>1 DEF ServerAnswers
<1>4. m \in CarriedBy(u.sent) /\ met' = met \cup CarriedBy(u.sent) BY <1>2
<1>5. tab[t].open BY <1>2 DEF AllInv, OutboxInv, Shut
<1>6. TurnFits(u, tab[t].queue, Done, made, clock) BY <1>2, <1>5 DEF AllInv, OrderInv, PageFits
<1>7. made[m].after \subseteq Done \cup CarriedBy(u.sent) BY <1>4, <1>6 DEF TurnFits
<1> QED BY <1>3, <1>4, <1>7 DEF Done

\* On a device with one page the server first meets a write only once every
\* write of its match the page then held, and every one it was to follow, has
\* reached it or was given up, or reaches it in the same request (_flushQueue,
\* _sendTapBatch, _coalesceTarget).
THEOREM WritesArriveInOrder == OnePage => (Spec => InOrder)
<1> SUFFICES ASSUME OnePage PROVE Spec => InOrder
  OBVIOUS
<1>1. Init => AllInv
  BY AllFirst
<1>2. AllInv /\ [Next]_vars => AllInv'
  BY AllStep
<1>3. AllInv /\ [Next]_vars =>
        [\A m \in met' \ met : \A n \in made[m].after \ (met' \cup gone') : Overtaken(n, m)]_vars
  BY StepInOrder
<1> QED BY <1>1, <1>2, <1>3, PTL DEF Spec, InOrder
=============================================================================
