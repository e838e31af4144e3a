----------------------------- MODULE OutboxQueue -----------------------------
(***************************************************************************)
(* web-mobile/js/api_client.jsx: the queue of unsent writes of one page,   *)
(* as a value.  An entry is one request to send: the match it is about     *)
(* (its base), the writes it carries, when the newest of them was made     *)
(* (which orders the queue and tells two copies of an entry apart), and    *)
(* what it must follow.  A write is named by the moment it was made, and   *)
(* the key of an entry is the first write that went under it.              *)
(***************************************************************************)
EXTENDS Integers, FiniteSets

CONSTANT Notice   \* SERVER_REJECTION_NOTICE_THRESHOLD

ASSUME NoticeAssumption == Notice \in Nat \ {0}

Score == {"run", "fin"}
Kinds == Score \cup {"tap", "lineup", "back"}

\* An entry: attempts is capped at the notice threshold, pw is the version of
\* the password it is sent with (0: blanked), by the page that made it.
Entry(base, kind, at, after, holds, pw, by) ==
    [key |-> at, base |-> base, kind |-> kind, at |-> at, carries |-> {at}, after |-> after,
     holds |-> holds, pw |-> pw, by |-> by, attempts |-> 0, authBlocked |-> FALSE, parked |-> FALSE]

KeysOf(q) == {e.key : e \in q}
CarriedBy(q) == UNION {e.carries : e \in q}

EntriesFor(q, base) == {e \in q : e.base = base}

\* The newest and the oldest of some entries: two never share a moment.
Newest(es) == CHOOSE e \in es : \A f \in es : f.at <= e.at
Oldest(es) == CHOOSE e \in es : \A f \in es : e.at <= f.at

\* The newest entry of another match that also belongs to this one.
HeldBy(q, base) ==
    LET holders == {e \in q : e.base # base /\ base \in e.holds}
    IN  IF holders = {} THEN {} ELSE {Newest(holders).key}

IsFollowed(q, key) == \E e \in q : key \in e.after

\* As CoalesceTarget, into an entry another one follows.
CoalesceIntoFollowed(q, out, d) ==
    {e \in EntriesFor(q, d.base) :
        /\ \A f \in EntriesFor(q, d.base) : f.at <= e.at
        /\ \/ d.kind = "lineup" /\ e.kind = "lineup"
           \/ <<e.key, e.at>> \notin out /\ d.kind \in Score /\ e.kind \in Score /\ ~(e.kind = "fin" /\ d.kind = "run")}

\* As CoalesceTarget, into any lineup save of the match and not the last entry.
CoalesceAcross(q, out, d) ==
    {e \in EntriesFor(q, d.base) :
        /\ ~IsFollowed(q, e.key)
        /\ \/ d.kind = "lineup" /\ e.kind = "lineup"
           \/ /\ \A f \in EntriesFor(q, d.base) : f.at <= e.at
              /\ <<e.key, e.at>> \notin out
              /\ d.kind \in Score /\ e.kind \in Score
              /\ ~(e.kind = "fin" /\ d.kind = "run")}

\* The entry a new write may take the place of, at most one: the last of its
\* match, which nothing follows, and by kind.  `out` is what is being sent.
CoalesceTarget(q, out, d) ==
    {e \in EntriesFor(q, d.base) :
        /\ \A f \in EntriesFor(q, d.base) : f.at <= e.at
        /\ ~IsFollowed(q, e.key)
        /\ \/ d.kind = "lineup" /\ e.kind = "lineup"
           \/ /\ <<e.key, e.at>> \notin out
              /\ d.kind \in Score /\ e.kind \in Score
              /\ ~(e.kind = "fin" /\ d.kind = "run")
              /\ e.at <= d.at}

\* The write as it is queued: under the key of the entry whose place it takes,
\* with what that entry carried and followed, or as an entry of its own.
PlaceWrite(q, out, d) ==
    LET followed == [d EXCEPT !.after = @ \cup HeldBy(q, d.base)]
        target == CoalesceTarget(q, out, followed)
    IN  IF target = {} THEN followed
        ELSE LET prev == CHOOSE e \in target : TRUE
             IN  [followed EXCEPT !.key = prev.key, !.carries = @ \cup prev.carries, !.after = @ \cup prev.after]

QueueSet(q, d) == {e \in q : e.key # d.key} \cup {d}

---------------------------------------------------------------------------
(* What waits on what: an entry on those it follows that are still queued, *)
(* and on every earlier entry of its match.                                *)

WaitsOn(q, e) == {k \in e.after : k \in KeysOf(q)}

Before(q, e) == {f \in q : f.key \in e.after \/ (f.base = e.base /\ f.at < e.at)}

\* Whether f is on the way of an entry: in every set that holds what is before
\* the entry and what is before each of its members.
IsOnTheWay(q, e, f) == \A T \in SUBSET q : (\A g \in T \cup {e} : Before(q, g) \subseteq T) => f \in T

Upstream(q, e) == {f \in q : IsOnTheWay(q, e, f)}

OnCycle(q, e) == IsOnTheWay(q, e, e)

RefusedByServer(e) == e.parked \/ e.attempts >= Notice

\* Cannot go for now, for a reason other than the connection.  An entry the
\* server refused once has been held by the turn it was refused in.
IsStuckEntry(q, e) == RefusedByServer(e) \/ e.authBlocked \/ OnCycle(q, e) \/ e.attempts > 0

BlockedByHeld(q, key) ==
    \E e \in q : e.key = key /\ \E f \in {e} \cup Upstream(q, e) : IsStuckEntry(q, f)

---------------------------------------------------------------------------
(* The copy in browser storage, which every page of the device shares.     *)

\* A settled pair is a key and the moment of the entry taken out.
IsSettled(settled, e) == \E p \in settled : p[1] = e.key /\ e.at <= p[2]

\* As Merge, this page's copy of a key always standing.
MergeMineFirst(stored, q, settled) ==
    {e \in stored : ~IsSettled(settled, e) /\ e.key \notin KeysOf(q)} \cup q

\* What a page stores: what storage holds less what this page settled, and of
\* a key both hold the newer entry, this page's when they are as new.
Merge(stored, q, settled) ==
    LET kept == {e \in stored : ~IsSettled(settled, e)}
        mine == {d \in q : ~\E e \in kept : e.key = d.key /\ e.at > d.at}
    IN  {e \in kept : e.key \notin KeysOf(mine)} \cup mine
=============================================================================
