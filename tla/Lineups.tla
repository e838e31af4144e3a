------------------------------- MODULE Lineups -------------------------------
(***************************************************************************)
(* The lineups of one team, ordered by stamp (engine/lineup_carry.go,      *)
(* engine/kachinuki_opener.go, domain/team_lineup.go).  A lineup is kept   *)
(* per slot: the team's starting lineup, and each match's own.  Devices    *)
(* save, take away and start with the clock stamp of the change, and the   *)
(* changes land in any order.  A match with no lineup of its own fields    *)
(* the latest earlier match's, else the starting one; one with its own     *)
(* carries the positions it never changed from what was in force at the    *)
(* stamp it was made (copied), and a kachinuki match keeps the whole       *)
(* lineup it started with (a pin, started).                                *)
(*                                                                         *)
(* A change's value is its stamp: two changes never hold the same name.    *)
(* Member ids, refused (duplicate) lineups and whole saves of older builds *)
(* are left out.                                                           *)
(***************************************************************************)
EXTENDS Integers, Sequences, FiniteSets, FiniteSetsExt, SequencesExt

CONSTANTS
    Pos,            \* the positions of a lineup
    LastMatch,      \* the team's matches are 1..LastMatch, in match order
    Stamps          \* changes are stamped 1..Stamps, one change per stamp

ASSUME LineupsAssumption ==
    /\ IsFiniteSet(Pos) /\ Pos # {}
    /\ LastMatch \in Nat \ {0}
    /\ Stamps \in Nat \ {0}

VARIABLES
    lineups,    \* per slot, every record of it: the live one, the removed ones
    carried,    \* what the stored own lineup of a match holds at the positions
                \* it does not own (0: no name)
    result,     \* the stamp of a match's result group, 0 while scheduled
    landed,     \* the changes that landed, by stamp (for the properties)
    overtaken   \* matches whose own lineup was taken away by a removal that
                \* landed behind a later result (for the properties)

vars == <<lineups, carried, result, landed, overtaken>>

Matches == 1..LastMatch
Start == 0                              \* the slot of the starting lineup
Slots == {Start} \cup Matches
Stamp == 1..Stamps

\* A record: removed (0: live), copied (when a match's own copy was made, 0 for
\* the starting lineup), started (a pin's start, 0 for the rest), and own, its
\* own changes, each a position and a stamp.
NoChange == [what |-> "none", slot |-> Start, pos |-> {}]
Nobody == [p \in Pos |-> 0]

(* ------------------------------ records -------------------------------- *)
IsRemoved(r) == r.removed > 0
IsStartPin(r) == r.started > 0
IsCarriedCopy(r) == r.copied > 0 /\ ~IsStartPin(r)
IsRemovalMarker(r) == IsRemoved(r) /\ r.copied = r.removed
RemovalMarker(at) == [removed |-> at, copied |-> at, started |-> 0, own |-> {}]

Live(L, slot) == {r \in L[slot] : ~IsRemoved(r)}
StampsOf(own) == {c[2] : c \in own}
StampsAt(own, p) == {c[2] : c \in {d \in own : d[1] = p}}

\* SlotEpochAt: the record a change stamped s belongs to, the one taken away
\* first after s, else the live one ({} when the slot holds none).
SlotEpochAt(records, s) ==
    LET after == {r \in records : r.removed > s}
    IN  IF after = {} THEN {r \in records : ~IsRemoved(r)}
        ELSE {r \in after : \A q \in after : r.removed <= q.removed}

\* withOwnChanges: the same record with these changes of its own; a copy is
\* made at its earliest change.
WithOwn(r, own) ==
    [r EXCEPT !.own = own,
              !.copied = IF IsCarriedCopy(r) /\ own # {} THEN Min(StampsOf(own)) ELSE @]

(* --------------------------- the carry by stamp ------------------------- *)
\* A defect: a lineup made since counts as if it had been there.
InSlotNow(L, slot, at) == Live(L, slot)

\* The record of a slot that was in force at stamp at: taken away at or after
\* it and made before it, the one removed first; else the live one.
InSlotAt(L, slot, at) ==
    LET made(r) == ~IsCarriedCopy(r) \/ r.copied < at
        gone == {r \in L[slot] : IsRemoved(r) /\ r.removed >= at /\ made(r)}
    IN  IF gone # {} THEN {r \in gone : \A q \in gone : r.removed <= q.removed}
        ELSE {r \in Live(L, slot) : made(r)}

\* sourceAt: the slot match m carries from at stamp at, {} when none applies.
\* A pin is its match's alone.
SourceAt(L, m, at) ==
    LET before == {k \in 1..(m - 1) : \E r \in InSlotAt(L, k, at) : ~IsStartPin(r)}
        from   == IF before # {} THEN Max(before) ELSE Start
    IN  IF InSlotAt(L, from, at) = {} THEN {} ELSE {from}

\* valueAt: what position p of a slot's record held at stamp at.
RECURSIVE ValueAt(_, _, _, _, _)
ValueAt(L, slot, r, p, at) ==
    LET mine == {s \in StampsAt(r.own, p) : s < at}
        from == SourceAt(L, slot, r.copied)
    IN  IF mine # {} THEN Max(mine)
        ELSE IF ~IsCarriedCopy(r) \/ from = {} THEN 0
        ELSE LET k == CHOOSE k \in from : TRUE
                 q == CHOOSE q \in InSlotAt(L, k, r.copied) : TRUE
             IN  ValueAt(L, k, q, p, r.copied)

\* A defect: what a match carries is read from the starting lineup alone.
CarryFromStart(L, m, r) ==
    LET at == IF IsStartPin(r) THEN r.started ELSE r.copied
    IN  [p \in Pos |->
            IF StampsAt(r.own, p) # {} \/ Live(L, Start) = {} THEN 0
            ELSE LET q == CHOOSE q \in Live(L, Start) : TRUE IN ValueAt(L, Start, q, p, at)]

\* carryInto: what the live lineup r of match m holds at the positions it does
\* not own, all of them on a pin.
CarryInto(L, m, r) ==
    LET at == IF IsStartPin(r) THEN r.started ELSE r.copied
        from == SourceAt(L, m, at)
    IN  [p \in Pos |->
            IF StampsAt(r.own, p) # {} \/ from = {} THEN 0
            ELSE LET k == CHOOSE k \in from : TRUE
                     q == CHOOSE q \in InSlotAt(L, k, at) : TRUE
                 IN  ValueAt(L, k, q, p, at)]

\* rederive: every stored own lineup of the team worked out again.
Derived(L) ==
    [m \in Matches |->
        IF Live(L, m) = {} THEN Nobody
        ELSE CarryInto(L, m, CHOOSE r \in Live(L, m) : TRUE)]

(* ------------------------------- a save --------------------------------- *)
\* land: changes all of one epoch of a slot, on the record they belong to.
LandOn(slot, base, changes) ==
    LET first == Min(StampsOf(changes))
        r == CHOOSE r \in base : TRUE
        fresh == [removed |-> 0, copied |-> IF slot = Start THEN 0 ELSE first,
                  started |-> 0, own |-> {}]
        on == IF base = {} THEN fresh
              ELSE IF IsRemovalMarker(r) THEN [fresh EXCEPT !.removed = r.removed]
              ELSE IF IsStartPin(r) THEN [r EXCEPT !.copied = r.started, !.started = 0]
              ELSE r
    IN  [on EXCEPT !.own = @ \cup changes,
                   !.copied = IF @ > 0 THEN Min({@, first}) ELSE 0]

\* A defect: every change lands on the live lineup, whatever was taken away
\* after it.
LandOnLive(slot, records, changes) ==
    LET live == {r \in records : ~IsRemoved(r)}
    IN  (records \ live) \cup {LandOn(slot, live, changes)}

\* landEpochs: a save's changes, each on the epoch its stamp falls in.
LandEpochs(slot, records, changes) ==
    LET bases == {SlotEpochAt(records, c[2]) : c \in changes}
        of(base) == {c \in changes : SlotEpochAt(records, c[2]) = base}
    IN  (records \ UNION bases) \cup {LandOn(slot, base, of(base)) : base \in bases}

(* ------------------------------ a removal ------------------------------- *)
\* SplitAt and removeFromSlot: the record whose epoch holds at splits there.
RemoveFromSlot(records, at) ==
    LET target == SlotEpochAt(records, at)
        r == CHOOSE r \in target : TRUE
        before == {c \in r.own : c[2] < at}
        after == r.own \ before
        kept == IF before = {} THEN RemovalMarker(at)
                ELSE [WithOwn(r, before) EXCEPT !.removed = at]
        rest == IF after # {} THEN {WithOwn(r, after)}
                ELSE IF IsRemoved(r) THEN {RemovalMarker(r.removed)} ELSE {}
    IN  IF target = {} THEN records \cup {RemovalMarker(at)}
        ELSE IF IsStartPin(r)
             THEN (IF at < r.started THEN records ELSE records \ target) \cup {RemovalMarker(at)}
        ELSE (records \ target) \cup {kept} \cup rest

\* Whether the removal takes a lineup away.
Removes(records, at) ==
    \E r \in SlotEpochAt(records, at) :
        IF IsStartPin(r) THEN at >= r.started ELSE \E c \in r.own : c[2] < at

(* -------------------------- a match that started ------------------------ *)
\* The stamp a started match's lineup is kept at: at, or a later removal's.
KeptAt(records, at) == Max({at} \cup {r.removed : r \in records})

\* pinLineup for a match with no lineup of its own, anchorStartedCopy for one
\* with a copy made after the stamp.
KeepStarted(records, at) ==
    LET live == {r \in records : ~IsRemoved(r)}
        anchor(r) == [r EXCEPT !.copied = KeptAt(records, at)]
        moves(r) == IsCarriedCopy(r) /\ r.copied > KeptAt(records, at)
    IN  IF live = {}
        THEN records \cup {[removed |-> 0, copied |-> 0, started |-> KeptAt(records, at), own |-> {}]}
        ELSE {IF r \in live /\ moves(r) THEN anchor(r) ELSE r : r \in records}
(* ----------------------------- the changes ------------------------------ *)
\* What each change makes of the stored lineups; a change lands whole, in one
\* transaction.
Stored == [lineups |-> lineups, carried |-> carried, result |-> result]

\* A save (saveLineup): its changes land, and every carried lineup follows.
Saved(st, slot, changes) ==
    LET L == [st.lineups EXCEPT ![slot] = LandEpochs(slot, @, changes)]
    IN  [st EXCEPT !.lineups = L, !.carried = Derived(L)]

\* A removal (RemoveTeamLineupAt; UsePreviousLineupTx on a match, which keeps
\* the lineup in force on one that started): the rest follows when a lineup
\* was taken away or kept.  One at a stamp the slot has is that removal.
Removed(st, slot, at) ==
    LET again   == \E r \in st.lineups[slot] : r.removed = at
        records == IF again THEN st.lineups[slot] ELSE RemoveFromSlot(st.lineups[slot], at)
        started == slot # Start /\ st.result[slot] > 0
        kept    == IF started THEN KeepStarted(records, Max({at, st.result[slot]})) ELSE records
        moved   == kept # records \/ (~again /\ Removes(st.lineups[slot], at))
        L       == [st.lineups EXCEPT ![slot] = kept]
    IN  [st EXCEPT !.lineups = L, !.carried = IF moved THEN Derived(L) ELSE @]

\* A defect: the start moves a copy back and works out that copy alone.
StartedUnfollowed(st, m, at) ==
    LET L == [st.lineups EXCEPT ![m] = KeepStarted(st.lineups[m], at)]
    IN  [lineups |-> L, carried |-> [st.carried EXCEPT ![m] = Derived(L)[m]],
         result |-> [st.result EXCEPT ![m] = at]]

\* The write that moves a match out of scheduled (pinStartLineups): its pin is
\* worked out alone; a copy it moved back is followed.
Started(st, m, at) ==
    LET records == KeepStarted(st.lineups[m], at)
        pinned  == Live(st.lineups, m) = {}
        L       == [st.lineups EXCEPT ![m] = records]
    IN  [lineups |-> L,
         carried |-> IF pinned THEN [st.carried EXCEPT ![m] = Derived(L)[m]]
                     ELSE IF L # st.lineups THEN Derived(L) ELSE st.carried,
         result |-> [st.result EXCEPT ![m] = at]]

\* A later write of the match's result, a bout recorded among them.
Recorded(st, m, at) == [st EXCEPT !.result[m] = Max({@, at})]

Become(st) == lineups' = st.lineups /\ carried' = st.carried /\ result' = st.result
Unused == {s \in Stamp : landed[s] = NoChange}
Land(what, slot, f) ==
    landed' = [s \in Stamp |->
        IF \E p \in DOMAIN f : f[p] = s
        THEN [what |-> what, slot |-> slot, pos |-> {p \in DOMAIN f : f[p] = s}]
        ELSE landed[s]]
At(s) == [p \in Pos |-> s]
RecordedAfter(m, s) == \E t \in Stamp : t > s /\ landed[t].what = "record" /\ landed[t].slot = m

Init ==
    /\ lineups = [slot \in Slots |-> {}]
    /\ carried = [m \in Matches |-> Nobody]
    /\ result = [m \in Matches |-> 0]
    /\ landed = [s \in Stamp |-> NoChange]
    /\ overtaken = {}

Save(slot) ==
    \E ps \in SUBSET Pos \ {{}} : \E f \in [ps -> Unused] :
        /\ Become(Saved(Stored, slot, {<<p, f[p]>> : p \in ps}))
        /\ Land("save", slot, f)
        /\ UNCHANGED overtaken

TakeAway(slot) ==
    \E s \in Unused :
        /\ Become(Removed(Stored, slot, s))
        /\ Land("remove", slot, At(s))
        /\ overtaken' = overtaken \cup {m \in {slot} \ {Start} : RecordedAfter(m, s)}

StartMatch(m) ==
    /\ result[m] = 0
    /\ \E s \in Unused :
        /\ Become(Started(Stored, m, s))
        /\ Land("start", m, At(s))
        /\ UNCHANGED overtaken

Record(m) ==
    /\ result[m] > 0
    /\ \E s \in Unused :
        /\ s > result[m]
        /\ Become(Recorded(Stored, m, s))
        /\ Land("record", m, At(s))
        /\ UNCHANGED overtaken

\* A change of the log applied once more (by stamp), all of its stamp.
Apply(st, s, change) ==
    CASE change.what = "save"   -> Saved(st, change.slot, {<<p, s>> : p \in change.pos})
      [] change.what = "remove" -> Removed(st, change.slot, s)
      [] change.what = "start"  -> Started(st, change.slot, s)
      [] change.what = "record" -> Recorded(st, change.slot, s)
      [] OTHER -> st

\* A save or a removal sent again, its answer lost, to a server that no longer
\* remembers its writeId (writeOnce is kept in memory).
Resend ==
    \E s \in Stamp \ Unused :
        /\ landed[s].what \in {"save", "remove"}
        /\ Become(Apply(Stored, s, landed[s]))
        /\ overtaken' = overtaken \cup
              {m \in Matches : landed[s].what = "remove" /\ landed[s].slot = m /\ RecordedAfter(m, s)}
        /\ UNCHANGED landed

Next ==
    \/ \E slot \in Slots : Save(slot) \/ TakeAway(slot)
    \/ \E m \in Matches : StartMatch(m) \/ Record(m)
    \/ Resend

Spec == Init /\ [][Next]_vars

-----------------------------------------------------------------------------
(* What the lineups promise.                                               *)

\* At most one live lineup per slot, and every record and value in range.
TypeOK ==
    /\ \A slot \in Slots : \A r \in lineups[slot] :
        /\ {r.removed, r.copied, r.started} \subseteq 0..Stamps
        /\ r.own \subseteq Pos \X Stamp
    /\ \A slot \in Slots : Cardinality(Live(lineups, slot)) <= 1
    /\ carried \in [Matches -> [Pos -> 0..Stamps]]
    /\ result \in [Matches -> 0..Stamps]
    /\ overtaken \subseteq Matches

\* inForce: the lineup match m fields, from what is stored.
InForce(st, m) ==
    LET holds(k) == \E r \in Live(st.lineups, k) : k = m \/ ~IsStartPin(r)
        from == IF \E k \in 1..m : holds(k) THEN Max({k \in 1..m : holds(k)}) ELSE Start
        own(p) == UNION {StampsAt(r.own, p) : r \in Live(st.lineups, from)}
    IN  [p \in Pos |-> IF own(p) # {} THEN Max(own(p))
                       ELSE IF from = Start THEN 0 ELSE st.carried[from][p]]

Nothing == [lineups |-> [slot \in Slots |-> {}],
            carried |-> [m \in Matches |-> Nobody],
            result |-> [m \in Matches |-> 0]]
InStampOrder ==
    FoldLeft(LAMBDA st, s : Apply(st, s, landed[s]), Nothing, [s \in Stamp |-> s])
InOrderSoFar(m) == overtaken \cap 1..m = {}

\* Whatever order saves, removals and starts arrive in, and whichever arrive
\* twice, every match fields the lineup it would field had each arrived when it
\* was made.  (Not behind a removal that landed after a later result: the
\* snapshot it leaves is dated by that result, ConvergesAlways.)
Converges ==
    \A m \in Matches : InOrderSoFar(m) => InForce(Stored, m) = InForce(InStampOrder, m)

\* The same with no exception, as lineup_carry.go and keepSnapshotLineup say.
ConvergesAlways ==
    \A m \in Matches : InForce(Stored, m) = InForce(InStampOrder, m)

\* What a match's stored own lineup carries is what the carry rule says now: no
\* write that moves a lineup leaves one that carries from it behind.
FollowedEverywhere ==
    \A m \in Matches : InOrderSoFar(m) => carried[m] = Derived(lineups)[m]

\* A match's first own lineup, saved or kept at its start after every other
\* change, holds what was in force there at the positions the save left alone.
CarriesWhatWasInForce ==
    [][\A m \in Matches :
          LET new == Unused \ Unused'
              saved == {p \in Pos : \E s \in new : landed'[s].what = "save" /\ p \in landed'[s].pos}
          IN  /\ Live(lineups, m) = {} /\ Live(lineups', m) # {}
              /\ new # {} /\ \A s \in new : landed'[s].slot = m
              /\ \A s \in new, t \in Stamp \ Unused : t < s
              => \A p \in Pos \ saved : InForce(Stored, m)[p] = InForce(Stored, m)'[p]]_vars

\* The changes of a step leave what match m carries when they are of other
\* slots (of from) and no earlier than its lineup.
MadeAt(r) == IF IsStartPin(r) THEN r.started ELSE r.copied
LeavesAlone(from, m) ==
    \A r \in Live(lineups, m) :
        (\A s \in Unused \ Unused' : landed'[s].slot \in from \ {m} /\ s >= MadeAt(r))
            => carried'[m] = carried[m]

\* A change of the starting lineup, or of a match still scheduled, made after a
\* match's own lineup never reaches it, whenever it arrives.
QueuedNeverReachBack ==
    [][\A m \in Matches : overtaken' \cap 1..m = {} =>
            LeavesAlone({Start} \cup {k \in Matches : result'[k] = 0}, m)]_vars

\* A match's own lineup is what was in force when it was made, and stays it
\* (lineup_carry.go).
OwnLineupsStand == CarriesWhatWasInForce /\ QueuedNeverReachBack

\* The same of any match's lineup, as the carry rule says (lineup_carry.go: a
\* change made after it never is).  An edit of the lineup a running match
\* started with breaks it.
NeverReachBack == [][\A m \in Matches : LeavesAlone(Slots, m)]_vars
=============================================================================
