----------------------------- MODULE CourtQueue -----------------------------
(* The order matches wait in on a court, and the times the server gives a  *)
(* match that changes court.  mm maps each match to its status, court and  *)
(* time; one bout lasts one unit of time.                                   *)
EXTENDS Integers, Sequences, SequencesExt

CONSTANTS Matches,
          CompOf,       \* match -> its competition
          InPool,       \* the pool bouts; the others are knockout matches
          CourtSet,     \* the courts' names
          MaxTime,      \* the last minute of the day; 0 is the first
          Lunch         \* the minutes nothing is pushed into

ASSUME QueueAssumption == MaxTime \in Nat /\ InPool \subseteq Matches

NoTime == MaxTime + 1       \* an untimed match sorts after every timed one
NoBound == -1

Least(S) == CHOOSE t \in S : \A u \in S : t <= u
Greatest(S) == CHOOSE t \in S : \A u \in S : t >= u

-----------------------------------------------------------------------------
\* The waiting matches that bound the queue match m joins on court c.  A pool
\* bout's own knockout follows its pool phase anyway and is no bound.
QueueOn(mm, c, m) ==
  {n \in Matches \ {m} : /\ mm[n].court = c
                         /\ mm[n].status = "scheduled"
                         /\ m \in InPool => n \in InPool \/ CompOf[n] # CompOf[m]}

\* The earliest and the latest time among them; untimed when all are.
CourtQueueBounds(mm, c, m) ==
  LET all == {mm[n].time : n \in QueueOn(mm, c, m)}
      timed == all \ {NoTime}
  IN  IF timed # {} THEN [first |-> Least(timed), last |-> Greatest(timed)]
      ELSE IF all # {} THEN [first |-> NoTime, last |-> NoTime]
      ELSE [first |-> NoBound, last |-> NoBound]

\* A match sent back by its move goes first on the new court.
FirstInQueueTime(own, first) ==
  IF first \in {NoBound, NoTime} \/ own < first THEN own
  ELSE IF first = 0 THEN 0 ELSE first - 1

\* A waiting match goes last, and sinks with the untimed where all are.
LastInQueueTime(own, last) ==
  IF last = NoTime THEN NoTime
  ELSE IF last = NoBound \/ last < own THEN own
  ELSE IF last = MaxTime THEN last ELSE last + 1

MovedQueueTime(requeued, own, status, bounds) ==
  IF requeued THEN FirstInQueueTime(own, bounds.first)
  ELSE IF status = "scheduled" THEN LastInQueueTime(own, bounds.last)
  ELSE own

-----------------------------------------------------------------------------
\* The knockout moved past its pool phase.

\* The end of competition c's pool phase on a court: the end of its last timed
\* bout there, or of its last anywhere.  Nothing when no bout is timed.
PoolEnd(mm, c, court) ==
  LET bouts == {n \in InPool : CompOf[n] = c /\ mm[n].time # NoTime}
      here == {n \in bouts : mm[n].court = court}
      ends(S) == {mm[n].time + 1 : n \in S}
  IN  IF here # {} THEN {Greatest(ends(here))}
      ELSE IF bouts # {} THEN {Greatest(ends(bouts))}
      ELSE {}

PastLunch(t) ==
  IF t \in Lunch THEN CHOOSE u \in t..NoTime : /\ u \notin Lunch
                                               /\ t..(u - 1) \subseteq Lunch
  ELSE t

\* The times a court's knockout queue is pushed to, from the pool phase's end:
\* its order and gaps kept, past lunch, nothing carried over midnight.
PushedTimes(times, end) ==
  LET at[i \in 0..Len(times)] ==
        IF i = 0 THEN end - 1
        ELSE LET free == at[i - 1] + 1
                 t == IF times[i] < free THEN PastLunch(free) ELSE times[i]
             IN  IF t > MaxTime THEN MaxTime ELSE t
  IN  [i \in DOMAIN times |-> at[i]]

\* Competition c's knockout on each court, where it now runs into the pool
\* phase and none of it has started there.
PushKnockoutPastPools(mm, c) ==
  LET knockout(court) ==
        {n \in Matches \ InPool : CompOf[n] = c /\ mm[n].court = court}
      earlier(x, y) == mm[x].time < mm[y].time
      queue(court) ==
        SetToSortSeq({n \in knockout(court) : mm[n].time # NoTime}, earlier)
      pushed(court) ==
        LET q == queue(court)
            times == [i \in DOMAIN q |-> mm[q[i]].time]
        IN  IF /\ q # <<>>
               /\ \A n \in knockout(court) : mm[n].status = "scheduled"
               /\ \E end \in PoolEnd(mm, c, court) : times[1] < end
            THEN LET new == PushedTimes(times, Greatest(PoolEnd(mm, c, court)))
                 IN  [n \in ToSet(q) |-> new[CHOOSE i \in DOMAIN q : q[i] = n]]
            ELSE <<>>
  IN  [n \in Matches |->
         IF n \in DOMAIN pushed(mm[n].court) /\ n \in knockout(mm[n].court)
         THEN [mm[n] EXCEPT !.time = pushed(mm[n].court)[n]]
         ELSE mm[n]]
=============================================================================
