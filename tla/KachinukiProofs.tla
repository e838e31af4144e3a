--------------------------- MODULE KachinukiProofs ---------------------------
(***************************************************************************)
(* What the kachinuki run checks on one small encounter, for any lineups,  *)
(* any number of tablets and any budgets: the winner stays on, an advance  *)
(* that was worked out without the lock lands only where it belongs, and a *)
(* removal undoes the Record bout that appended the row and no other.      *)
(***************************************************************************)
EXTENDS Kachinuki, WellFoundedInduction, TLAPS

Cards == {"running", "scheduled", "completed"}
Encounter == [status : Cards, verdict : Outcomes \cup {"none"}, rows : Seq(Row), ver : Nat]
Deals == [Sides -> Seq(Fighters) \ {<<>>}]

At(p, s) == IF s = "a" THEN p[1] ELSE p[2]

\* Pairing p may follow a log: PairingFitsTheLog of what was read.
FitsAfter(rows, p) ==
  LET last == rows[Len(rows)] IN
  /\ last.out # "none"
  /\ \A s \in Sides :
       \/ last.out = s /\ At(p, s) = last[s]
       \/ last.out # s /\ At(p, s) \notin Retired(rows, s)
       \/ last.out = "draw" /\ At(p, s) = last[s] /\ At(p, Other(s)) \notin Retired(rows, Other(s))

\* What an advance is about to write fits the log it read.
PickOf(r) == /\ r.snap \in Snapshot /\ r.snap.log # <<>>
             /\ r.pick # <<>> => r.pick \in Fighters \X Fighters /\ FitsAfter(r.snap.log, r.pick)
PickFits == \A d \in Devices : req[d].phase = "write" => PickOf(req[d])

\* The folded history says of a row what the row remembers of its advance, and
\* of the places past the log that nobody put a row there.
Owned ==
  /\ \A k \in 1..LastBout : Rows[k].owns <=> creator[k] = "advance"
  /\ match.status # "completed" => \A k \in Positions : k > LastBout => creator[k] = "none"

\* Every row but an unscored last one cost a tap.
Open(rows) == rows # <<>> /\ rows[Len(rows)].out = "none"
Bounded == LastBout + left["taps"] <= MaxBouts - 1 + (IF Open(Rows) THEN 1 ELSE 0)

\* An advance that still has to read or write has an attempt left.
Trying ==
  \A d \in Devices : req[d].phase \in {"out", "read", "write"} => req[d].tries < KachinukiAdvanceAttempts

Asks == [phase : {"idle", "out", "read", "write", "done"},
         pos : Nat, logged : BOOLEAN, tries : 0..KachinukiAdvanceAttempts,
         snap : {<<>>} \cup Snapshot, pick : {<<>>} \cup Fighters \X Fighters]

Inv == TypeOK /\ WinnerStaysOn /\ PickFits /\ Owned /\ Bounded /\ Trying

-----------------------------------------------------------------------------
\* The least-number principle, of a set.
LEMMA Least == ASSUME NEW T \in SUBSET Nat, T # {} PROVE \E x \in T : \A y \in T : x <= y
<1> DEFINE R == OpToRel(<, Nat)
<1>1. IsWellFoundedOn(R, Nat)
  BY NatLessThanWellFounded
<1>2. \A x \in Nat, y \in Nat : <<y, x>> \in R <=> y < x
  BY DEF OpToRel
<1> HIDE DEF R
<1>3. \E x \in T : \A y \in T : ~ (<<y, x>> \in R)
  BY <1>1, WFMin
<1>4. PICK x \in T : \A y \in T : ~ (<<y, x>> \in R)
  BY <1>3
<1>5. \A y \in T : x \in Nat /\ y \in Nat /\ ~ (y < x)
  BY <1>2, <1>4
<1>6. \A a \in Nat, b \in Nat : ~(a < b) => b <= a
  OBVIOUS
<1> QED BY <1>5, <1>6

\* So a set of places in a sequence has a last one.
LEMMA Greatest == ASSUME NEW n \in Nat, NEW T \in SUBSET (1..n), T # {} PROVE \E x \in T : \A y \in T : y <= x
<1> DEFINE D == {n - k : k \in T}
<1>1. D \in SUBSET Nat /\ D # {}
  <2>1. \A k \in T : n - k \in Nat /\ n - k \in D
    OBVIOUS
  <2> QED BY <2>1
<1>2. PICK x \in D : \A y \in D : x <= y
  BY <1>1, Least
<1>3. PICK k \in T : x = n - k
  BY <1>2
<1>4. \A y \in T : n - k <= n - y
  BY <1>2, <1>3
<1> QED BY <1>3, <1>4

-----------------------------------------------------------------------------
\* Row q is row r with, at most, another fighter.
Kept(r, q) == /\ q \in Row
              /\ q.out = r.out /\ q.rec = r.rec /\ q.asked = r.asked /\ q.on = r.on /\ q.owns = r.owns

\* Putting a fighter on one side of a row leaves the rest of it.
LEMMA RowTaken == ASSUME NEW r \in Row, NEW s \in Sides, NEW f \in Fighters
                  PROVE  LET q == [r EXCEPT ![s] = f] IN
                         Kept(r, q) /\ q[s] = f /\ \A t \in Sides : t # s => q[t] = r[t]
<1> DEFINE q == [r EXCEPT ![s] = f]
<1>1. CASE s = "a"
  <2>1. q = [r EXCEPT !.a = f]
    BY <1>1
  <2>2. q \in Row /\ q.out = r.out /\ q.rec = r.rec /\ q.asked = r.asked /\ q.on = r.on /\ q.owns = r.owns
    BY <2>1 DEF Row
  <2>3. q["a"] = f /\ q["b"] = r["b"]
    BY <2>1 DEF Row
  <2> QED BY <1>1, <2>2, <2>3 DEF Kept, Sides
<1>2. CASE s = "b"
  <2>1. q = [r EXCEPT !.b = f]
    BY <1>2
  <2>2. q \in Row /\ q.out = r.out /\ q.rec = r.rec /\ q.asked = r.asked /\ q.on = r.on /\ q.owns = r.owns
    BY <2>1 DEF Row
  <2>3. q["b"] = f /\ q["a"] = r["a"]
    BY <2>1 DEF Row
  <2> QED BY <1>2, <2>2, <2>3 DEF Kept, Sides
<1> QED BY <1>1, <1>2 DEF Sides

\* A streak renamed: each of its bouts has the lineup's first fighter on side s.
LEMMA Renamed ==
  ASSUME NEW rows \in Seq(Row), NEW s \in Sides, NEW lu \in [Sides -> Seq(Fighters) \ {<<>>}]
  PROVE  LET new == RenameStreak(rows, s, lu) IN
         /\ new \in Seq(Row) /\ Len(new) = Len(rows)
         /\ \A k \in 1..Len(rows) : /\ Kept(rows[k], new[k])
                                    /\ \A t \in Sides : t # s \/ k \notin StreakOf(rows, s) => new[k][t] = rows[k][t]
                                    /\ k \in StreakOf(rows, s) => new[k][s] = Head(lu[s])
<1> DEFINE new == RenameStreak(rows, s, lu)
<1>1. Head(lu[s]) \in Fighters
  BY DEF Sides
<1>0. DOMAIN rows = 1..Len(rows)
  OBVIOUS
<1>2. /\ DOMAIN new = 1..Len(rows)
      /\ \A k \in 1..Len(rows) : new[k] = IF k \in StreakOf(rows, s) THEN [rows[k] EXCEPT ![s] = Head(lu[s])] ELSE rows[k]
  BY <1>0, Zenon DEF RenameStreak
<1>3. \A k \in 1..Len(rows) : rows[k] \in Row
  OBVIOUS
<1>4. ASSUME NEW k \in 1..Len(rows)
      PROVE  /\ Kept(rows[k], new[k])
             /\ \A t \in Sides : t # s \/ k \notin StreakOf(rows, s) => new[k][t] = rows[k][t]
             /\ k \in StreakOf(rows, s) => new[k][s] = Head(lu[s])
  <2>1. CASE k \in StreakOf(rows, s)
    <3>1. new[k] = [rows[k] EXCEPT ![s] = Head(lu[s])]
      BY <1>2, <2>1
    <3>2. Kept(rows[k], new[k]) /\ new[k][s] = Head(lu[s]) /\ \A t \in Sides : t # s => new[k][t] = rows[k][t]
      BY <1>1, <1>3, <3>1, RowTaken
    <3> QED BY <2>1, <3>2
  <2>2. CASE k \notin StreakOf(rows, s)
    BY <1>2, <1>3, <2>2 DEF Kept
  <2> QED BY <2>1, <2>2
<1>5. new \in Seq(Row) /\ Len(new) = Len(rows)
  <2>1. \A k \in 1..Len(rows) : new[k] \in Row
    BY <1>4 DEF Kept
  <2>2. new = [k \in 1..Len(rows) |-> new[k]]
    BY <1>2 DEF RenameStreak
  <2> HIDE DEF new
  <2> QED BY <1>2, <2>1, <2>2
<1> HIDE DEF new
<1> QED BY <1>4, <1>5 DEF new

\* WinnerStaysOn of any log.
StaysOn(rows) ==
  \A k \in 1..Len(rows) - 1 :
    rows[k + 1].on => \A s \in Sides : rows[k].out = s => rows[k + 1][s] = rows[k][s]

\* A bout that follows one of the streak's won bouts is of the streak, so the
\* renaming of a side reaches both or neither (openerSeatEvents).
LEMMA RenamedStaysOn ==
  ASSUME NEW rows \in Seq(Row), NEW s \in Sides, NEW lu \in [Sides -> Seq(Fighters) \ {<<>>}], StaysOn(rows)
  PROVE  StaysOn(RenameStreak(rows, s, lu))
<1> DEFINE new == RenameStreak(rows, s, lu)
<1>1. /\ Len(new) = Len(rows)
      /\ \A k \in 1..Len(rows) : /\ Kept(rows[k], new[k])
                                 /\ \A t \in Sides : t # s \/ k \notin StreakOf(rows, s) => new[k][t] = rows[k][t]
                                 /\ k \in StreakOf(rows, s) => new[k][s] = Head(lu[s])
  BY Renamed
<1> HIDE DEF new
<1> SUFFICES ASSUME NEW k \in 1..Len(rows) - 1, rows[k + 1].on, NEW t \in Sides, rows[k].out = t
             PROVE  new[k + 1][t] = new[k][t]
  BY <1>1 DEF StaysOn, new, Kept
<1>2. rows[k + 1][t] = rows[k][t]
  BY DEF StaysOn
<1>3. CASE t # s
  BY <1>1, <1>2, <1>3
<1>4. CASE t = s
  <2>1. k + 1 \in StreakOf(rows, s) <=> k \in StreakOf(rows, s)
    <3>1. DOMAIN rows = 1..Len(rows)
      OBVIOUS
    <3>2. \A j \in 1..Len(rows) : j \in StreakOf(rows, s) <=>
            \A i \in 1..j : rows[i][s] = rows[1][s] /\ (i < j => rows[i].out = s)
      BY <3>1 DEF StreakOf
    <3> QED BY <3>2, <1>2, <1>4, SMTT(30)
  <2> QED BY <1>1, <1>2, <1>4, <2>1
<1> QED BY <1>3, <1>4

\* Both sides seated: the same rows, marks and results, and the winner still on.
LEMMA Seated ==
  ASSUME NEW rows \in Seq(Row), NEW lu \in Deals
  PROVE  LET new == SeatOpener(rows, lu) IN
         /\ new \in Seq(Row) /\ Len(new) = Len(rows)
         /\ \A k \in 1..Len(rows) : Kept(rows[k], new[k])
         /\ StaysOn(rows) => StaysOn(new)
<1> DEFINE mid == RenameStreak(rows, "a", lu)
           new == RenameStreak(mid, "b", lu)
<1>0. "a" \in Sides /\ "b" \in Sides
  BY DEF Sides
<1>1. /\ mid \in Seq(Row) /\ Len(mid) = Len(rows)
      /\ \A k \in 1..Len(rows) : Kept(rows[k], mid[k])
      /\ StaysOn(rows) => StaysOn(mid)
  BY <1>0, Renamed, RenamedStaysOn DEF Deals
<1> HIDE DEF mid
<1>2. /\ new \in Seq(Row) /\ Len(new) = Len(mid)
      /\ \A k \in 1..Len(mid) : Kept(mid[k], new[k])
      /\ StaysOn(mid) => StaysOn(new)
  BY <1>0, <1>1, Renamed, RenamedStaysOn DEF Deals
<1>3. new = SeatOpener(rows, lu)
  BY DEF SeatOpener, mid
<1> HIDE DEF new
<1>4. \A k \in 1..Len(rows) : Kept(rows[k], new[k])
  BY <1>1, <1>2 DEF Kept
<1> QED BY <1>1, <1>2, <1>3, <1>4

\* A tap sets one result, and the row after it no longer follows from it.
LEMMA Tapped ==
  ASSUME NEW rows \in Seq(Row), NEW k \in 1..Len(rows), NEW o \in Outcomes \cup {"none"}
  PROVE  LET new == SetResult(rows, k, o) IN
         /\ new \in Seq(Row) /\ Len(new) = Len(rows)
         /\ \A i \in 1..Len(rows) : new[i].owns = rows[i].owns
         /\ new[k].out = o /\ \A i \in 1..Len(rows) : i # k => new[i].out = rows[i].out
         /\ StaysOn(rows) => StaysOn(new)
<1> DEFINE new == SetResult(rows, k, o)
           first == [Overtaken(rows[k]) EXCEPT !.out = o, !.rec = FALSE]
           after(i) == [rows[i] EXCEPT !.on = FALSE]
<1>0. DOMAIN rows = 1..Len(rows) /\ \A i \in 1..Len(rows) : rows[i] \in Row
  OBVIOUS
<1>1. DOMAIN new = 1..Len(rows) /\ new[k] = first
      /\ \A i \in 1..Len(rows) : i # k => new[i] = IF i = k + 1 THEN after(i) ELSE rows[i]
  BY <1>0 DEF SetResult
<1>2. /\ first \in Row /\ first.out = o /\ first.owns = rows[k].owns /\ first.on = rows[k].on
      /\ first.a = rows[k].a /\ first.b = rows[k].b
  BY <1>0 DEF Overtaken, Row
<1>3. \A i \in 1..Len(rows) : /\ after(i) \in Row /\ after(i).out = rows[i].out /\ after(i).owns = rows[i].owns
                              /\ after(i).on = FALSE /\ after(i).a = rows[i].a /\ after(i).b = rows[i].b
  BY <1>0 DEF Row
<1> HIDE DEF first, after
<1>5. \A i \in 1..Len(rows) : new[i] \in Row
  BY <1>0, <1>1, <1>2, <1>3
<1>6. new \in Seq(Row) /\ Len(new) = Len(rows)
  <2>1. new = [i \in 1..Len(rows) |-> new[i]]
    BY <1>0 DEF SetResult
  <2> HIDE DEF new
  <2> QED BY <1>5, <2>1
<1> HIDE DEF new
<1>7. \A i \in 1..Len(rows) : /\ new[i].owns = rows[i].owns /\ (new[i].on => rows[i].on /\ i # k + 1)
                              /\ new[i].a = rows[i].a /\ new[i].b = rows[i].b
  BY <1>1, <1>2, <1>3
<1>8. new[k].out = o /\ \A i \in 1..Len(rows) : i # k => new[i].out = rows[i].out
  BY <1>1, <1>2, <1>3
<1>9. StaysOn(rows) => StaysOn(new)
  BY <1>6, <1>7, <1>8 DEF StaysOn, Sides
<1> QED BY <1>6, <1>7, <1>8, <1>9 DEF new

\* What the store holds of a row.
LEMMA LogIs ==
  ASSUME NEW rows \in Seq(Row)
  PROVE  /\ Log(rows) \in Seq(LogRow) /\ Len(Log(rows)) = Len(rows)
         /\ \A k \in 1..Len(rows) : /\ Log(rows)[k].out = rows[k].out /\ Log(rows)[k].rec = rows[k].rec
                                    /\ \A s \in Sides : Log(rows)[k][s] = rows[k][s]
         /\ \A s \in Sides : Retired(Log(rows), s) = Retired(rows, s)
<1>0. DOMAIN rows = 1..Len(rows) /\ \A i \in 1..Len(rows) : rows[i] \in Row
  OBVIOUS
<1>1. Log(rows) = [k \in 1..Len(rows) |-> [a |-> rows[k].a, b |-> rows[k].b, out |-> rows[k].out, rec |-> rows[k].rec]]
  BY <1>0 DEF Log
<1>2. \A k \in 1..Len(rows) : Log(rows)[k] \in LogRow
  BY <1>0, <1>1 DEF LogRow, Row
<1>3. Log(rows) \in Seq(LogRow) /\ Len(Log(rows)) = Len(rows) /\ DOMAIN Log(rows) = 1..Len(rows)
  BY <1>1, <1>2
<1>4. \A k \in 1..Len(rows) : /\ Log(rows)[k].out = rows[k].out /\ Log(rows)[k].rec = rows[k].rec
                              /\ Log(rows)[k]["a"] = rows[k]["a"] /\ Log(rows)[k]["b"] = rows[k]["b"]
  BY <1>1
<1>5. ASSUME NEW s \in Sides PROVE Retired(Log(rows), s) = Retired(rows, s)
  <2>1. \A k \in 1..Len(rows) : Log(rows)[k][s] = rows[k][s]
    BY <1>4 DEF Sides
  <2> QED BY <1>0, <1>3, <1>4, <2>1 DEF Retired
<1> QED BY <1>3, <1>4, <1>5 DEF Sides

-----------------------------------------------------------------------------
\* A fighter the advance fields is the one who stayed on, one the log has not
\* retired, or the one who drew and has nobody behind.
LEMMA Fielded ==
  ASSUME TypeOK, Rows # <<>>, NEW s \in Sides, Fields(Rows, s) # <<>>
  PROVE  LET last == Rows[LastBout]
             f == Fields(Rows, s)[1]
         IN  /\ f \in Fighters
             /\ \/ last.out = s /\ f = last[s]
                \/ last.out # s /\ f \notin Retired(Rows, s)
                \/ last.out = "draw" /\ f = last[s] /\ Remaining(Rows, Other(s)) # {}
             /\ last.out # s /\ Remaining(Rows, s) # {} => f \notin Retired(Rows, s)
<1> DEFINE last == Rows[LastBout]
           next == Remaining(Rows, s)
<1>1. last \in Row /\ last[s] \in Fighters
  <2>1. Rows \in Seq(Row)
    BY DEF TypeOK, Rows
  <2>2. last \in Row
    BY <2>1 DEF LastBout
  <2> QED BY <2>2 DEF Row, Sides
<1>2. lineup[s] \in Seq(Fighters)
  BY DEF TypeOK
<1>3. next # {} => Foremost(next) \in next
  <2>1. next \in SUBSET Nat
    BY <1>2 DEF Remaining
  <2> HIDE DEF next
  <2>2. next # {} => \E i \in next : \A j \in next : i <= j
    BY <2>1, Least
  <2> QED BY <2>2 DEF Foremost
<1>4. \A i \in next : lineup[s][i] \in Fighters /\ lineup[s][i] \notin Retired(Rows, s)
  BY <1>2 DEF Remaining
<1> HIDE DEF next
<1>5. Fields(Rows, s) = IF last.out = s THEN <<last[s]>>
                        ELSE IF next # {} THEN <<lineup[s][Foremost(next)]>>
                        ELSE IF last.out = "draw" /\ Remaining(Rows, Other(s)) # {} THEN <<last[s]>>
                        ELSE <<>>
  BY DEF Fields, next, LastBout
<1> HIDE DEF last
<1>6. CASE last.out = s
  BY <1>1, <1>5, <1>6 DEF last
<1>7. CASE last.out # s /\ next # {}
  BY <1>3, <1>4, <1>5, <1>7 DEF last
<1>8. CASE last.out # s /\ next = {}
  BY <1>1, <1>5, <1>8 DEF last, next
<1> QED BY <1>6, <1>7, <1>8

\* So the pairing worked out of a log fits that log, as the store keeps it.
LEMMA PairingFits ==
  ASSUME TypeOK, Rows # <<>>, Rows[LastBout].out # "none", AdvanceKachinuki(Rows) # <<>>
  PROVE  /\ AdvanceKachinuki(Rows) \in Fighters \X Fighters
         /\ FitsAfter(Log(Rows), AdvanceKachinuki(Rows))
<1> DEFINE fa == Fields(Rows, "a")
           fb == Fields(Rows, "b")
           p == AdvanceKachinuki(Rows)
           last == Rows[LastBout]
<1>0. "a" \in Sides /\ "b" \in Sides /\ Other("a") = "b" /\ Other("b") = "a" /\ "draw" \notin Sides
  BY DEF Sides, Other
<1>1. fa # <<>> /\ fb # <<>> /\ p = <<fa[1], fb[1]>>
  BY DEF AdvanceKachinuki
<1>2. /\ fa[1] \in Fighters
      /\ \/ last.out = "a" /\ fa[1] = last["a"]
         \/ last.out # "a" /\ fa[1] \notin Retired(Rows, "a")
         \/ last.out = "draw" /\ fa[1] = last["a"] /\ Remaining(Rows, "b") # {}
      /\ last.out # "a" /\ Remaining(Rows, "a") # {} => fa[1] \notin Retired(Rows, "a")
  BY <1>0, <1>1, Fielded
<1>3. /\ fb[1] \in Fighters
      /\ \/ last.out = "b" /\ fb[1] = last["b"]
         \/ last.out # "b" /\ fb[1] \notin Retired(Rows, "b")
         \/ last.out = "draw" /\ fb[1] = last["b"] /\ Remaining(Rows, "a") # {}
      /\ last.out # "b" /\ Remaining(Rows, "b") # {} => fb[1] \notin Retired(Rows, "b")
  BY <1>0, <1>1, Fielded
<1> HIDE DEF fa, fb, p, last
<1>4. At(p, "a") = fa[1] /\ At(p, "b") = fb[1] /\ p \in Fighters \X Fighters
  BY <1>1, <1>2, <1>3 DEF At
<1>5. Rows \in Seq(Row) /\ LastBout \in 1..Len(Rows) /\ LastBout = Len(Rows)
  BY DEF TypeOK, Rows, LastBout, Encounter
<1>6. /\ Len(Log(Rows)) = LastBout /\ Log(Rows)[LastBout].out = last.out
      /\ \A s \in Sides : Log(Rows)[LastBout][s] = last[s] /\ Retired(Log(Rows), s) = Retired(Rows, s)
  BY <1>5, LogIs DEF last
<1>7. ASSUME NEW s \in Sides
      PROVE  \/ last.out = s /\ At(p, s) = last[s]
             \/ last.out # s /\ At(p, s) \notin Retired(Rows, s)
             \/ last.out = "draw" /\ At(p, s) = last[s] /\ At(p, Other(s)) \notin Retired(Rows, Other(s))
  BY <1>0, <1>2, <1>3, <1>4 DEF Sides
<1>8. FitsAfter(Log(Rows), p)
  <2>1. last.out # "none"
    BY DEF last
  <2>2. \A s \in Sides : Other(s) \in Sides
    BY DEF Other, Sides
  <2> QED BY <1>6, <1>7, <2>1, <2>2 DEF FitsAfter
<1> QED BY <1>4, <1>8 DEF p

-----------------------------------------------------------------------------
\* The parts of TypeOK the steps use.
LEMMA Typed == TypeOK <=>
  /\ match \in Encounter /\ (match.status = "completed" <=> match.verdict # "none")
  /\ LastBout <= MaxBouts
  /\ lineup \in Deals
  /\ creator \in [Positions -> Room]
  /\ req \in [Devices -> Asks]
  /\ left \in [{"taps", "records", "others"} -> Nat]
  /\ stoodDown \subseteq 1..KachinukiAdvanceAttempts
  BY DEF TypeOK, Encounter, Deals, Cards, Asks

LEMMA RowsTyped == ASSUME TypeOK PROVE Rows \in Seq(Row) /\ LastBout = Len(Rows) /\ LastBout \in Nat
  BY DEF TypeOK, Rows, LastBout

\* A write stores what it was given under a newer stamp.
LEMMA StoredIs ==
  ASSUME match \in Encounter, NEW m \in Encounter, Stored(m)
  PROVE  /\ match' \in Encounter /\ match'.rows = m.rows /\ match'.status = m.status
         /\ match'.verdict = m.verdict /\ match'.ver = match.ver + 1
  BY DEF Stored, Encounter

\* A new row, on the tablets' word or the advance's.
LEMMA NewRowIs ==
  ASSUME NEW p \in Fighters \X Fighters, NEW on \in BOOLEAN, NEW owns \in BOOLEAN
  PROVE  LET r == NewRow(p, on, owns) IN
         /\ r \in Row /\ r.out = "none" /\ r.on = on /\ r.owns = owns
         /\ \A s \in Sides : r[s] = At(p, s)
<1> DEFINE r == NewRow(p, on, owns)
<1>1. r \in Row /\ r.out = "none" /\ r.on = on /\ r.owns = owns
  BY DEF NewRow, Row
<1>2. r["a"] = p[1] /\ r["b"] = p[2]
  BY DEF NewRow
<1> HIDE DEF r
<1>3. \A s \in Sides : r[s] = At(p, s)
  BY <1>2 DEF At, Sides
<1> QED BY <1>1, <1>3 DEF r

\* A spent budget.
LEMMA SpendIs ==
  ASSUME left \in [{"taps", "records", "others"} -> Nat], NEW what \in {"taps", "records", "others"}, Spend(what)
  PROVE  /\ left' \in [{"taps", "records", "others"} -> Nat]
         /\ left'["taps"] = IF what = "taps" THEN left["taps"] - 1 ELSE left["taps"]
  BY DEF Spend

\* Changing what a row remembers changes nothing the pairings are about.
Alike(r, q) == /\ q \in Row /\ q.out = r.out /\ q.on = r.on /\ q.owns = r.owns
               /\ \A s \in Sides : q[s] = r[s]
With(rows, k, r) == [rows EXCEPT ![k] = r]
LEMMA Noted ==
  ASSUME NEW rows \in Seq(Row), NEW k \in 1..Len(rows), NEW r \in Row, Alike(rows[k], r)
  PROVE  LET new == With(rows, k, r) IN
         /\ new \in Seq(Row) /\ Len(new) = Len(rows)
         /\ \A i \in 1..Len(rows) : new[i].out = rows[i].out /\ new[i].owns = rows[i].owns
                                    /\ \A s \in Sides : new[i][s] = rows[i][s]
         /\ StaysOn(rows) => StaysOn(new)
<1> DEFINE new == With(rows, k, r)
<1>1. new \in Seq(Row) /\ Len(new) = Len(rows)
  BY DEF With
<1>2. \A i \in 1..Len(rows) : new[i] = IF i = k THEN r ELSE rows[i]
  BY DEF With
<1> HIDE DEF new
<1>3. \A i \in 1..Len(rows) : /\ new[i].out = rows[i].out /\ new[i].owns = rows[i].owns /\ new[i].on = rows[i].on
                              /\ \A s \in Sides : new[i][s] = rows[i][s]
  BY <1>2 DEF Alike
<1>4. StaysOn(rows) => StaysOn(new)
  <2> SUFFICES ASSUME StaysOn(rows), NEW i \in 1..Len(new) - 1, new[i + 1].on, NEW s \in Sides, new[i].out = s
               PROVE  new[i + 1][s] = new[i][s]
    BY DEF StaysOn
  <2>1. i \in 1..Len(rows) - 1 /\ i \in 1..Len(rows) /\ i + 1 \in 1..Len(rows)
    BY <1>1
  <2>2. rows[i + 1].on /\ rows[i].out = s
    BY <1>3, <2>1
  <2>3. rows[i + 1][s] = rows[i][s]
    BY <2>1, <2>2 DEF StaysOn
  <2> QED BY <1>3, <2>1, <2>3
<1> QED BY <1>1, <1>3, <1>4 DEF new

\* A row put at the end by an advance has the winner of the row before it.
LEMMA Put ==
  ASSUME NEW rows \in Seq(Row), rows # <<>>, StaysOn(rows), NEW r \in Row,
         r.on => \A s \in Sides : rows[Len(rows)].out = s => r[s] = rows[Len(rows)][s]
  PROVE  LET new == Append(rows, r) IN
         /\ new \in Seq(Row) /\ Len(new) = Len(rows) + 1 /\ new[Len(rows) + 1] = r
         /\ \A i \in 1..Len(rows) : new[i] = rows[i]
         /\ StaysOn(new)
<1> DEFINE new == Append(rows, r)
<1>1. /\ new \in Seq(Row) /\ Len(new) = Len(rows) + 1 /\ new[Len(rows) + 1] = r
      /\ \A i \in 1..Len(rows) : new[i] = rows[i]
  OBVIOUS
<1> HIDE DEF new
<1>2. Len(rows) \in Nat /\ Len(rows) > 0
  OBVIOUS
<1>3. ASSUME NEW i \in 1..Len(new) - 1, new[i + 1].on, NEW s \in Sides, new[i].out = s PROVE new[i + 1][s] = new[i][s]
  <2>1. CASE i = Len(rows)
    BY <1>1, <1>2, <1>3, <2>1
  <2>2. CASE i # Len(rows)
    <3>1. i \in 1..Len(rows) - 1 /\ new[i] = rows[i] /\ new[i + 1] = rows[i + 1]
      BY <1>1, <1>2, <2>2
    <3> QED BY <1>3, <3>1 DEF StaysOn
  <2> QED BY <2>1, <2>2
<1>4. StaysOn(new)
  BY <1>3 DEF StaysOn
<1> QED BY <1>1, <1>4 DEF new

\* A log cut after a row.
LEMMA Cut ==
  ASSUME NEW rows \in Seq(Row), NEW k \in 0..Len(rows)
  PROVE  LET new == SubSeq(rows, 1, k) IN
         /\ new \in Seq(Row) /\ Len(new) = k /\ \A i \in 1..k : new[i] = rows[i]
         /\ StaysOn(rows) => StaysOn(new)
<1> DEFINE new == SubSeq(rows, 1, k)
<1>1. new \in Seq(Row) /\ Len(new) = k /\ \A i \in 1..k : new[i] = rows[i]
  OBVIOUS
<1> HIDE DEF new
<1>2. StaysOn(rows) => StaysOn(new)
  <2> SUFFICES ASSUME StaysOn(rows), NEW i \in 1..k - 1 PROVE
         new[i + 1].on => \A s \in Sides : new[i].out = s => new[i + 1][s] = new[i][s]
    BY <1>1 DEF StaysOn
  <2>1. i \in 1..Len(rows) - 1 /\ new[i] = rows[i] /\ new[i + 1] = rows[i + 1]
    BY <1>1
  <2> QED BY <2>1 DEF StaysOn
<1> QED BY <1>1, <1>2 DEF new

\* What the end of a match keeps: the log up to its last scored bout.
LEMMA Stripped ==
  ASSUME NEW rows \in Seq(Row), NEW k \in 1..Len(rows), rows[k].out # "none"
  PROVE  \E n \in 1..Len(rows) : StripTrailing(rows) = SubSeq(rows, 1, n) /\ rows[n].out # "none"
<1> DEFINE scored == {i \in DOMAIN rows : rows[i].out # "none"}
           n == CHOOSE i \in scored : \A j \in scored : j <= i
<1>1. scored \in SUBSET (1..Len(rows)) /\ scored # {} /\ Len(rows) \in Nat
  OBVIOUS
<1> HIDE DEF scored
<1>2. \E i \in scored : \A j \in scored : j <= i
  BY <1>1, Greatest
<1>3. n \in scored
  BY <1>2
<1>4. StripTrailing(rows) = SubSeq(rows, 1, n)
  BY DEF StripTrailing, scored
<1> HIDE DEF n
<1> QED BY <1>1, <1>3, <1>4 DEF scored

-----------------------------------------------------------------------------
\* Rows changed by a door that is not the advance's keep what they remember.
LEMMA OtherDoor ==
  ASSUME Inv, NEW rows \in Seq(Row), Rows' = rows, Applied(rows, "other"), match'.status = match.status,
         LastBout <= Len(rows), Len(rows) <= MaxBouts, match.status # "completed" \/ Len(rows) = LastBout,
         \A k \in 1..LastBout : rows[k].owns = Rows[k].owns,
         \A k \in 1..Len(rows) : k > LastBout => rows[k].owns = FALSE
  PROVE  Owned' /\ creator' \in [Positions -> Room]
<1>1. Rows \in Seq(Row) /\ LastBout = Len(Rows) /\ creator \in [Positions -> Room] /\ DOMAIN rows = 1..Len(rows)
      /\ LastBout' = Len(rows) /\ MaxBouts \in Nat
  BY RowsTyped, BudgetAssumption DEF Inv, TypeOK, LastBout
<1>2. creator' \in [Positions -> Room] /\ \A k \in Positions : creator'[k] \in {"other", creator[k]}
                                                              /\ (creator'[k] # creator[k] => creator[k] = "none")
  BY <1>1 DEF Applied, Room
<1>3. \A k \in Positions : k > Len(rows) => creator'[k] = creator[k]
  BY <1>1 DEF Applied
<1>4. \A k \in 1..LastBout : Rows[k].owns <=> creator[k] = "advance"
  BY DEF Inv, Owned
<1>5. match.status # "completed" => \A k \in Positions : k > LastBout => creator[k] = "none"
  BY DEF Inv, Owned
<1>6. ASSUME NEW k \in 1..Len(rows) PROVE rows[k].owns <=> creator'[k] = "advance"
  <2>0. k \in Positions
    BY <1>1 DEF Positions
  <2>1. CASE k <= LastBout
    BY <1>1, <1>2, <1>4, <2>0, <2>1
  <2>2. CASE k > LastBout
    BY <1>1, <1>2, <1>5, <2>0, <2>2
  <2> QED BY <1>1, <2>1, <2>2
<1>7. match'.status # "completed" => \A k \in Positions : k > Len(rows) => creator'[k] = "none"
  BY <1>1, <1>3, <1>5 DEF Positions
<1> QED BY <1>1, <1>2, <1>6, <1>7 DEF Owned

\* Steps that leave the requests alone keep what these are about.
LEMMA SameReqs == ASSUME Inv, req' = req PROVE PickFits' /\ Trying'
  BY DEF Inv, PickFits, Trying

\* A step of one device's request.
LEMMA ReqGoes ==
  ASSUME Inv, NEW d \in Devices, NEW r \in Asks, req' = [req EXCEPT ![d] = r],
         r.phase = "write" => PickOf(r),
         r.phase \in {"out", "read", "write"} => r.tries < KachinukiAdvanceAttempts
  PROVE  req' \in [Devices -> Asks] /\ PickFits' /\ Trying'
<1>1. req \in [Devices -> Asks]
  BY Typed DEF Inv
<1>2. \A e \in Devices : req'[e] = IF e = d THEN r ELSE req[e]
  BY <1>1
<1> QED BY <1>1, <1>2 DEF Inv, PickFits, Trying

\* The parts that are about the rows, when they and the budget are left alone.
LEMMA SameRows ==
  ASSUME Inv, Rows' = Rows, left'["taps"] = left["taps"]
  PROVE  WinnerStaysOn' /\ Bounded'
<1>1. LastBout' = LastBout
  BY DEF LastBout
<1> QED BY <1>1 DEF Inv, WinnerStaysOn, Bounded, Open

LEMMA Room4One == ASSUME Inv, ~Open(Rows) PROVE LastBout + 1 <= MaxBouts /\ LastBout + 1 \in Positions
<1>1. LastBout \in Nat /\ left["taps"] \in Nat /\ MaxBouts \in Nat \ {0}
  BY RowsTyped, BudgetAssumption DEF Inv, TypeOK
<1>2. LastBout + left["taps"] <= MaxBouts - 1
  BY <1>1 DEF Inv, Bounded
<1> QED BY <1>1, <1>2 DEF Positions

\* A tap.
LEMMA TapStep == ASSUME Inv, NEW k \in Positions, NEW o \in Outcomes \cup {"none"}, Tap(k, o) PROVE Inv'
<1> DEFINE held == IF Rows = <<>> THEN <<NewRow(<<Head(lineup["a"]), Head(lineup["b"])>>, FALSE, FALSE)>> ELSE Rows
           set == SetResult(held, k, o)
           rows == SeatOpener(set, lineup)
<1>0. /\ Rows \in Seq(Row) /\ LastBout = Len(Rows) /\ LastBout \in Nat /\ match \in Encounter /\ lineup \in Deals
      /\ left \in [{"taps", "records", "others"} -> Nat] /\ StaysOn(Rows) /\ Rows = match.rows
      /\ LastBout <= MaxBouts /\ MaxBouts \in Nat /\ MaxBouts > 0
  BY RowsTyped, Typed, BudgetAssumption DEF Inv, WinnerStaysOn, StaysOn, Rows
<1>1. /\ held \in Seq(Row) /\ Len(held) = (IF Rows = <<>> THEN 1 ELSE LastBout) /\ StaysOn(held)
      /\ \A i \in 1..Len(held) : held[i].owns = IF i <= LastBout THEN Rows[i].owns ELSE FALSE
  <2>1. CASE Rows = <<>>
    <3> DEFINE r == NewRow(<<Head(lineup["a"]), Head(lineup["b"])>>, FALSE, FALSE)
    <3>1. Head(lineup["a"]) \in Fighters /\ Head(lineup["b"]) \in Fighters
      BY <1>0 DEF Deals, Sides
    <3>2. r \in Row /\ r.owns = FALSE
      BY <3>1, NewRowIs
    <3> HIDE DEF r
    <3>3. held = <<r>>
      BY <2>1 DEF r
    <3> HIDE DEF held
    <3>4. held \in Seq(Row) /\ Len(held) = 1 /\ held[1] = r
      BY <3>2, <3>3
    <3>5. LastBout = 0
      BY <1>0, <2>1
    <3>6. StaysOn(held)
      BY <3>4 DEF StaysOn
    <3>7. \A i \in 1..Len(held) : i = 1 /\ held[i].owns = FALSE /\ ~(i <= LastBout)
      BY <3>2, <3>4, <3>5
    <3> QED BY <2>1, <3>4, <3>6, <3>7
  <2>2. CASE Rows # <<>>
    <3>1. held = Rows
      BY <2>2
    <3> HIDE DEF held
    <3>2. \A i \in 1..Len(held) : i <= LastBout /\ held[i].owns = Rows[i].owns
      BY <1>0, <3>1
    <3>3. held \in Seq(Row) /\ Len(held) = LastBout /\ StaysOn(held)
      BY <1>0, <3>1
    <3> QED BY <2>2, <3>2, <3>3
  <2> QED BY <2>1, <2>2
<1>2. k \in 1..Len(held)
  BY <1>0, <1>1 DEF Tap, Positions
<1> HIDE DEF held
<1>3. /\ set \in Seq(Row) /\ Len(set) = Len(held) /\ StaysOn(set)
      /\ \A i \in 1..Len(held) : set[i].owns = held[i].owns
  BY <1>1, <1>2, Tapped
<1> HIDE DEF set
<1>4. /\ rows \in Seq(Row) /\ Len(rows) = Len(held) /\ StaysOn(rows)
      /\ \A i \in 1..Len(held) : rows[i].owns = held[i].owns
  BY <1>0, <1>3, Seated DEF Kept
<1>5. /\ Stored([match EXCEPT !.rows = rows]) /\ Applied(rows, "other") /\ match.status = "running"
      /\ UNCHANGED <<lineup, req, stoodDown>> /\ Spend("taps")
  BY DEF Tap, rows, set, held
<1> HIDE DEF rows
<1>6. [match EXCEPT !.rows = rows] \in Encounter
  BY <1>0, <1>4 DEF Encounter
<1>7. /\ match' \in Encounter /\ match'.rows = rows /\ match'.status = match.status /\ match'.verdict = match.verdict
  BY <1>0, <1>5, <1>6, StoredIs DEF Encounter
<1>8. Rows' = rows /\ LastBout' = Len(rows) /\ Len(rows) = (IF Rows = <<>> THEN 1 ELSE LastBout)
  BY <1>1, <1>4, <1>7 DEF Rows, LastBout
<1>9. Owned' /\ creator' \in [Positions -> Room]
  <2>1. LastBout <= Len(rows) /\ Len(rows) <= MaxBouts
    <3>1. Rows = <<>> => LastBout = 0
      BY <1>0
    <3> QED BY <1>0, <1>8, <3>1
  <2>2. /\ \A i \in 1..LastBout : rows[i].owns = Rows[i].owns
        /\ \A i \in 1..Len(rows) : i > LastBout => rows[i].owns = FALSE
    <3>1. \A i \in 1..Len(rows) : rows[i].owns = (IF i <= LastBout THEN Rows[i].owns ELSE FALSE)
      BY <1>1, <1>4
    <3>2. \A i \in 1..LastBout : i \in 1..Len(rows) /\ i <= LastBout
      BY <1>0, <2>1, <1>8
    <3>3. \A i \in 1..Len(rows) : i > LastBout => ~(i <= LastBout)
      BY <1>0, <1>8
    <3> QED BY <3>1, <3>2, <3>3
  <2> QED BY <1>4, <1>5, <1>7, <1>8, <2>1, <2>2, OtherDoor
<1>10. left' \in [{"taps", "records", "others"} -> Nat] /\ left'["taps"] = left["taps"] - 1
  BY <1>0, <1>5, SpendIs
<1>11. TypeOK'
  <2>1. match'.status = "completed" <=> match'.verdict # "none"
    BY <1>7 DEF Inv, TypeOK
  <2>2. LastBout' <= MaxBouts
    BY <1>0, <1>8
  <2>3. UNCHANGED <<lineup, req, stoodDown>> /\ TypeOK
    BY <1>5 DEF Inv
  <2> QED BY <1>7, <1>9, <1>10, <2>1, <2>2, <2>3 DEF TypeOK, Encounter, Cards
<1>12. WinnerStaysOn'
  BY <1>4, <1>8 DEF WinnerStaysOn, StaysOn
<1>13. Bounded'
  <2>1. LastBout + left["taps"] <= MaxBouts - 1 + (IF Open(Rows) THEN 1 ELSE 0)
    BY DEF Inv, Bounded
  <2>2. Rows = <<>> => LastBout + left["taps"] <= MaxBouts - 1 /\ LastBout = 0
    <3>1. Rows = <<>> => LastBout = 0
      BY <1>0
    <3>2. Rows = <<>> => ~Open(Rows)
      BY DEF Open
    <3> QED BY <2>1, <3>1, <3>2, <1>0, BudgetAssumption
  <2>3. LastBout' + left'["taps"] <= (MaxBouts - 1)
    BY <1>0, <1>8, <1>10, <2>1, <2>2, BudgetAssumption, SMTT(30)
  <2> QED BY <1>0, <1>8, <1>10, <2>3, BudgetAssumption, SMTT(30) DEF Bounded
<1> QED BY <1>5, <1>9, <1>11, <1>12, <1>13, SameReqs DEF Inv

\* A pairing by hand: put after a scored last row, on nobody's result.
LEMMA HandPickStep == ASSUME Inv, NEW p \in Picks, HandPick(p) PROVE Inv'
<1> DEFINE over == Overtaken(Rows[LastBout])
           held == [Rows EXCEPT ![LastBout] = over]
           new == NewRow(p, FALSE, FALSE)
           put == Append(held, new)
           rows == SeatOpener(put, lineup)
<1>0. /\ Rows \in Seq(Row) /\ LastBout = Len(Rows) /\ LastBout \in Nat /\ match \in Encounter /\ lineup \in Deals
      /\ left \in [{"taps", "records", "others"} -> Nat] /\ StaysOn(Rows) /\ Rows = match.rows
      /\ LastBout <= MaxBouts /\ MaxBouts \in Nat /\ Rows # <<>> /\ Rows[LastBout].out # "none"
      /\ LastBout \in 1..Len(Rows) /\ Rows[LastBout] \in Row
  <2>1. Rows # <<>> /\ Rows[LastBout].out # "none"
    BY DEF HandPick
  <2>2. Rows \in Seq(Row) /\ LastBout = Len(Rows) /\ LastBout \in Nat
    BY RowsTyped DEF Inv
  <2>3. LastBout \in 1..Len(Rows) /\ Rows[LastBout] \in Row
    BY <2>1, <2>2
  <2> QED BY <2>1, <2>2, <2>3, Typed, BudgetAssumption DEF Inv, WinnerStaysOn, StaysOn, Rows
<1>1. Alike(Rows[LastBout], over)
  BY <1>0 DEF Alike, Overtaken, Row, Sides
<1> HIDE DEF over
<1>2. /\ held \in Seq(Row) /\ Len(held) = LastBout /\ StaysOn(held) /\ held # <<>>
      /\ \A i \in 1..LastBout : held[i].owns = Rows[i].owns
  <2>1. /\ held \in Seq(Row) /\ Len(held) = Len(Rows) /\ (StaysOn(Rows) => StaysOn(held))
        /\ \A i \in 1..Len(Rows) : held[i].owns = Rows[i].owns
    <3>1. held = With(Rows, LastBout, over)
      BY DEF With
    <3>2. over \in Row
      BY <1>1 DEF Alike
    <3>3. Rows \in Seq(Row) /\ LastBout \in 1..Len(Rows)
      BY <1>0
    <3> HIDE DEF held
    <3> QED BY <1>1, <3>1, <3>2, <3>3, Noted
  <2> HIDE DEF held
  <2> QED BY <1>0, <2>1
<1> HIDE DEF held
<1>3. new \in Row /\ new.on = FALSE /\ new.owns = FALSE /\ new.out = "none"
  BY NewRowIs, LineupsAssumption
<1> HIDE DEF new
<1>4. /\ put \in Seq(Row) /\ Len(put) = LastBout + 1 /\ StaysOn(put) /\ put[LastBout + 1] = new
      /\ \A i \in 1..LastBout : put[i] = held[i]
  BY <1>2, <1>3, Put
<1> HIDE DEF put
<1>5. /\ rows \in Seq(Row) /\ Len(rows) = LastBout + 1 /\ StaysOn(rows)
      /\ \A i \in 1..LastBout + 1 : Kept(put[i], rows[i])
  BY <1>0, <1>4, Seated
<1>6. /\ Stored([match EXCEPT !.rows = rows]) /\ Applied(rows, "other") /\ match.status = "running"
      /\ UNCHANGED <<lineup, req, stoodDown>> /\ Spend("others")
  BY DEF HandPick, rows, put, new, held, over
<1> HIDE DEF rows
<1>7. [match EXCEPT !.rows = rows] \in Encounter
  BY <1>0, <1>5 DEF Encounter
<1>8. /\ match' \in Encounter /\ match'.rows = rows /\ match'.status = match.status /\ match'.verdict = match.verdict
  BY <1>0, <1>6, <1>7, StoredIs DEF Encounter
<1>9. Rows' = rows /\ LastBout' = LastBout + 1
  BY <1>5, <1>8 DEF Rows, LastBout
<1>10. ~Open(Rows) /\ LastBout + 1 <= MaxBouts
  BY <1>0, Room4One DEF Open
<1>11. Owned' /\ creator' \in [Positions -> Room]
  <2>1. \A i \in 1..LastBout : i \in 1..LastBout + 1 /\ rows[i].owns = Rows[i].owns
    BY <1>0, <1>2, <1>4, <1>5, SMTT(30) DEF Kept
  <2>2. \A i \in 1..Len(rows) : i > LastBout => i = LastBout + 1
    BY <1>0, <1>5
  <2>3. rows[LastBout + 1].owns = FALSE
    BY <1>0, <1>3, <1>4, <1>5 DEF Kept
  <2>4. LastBout <= Len(rows) /\ Len(rows) <= MaxBouts
    BY <1>0, <1>5, <1>10
  <2> QED BY <1>5, <1>6, <1>8, <1>9, <2>1, <2>2, <2>3, <2>4, OtherDoor
<1>12. left' \in [{"taps", "records", "others"} -> Nat] /\ left'["taps"] = left["taps"]
  BY <1>0, <1>6, SpendIs
<1>13. TypeOK'
  <2>1. match'.status = "completed" <=> match'.verdict # "none"
    BY <1>8 DEF Inv, TypeOK
  <2>2. UNCHANGED <<lineup, req, stoodDown>> /\ TypeOK
    BY <1>6 DEF Inv
  <2> QED BY <1>8, <1>9, <1>10, <1>11, <1>12, <2>1, <2>2 DEF TypeOK, Encounter, Cards
<1>14. WinnerStaysOn'
  BY <1>5, <1>9 DEF WinnerStaysOn, StaysOn
<1>15. Bounded'
  <2>1. LastBout + left["taps"] <= MaxBouts - 1
    BY <1>0, <1>10, BudgetAssumption DEF Inv, Bounded
  <2>2. Open(Rows')
    <3>1. rows # <<>> /\ rows[Len(rows)].out = "none"
      BY <1>0, <1>3, <1>4, <1>5 DEF Kept
    <3> QED BY <1>9, <3>1 DEF Open
  <2> QED BY <1>0, <1>9, <1>12, <2>1, <2>2, BudgetAssumption, SMTT(30) DEF Bounded
<1> QED BY <1>6, <1>11, <1>13, <1>14, <1>15, SameReqs DEF Inv

\* Record bout tapped: only what the last row remembers changes.
LEMMA RecordStep == ASSUME Inv, NEW d \in Devices, RecordBout(d) PROVE Inv'
<1> DEFINE asked == [Rows[LastBout] EXCEPT !.asked = "now"]
           rows == [Rows EXCEPT ![LastBout] = asked]
           r == [NoReq EXCEPT !.phase = "out", !.pos = LastBout]
<1>0. /\ Rows \in Seq(Row) /\ LastBout = Len(Rows) /\ match \in Encounter
      /\ left \in [{"taps", "records", "others"} -> Nat] /\ StaysOn(Rows) /\ Rows = match.rows
      /\ LastBout \in 1..Len(Rows) /\ Rows[LastBout] \in Row
  <2>1. Rows # <<>>
    BY DEF RecordBout
  <2>2. Rows \in Seq(Row) /\ LastBout = Len(Rows) /\ LastBout \in Nat
    BY RowsTyped DEF Inv
  <2>3. LastBout \in 1..Len(Rows) /\ Rows[LastBout] \in Row
    BY <2>1, <2>2
  <2> QED BY <2>2, <2>3, Typed DEF Inv, WinnerStaysOn, StaysOn, Rows
<1>1. Alike(Rows[LastBout], asked)
  BY <1>0 DEF Alike, Row, Sides
<1>2. match' = [match EXCEPT !.rows = rows]
  BY <1>0 DEF RecordBout, Encounter
<1> HIDE DEF asked
<1>3. /\ rows \in Seq(Row) /\ Len(rows) = LastBout /\ StaysOn(rows)
      /\ \A i \in 1..LastBout : rows[i].owns = Rows[i].owns /\ rows[i].out = Rows[i].out
  <2>1. /\ rows \in Seq(Row) /\ Len(rows) = Len(Rows) /\ (StaysOn(Rows) => StaysOn(rows))
        /\ \A i \in 1..Len(Rows) : rows[i].owns = Rows[i].owns /\ rows[i].out = Rows[i].out
    <3>1. rows = With(Rows, LastBout, asked)
      BY DEF With
    <3>2. asked \in Row
      BY <1>1 DEF Alike
    <3> HIDE DEF rows
    <3> QED BY <1>0, <1>1, <3>1, <3>2, Noted
  <2> HIDE DEF rows
  <2> QED BY <1>0, <2>1
<1> HIDE DEF rows
<1>4. match' \in Encounter /\ match'.rows = rows /\ match'.status = match.status /\ match'.verdict = match.verdict
  BY <1>0, <1>2, <1>3 DEF Encounter
<1>5. Rows' = rows /\ LastBout' = LastBout
  BY <1>3, <1>4 DEF Rows, LastBout
<1>6. left' \in [{"taps", "records", "others"} -> Nat] /\ left'["taps"] = left["taps"]
  BY <1>0, SpendIs DEF RecordBout
<1>7. r \in Asks /\ r.phase = "out" /\ r.tries = 0
  <2>1. NoReq \in Asks /\ NoReq.tries = 0
    BY DEF NoReq, Asks, KachinukiAdvanceAttempts
  <2>2. LastBout \in Nat
    BY <1>0
  <2> QED BY <2>1, <2>2 DEF Asks
<1>8. req' = [req EXCEPT ![d] = r] /\ UNCHANGED <<lineup, creator, stoodDown>>
  BY DEF RecordBout
<1> HIDE DEF r
<1>9. req' \in [Devices -> Asks] /\ PickFits' /\ Trying'
  <2>1. r.phase # "write" /\ r.tries < KachinukiAdvanceAttempts
    BY <1>7 DEF KachinukiAdvanceAttempts
  <2> QED BY <1>7, <1>8, <2>1, ReqGoes
<1>10. TypeOK'
  <2>1. (match'.status = "completed" <=> match'.verdict # "none") /\ LastBout' <= MaxBouts
    BY <1>4, <1>5 DEF Inv, TypeOK
  <2> QED BY <1>4, <1>6, <1>8, <1>9, <2>1 DEF Inv, TypeOK, Encounter, Cards, Asks
<1>11. WinnerStaysOn'
  BY <1>3, <1>5 DEF WinnerStaysOn, StaysOn
<1>12. Owned'
  BY <1>3, <1>4, <1>5, <1>8 DEF Inv, Owned, Positions
<1>13. Bounded'
  <2>1. Open(Rows') <=> Open(Rows)
    BY <1>0, <1>3, <1>5 DEF Open
  <2> QED BY <1>5, <1>6, <2>1 DEF Inv, Bounded
<1> QED BY <1>9, <1>10, <1>11, <1>12, <1>13 DEF Inv

\* What every step starts from.
LEMMA Known ==
  ASSUME Inv
  PROVE  /\ Rows \in Seq(Row) /\ LastBout = Len(Rows) /\ LastBout \in Nat /\ Rows = match.rows /\ StaysOn(Rows)
         /\ match \in Encounter /\ (match.status = "completed" <=> match.verdict # "none")
         /\ LastBout <= MaxBouts /\ lineup \in Deals /\ creator \in [Positions -> Room]
         /\ req \in [Devices -> Asks] /\ left \in [{"taps", "records", "others"} -> Nat]
         /\ stoodDown \subseteq 1..KachinukiAdvanceAttempts
         /\ MaxBouts \in Nat \ {0} /\ left["taps"] \in Nat
         /\ LastBout + left["taps"] <= MaxBouts - 1 + (IF Open(Rows) THEN 1 ELSE 0)
<1>1. Rows = match.rows /\ StaysOn(Rows)
  BY RowsTyped DEF Inv, WinnerStaysOn, StaysOn, Rows
<1>2. MaxBouts \in Nat \ {0}
  BY BudgetAssumption
<1>3. left["taps"] \in Nat /\ LastBout + left["taps"] <= MaxBouts - 1 + (IF Open(Rows) THEN 1 ELSE 0)
  BY Typed DEF Inv, Bounded
<1> QED BY <1>1, <1>2, <1>3, RowsTyped, Typed DEF Inv

\* A step of the match's status alone, between those of a match not finished.
LEMMA StatusStep ==
  ASSUME Inv, match.status # "completed", NEW c \in {"running", "scheduled"}, NEW v, v = "none",
         match' = [match EXCEPT !.status = c, !.verdict = v, !.ver = match.ver + 1],
         lineup' = lineup, creator' = creator, left' \in [{"taps", "records", "others"} -> Nat],
         left'["taps"] = left["taps"], req' \in [Devices -> Asks], stoodDown' = stoodDown
  PROVE  TypeOK' /\ WinnerStaysOn' /\ Owned' /\ Bounded'
<1>1. match' \in Encounter /\ match'.status = c /\ match'.verdict = "none" /\ match'.rows = match.rows
  <2>1. match \in Encounter /\ match.ver + 1 \in Nat /\ c \in Cards
    BY Known DEF Encounter, Cards
  <2> QED BY <2>1 DEF Encounter
<1>2. Rows' = Rows /\ LastBout' = LastBout
  BY <1>1 DEF Rows, LastBout
<1>3. TypeOK'
  BY <1>1, <1>2, Known DEF TypeOK, Encounter, Cards, Deals, Asks
<1>4. Owned'
  BY <1>1, <1>2 DEF Inv, Owned
<1> QED BY <1>2, <1>3, <1>4, SameRows

\* A step of the requests alone.
LEMMA RequestStep ==
  ASSUME Inv, match' = match, lineup' = lineup, creator' = creator, left' \in [{"taps", "records", "others"} -> Nat],
         left'["taps"] = left["taps"], req' \in [Devices -> Asks], stoodDown' \subseteq 1..KachinukiAdvanceAttempts
  PROVE  TypeOK' /\ WinnerStaysOn' /\ Owned' /\ Bounded'
<1>1. Rows' = Rows /\ LastBout' = LastBout
  BY DEF Rows, LastBout
<1>2. TypeOK'
  BY <1>1, Known DEF TypeOK, Encounter, Cards, Deals, Asks
<1>3. Owned'
  BY <1>1 DEF Inv, Owned
<1> QED BY <1>1, <1>2, <1>3, SameRows

\* The running write lands.
LEMMA LandStep == ASSUME Inv, NEW d \in Devices, ScoreWriteLands(d) PROVE Inv'
<1> DEFINE r == [req[d] EXCEPT !.logged = TRUE, !.phase = IF match.status = "completed" THEN "done" ELSE "read"]
<1>1. req[d] \in Asks /\ req[d].phase = "out" /\ req[d].tries < KachinukiAdvanceAttempts
  BY Known DEF ScoreWriteLands, Inv, Trying
<1>2. r \in Asks /\ r.phase # "write" /\ r.tries = req[d].tries
  BY <1>1 DEF Asks
<1>3. req' = [req EXCEPT ![d] = r] /\ UNCHANGED <<lineup, creator, left, stoodDown>>
  BY DEF ScoreWriteLands
<1> HIDE DEF r
<1>4. req' \in [Devices -> Asks] /\ PickFits' /\ Trying'
  BY <1>1, <1>2, <1>3, ReqGoes
<1>5. CASE match.status = "scheduled" /\ ~req[d].logged
  <2>1. match.verdict = "none"
    BY <1>5, Known
  <2>2. match' = [match EXCEPT !.status = "running", !.verdict = "none", !.ver = match.ver + 1]
    <3>1. match' = [[match EXCEPT !.status = "running"] EXCEPT !.ver = match.ver + 1]
      BY <1>5 DEF ScoreWriteLands, Stored
    <3> QED BY <2>1, <3>1, Known DEF Encounter
  <2>3. TypeOK' /\ WinnerStaysOn' /\ Owned' /\ Bounded'
    BY <1>3, <1>4, <1>5, <2>2, Known, StatusStep
  <2> QED BY <1>4, <2>3 DEF Inv
<1>6. CASE ~(match.status = "scheduled" /\ ~req[d].logged)
  <2>1. match' = match
    BY <1>6 DEF ScoreWriteLands
  <2> QED BY <1>3, <1>4, <2>1, Known, RequestStep DEF Inv
<1> QED BY <1>5, <1>6

\* The advance reads.
LEMMA ReadStep == ASSUME Inv, NEW d \in Devices, AdvanceRead(d) PROVE Inv'
<1> DEFINE decided == match.status # "completed" /\ Rows # <<>> /\ Rows[LastBout].out # "none"
           pick == IF decided THEN AdvanceKachinuki(Rows) ELSE <<>>
           goes == decided /\ (pick # <<>> \/ ~Rows[LastBout].rec)
           snap == [status |-> match.status, ver |-> match.ver, log |-> Log(Rows)]
           w == [req[d] EXCEPT !.phase = "write", !.pick = pick, !.snap = snap]
           n == [req[d] EXCEPT !.phase = "done"]
           r == IF goes THEN w ELSE n
<1>1. req[d] \in Asks /\ req[d].phase = "read" /\ req[d].tries < KachinukiAdvanceAttempts
  BY Known DEF AdvanceRead, Inv, Trying
<1>2. req' = [req EXCEPT ![d] = r] /\ UNCHANGED <<match, lineup, creator, left, stoodDown>>
  BY Known DEF AdvanceRead
<1>3. goes => decided
  OBVIOUS
<1>4. decided => snap \in Snapshot /\ snap.log = Log(Rows) /\ snap.log # <<>>
  <2>1. ASSUME decided PROVE match.status \in {"running", "scheduled"} /\ match.ver \in Nat
    BY <2>1, Known DEF Encounter, Cards
  <2>2. Log(Rows) \in Seq(LogRow) /\ Len(Log(Rows)) = Len(Rows)
    BY Known, LogIs
  <2>3. decided => Log(Rows) # <<>>
    BY <2>2, Known
  <2> QED BY <2>1, <2>2, <2>3 DEF Snapshot
<1>5. pick \in {<<>>} \cup Fighters \X Fighters /\ (pick # <<>> => FitsAfter(Log(Rows), pick))
  <2>1. CASE decided /\ AdvanceKachinuki(Rows) # <<>>
    BY <2>1, PairingFits DEF Inv
  <2>2. CASE ~(decided /\ AdvanceKachinuki(Rows) # <<>>)
    BY <2>2
  <2> QED BY <2>1, <2>2
<1> HIDE DEF decided, pick, goes, snap
<1>6. r \in Asks /\ r.tries = req[d].tries /\ (r.phase = "write" => goes)
  BY <1>1, <1>3, <1>4, <1>5 DEF Asks
<1>7. r.phase = "write" => PickOf(r)
  <2>1. ASSUME goes PROVE r.snap = snap /\ r.pick = pick
    BY <1>1, <2>1 DEF Asks
  <2> QED BY <1>3, <1>4, <1>5, <1>6, <2>1 DEF PickOf
<1> HIDE DEF r
<1>8. req' \in [Devices -> Asks] /\ PickFits' /\ Trying'
  BY <1>1, <1>2, <1>6, <1>7, ReqGoes
<1> QED BY <1>2, <1>8, Known, RequestStep DEF Inv

\* The answer comes, or the write is sent again.
LEMMA AnswerStep == ASSUME Inv, NEW d \in Devices, Answer(d) PROVE Inv'
<1>1. NoReq \in Asks /\ NoReq.phase = "idle"
  BY DEF NoReq, Asks, KachinukiAdvanceAttempts
<1>2. req' = [req EXCEPT ![d] = NoReq] /\ UNCHANGED <<match, lineup, creator, left, stoodDown>>
  BY DEF Answer
<1>3. req' \in [Devices -> Asks] /\ PickFits' /\ Trying'
  BY <1>1, <1>2, ReqGoes
<1> QED BY <1>2, <1>3, Known, RequestStep DEF Inv

LEMMA LoseStep == ASSUME Inv, NEW d \in Devices, Lose(d) PROVE Inv'
<1> DEFINE r == [NoReq EXCEPT !.phase = "out", !.pos = req[d].pos, !.logged = TRUE]
<1>1. r \in Asks /\ r.phase = "out" /\ r.tries < KachinukiAdvanceAttempts
  <2>1. NoReq \in Asks /\ NoReq.tries = 0 /\ 0 < KachinukiAdvanceAttempts
    BY DEF NoReq, Asks, KachinukiAdvanceAttempts
  <2>2. req[d].pos \in Nat
    BY Known DEF Asks
  <2> HIDE DEF NoReq, KachinukiAdvanceAttempts
  <2> QED BY <2>1, <2>2 DEF Asks
<1>2. req' = [req EXCEPT ![d] = r] /\ UNCHANGED <<match, lineup, creator, stoodDown>> /\ Spend("others")
  BY DEF Lose
<1> HIDE DEF r
<1>3. req' \in [Devices -> Asks] /\ PickFits' /\ Trying'
  BY <1>1, <1>2, ReqGoes
<1>4. left' \in [{"taps", "records", "others"} -> Nat] /\ left'["taps"] = left["taps"]
  BY <1>2, Known, SpendIs
<1> QED BY <1>2, <1>3, <1>4, Known, RequestStep DEF Inv

\* Sent back to the queue, and started again.
LEMMA QueueStep == ASSUME Inv, RevertMatchToQueue \/ StartMatch PROVE Inv'
<1> DEFINE c == IF RevertMatchToQueue THEN "scheduled" ELSE "running"
<1>1. match.status \in {"running", "scheduled"} /\ match.verdict = "none"
  BY Known DEF RevertMatchToQueue, StartMatch
<1>2. /\ match' = [match EXCEPT !.status = c, !.verdict = "none", !.ver = match.ver + 1]
      /\ UNCHANGED <<lineup, creator, req, stoodDown>>
  BY <1>1, Known DEF RevertMatchToQueue, StartMatch, Stored, Encounter
<1>3. left' \in [{"taps", "records", "others"} -> Nat] /\ left'["taps"] = left["taps"]
  BY Known, SpendIs DEF RevertMatchToQueue, StartMatch
<1> HIDE DEF c
<1>4. c \in {"running", "scheduled"}
  BY DEF c
<1>5. TypeOK' /\ WinnerStaysOn' /\ Owned' /\ Bounded'
  BY <1>1, <1>2, <1>3, <1>4, Known, StatusStep
<1> QED BY <1>2, <1>5, SameReqs DEF Inv

\* The locked write of an advance that still holds: the rows it leaves, and why
\* the pairing it appends fits the log it lands on.
LEMMA Advanced ==
  ASSUME Inv, NEW d \in Devices, AdvanceWrite(d), KachinukiAdvanceStillHolds(req[d].snap)
  PROVE  LET pick == req[d].pick
             marks == ~Rows[LastBout].rec
             n == IF pick = <<>> THEN LastBout ELSE LastBout + 1
         IN  /\ match' \in Encounter /\ (match'.status = "completed" <=> match'.verdict # "none")
             /\ match'.status # "completed" /\ match.status # "completed"
             /\ LastBout \in 1..MaxBouts
             /\ Rows' \in Seq(Row) /\ LastBout' = n /\ Len(Rows') = n /\ StaysOn(Rows')
             /\ \A i \in 1..LastBout : Rows'[i].owns = Rows[i].owns /\ Rows'[i].out = Rows[i].out
             /\ pick # <<>> => /\ FitsAfter(Rows, pick) /\ LastBout + 1 \in Positions
                               /\ Rows'[LastBout + 1].out = "none" /\ Rows'[LastBout + 1].owns = marks
                               /\ \A s \in Sides : Rows'[LastBout + 1][s] = At(pick, s)
<1> DEFINE pick == req[d].pick
           snap == req[d].snap
           marks == ~Rows[LastBout].rec
           closed == [Rows[LastBout] EXCEPT !.rec = TRUE]
           marked == [Rows EXCEPT ![LastBout].rec = TRUE]
           new == NewRow(pick, TRUE, marks)
           rows == IF pick = <<>> THEN marked ELSE Append(marked, new)
           m == IF pick = <<>> THEN [match EXCEPT !.rows = rows]
                ELSE [match EXCEPT !.rows = rows, !.status = "running", !.verdict = "none"]
<1>0. /\ Log(Rows) = snap.log /\ match.status # "completed" /\ PickOf(req[d])
      /\ req[d].phase = "write" /\ Stored(m)
  BY DEF AdvanceWrite, KachinukiAdvanceStillHolds, Inv, PickFits
<1>1. Rows # <<>> /\ LastBout \in 1..Len(Rows) /\ Rows[LastBout] \in Row /\ Rows \in Seq(Row) /\ LastBout = Len(Rows)
  <2>1. Log(Rows) # <<>>
    BY <1>0 DEF PickOf
  <2>2. Len(Log(Rows)) = Len(Rows) /\ Log(Rows) \in Seq(LogRow)
    BY Known, LogIs
  <2>3. Len(Rows) > 0
    BY <2>1, <2>2, Known
  <2> QED BY <2>3, Known
<1>2. marks \in BOOLEAN /\ closed \in Row /\ Alike(Rows[LastBout], closed)
  BY <1>1 DEF Row, Alike, Sides
<1>3. marked = With(Rows, LastBout, closed)
  BY <1>1 DEF With
<1> HIDE DEF closed, marked
<1>4. /\ marked \in Seq(Row) /\ Len(marked) = LastBout /\ StaysOn(marked) /\ marked # <<>>
      /\ \A i \in 1..LastBout : marked[i].out = Rows[i].out /\ marked[i].owns = Rows[i].owns
                                /\ \A s \in Sides : marked[i][s] = Rows[i][s]
  <2>1. StaysOn(Rows)
    BY Known
  <2>2. /\ marked \in Seq(Row) /\ Len(marked) = Len(Rows) /\ (StaysOn(Rows) => StaysOn(marked))
        /\ \A i \in 1..Len(Rows) : marked[i].out = Rows[i].out /\ marked[i].owns = Rows[i].owns
                                   /\ \A s \in Sides : marked[i][s] = Rows[i][s]
    BY <1>1, <1>2, <1>3, Noted
  <2> QED BY <1>1, <2>1, <2>2
<1>5. pick # <<>> =>
        /\ pick \in Fighters \X Fighters /\ FitsAfter(Rows, pick) /\ Rows[LastBout].out # "none"
        /\ LastBout + 1 <= MaxBouts /\ LastBout + 1 \in Positions
  <2> SUFFICES ASSUME pick # <<>>
               PROVE  /\ pick \in Fighters \X Fighters /\ FitsAfter(Rows, pick) /\ Rows[LastBout].out # "none"
                      /\ LastBout + 1 <= MaxBouts /\ LastBout + 1 \in Positions
    OBVIOUS
  <2>1. pick \in Fighters \X Fighters /\ FitsAfter(Log(Rows), pick)
    BY <1>0 DEF PickOf
  <2>2. /\ Len(Log(Rows)) = Len(Rows) /\ Log(Rows)[LastBout].out = Rows[LastBout].out
        /\ \A s \in Sides : Log(Rows)[LastBout][s] = Rows[LastBout][s] /\ Retired(Log(Rows), s) = Retired(Rows, s)
    BY <1>1, LogIs
  <2>3. \A s \in Sides : Other(s) \in Sides
    BY DEF Other, Sides
  <2>4. FitsAfter(Rows, pick)
    BY <1>1, <2>1, <2>2, <2>3 DEF FitsAfter
  <2>5. Rows[LastBout].out # "none"
    BY <1>1, <2>4 DEF FitsAfter
  <2>6. ~Open(Rows)
    BY <1>1, <2>5 DEF Open
  <2> QED BY <2>1, <2>4, <2>5, <2>6, Room4One
<1>6. pick # <<>> => new \in Row /\ new.out = "none" /\ new.owns = marks /\ \A s \in Sides : new[s] = At(pick, s)
  BY <1>2, <1>5, NewRowIs
<1> HIDE DEF new, pick, marks
<1>7. pick # <<>> => /\ rows \in Seq(Row) /\ Len(rows) = LastBout + 1 /\ StaysOn(rows) /\ rows[LastBout + 1] = new
                     /\ \A i \in 1..LastBout : rows[i] = marked[i]
  <2> SUFFICES ASSUME pick # <<>>
               PROVE  /\ rows \in Seq(Row) /\ Len(rows) = LastBout + 1 /\ StaysOn(rows) /\ rows[LastBout + 1] = new
                      /\ \A i \in 1..LastBout : rows[i] = marked[i]
    OBVIOUS
  <2>1. \A s \in Sides : Rows[LastBout].out = s => new[s] = Rows[LastBout][s]
    BY <1>1, <1>5, <1>6 DEF FitsAfter, Sides
  <2>2. \A s \in Sides : marked[Len(marked)].out = s => new[s] = marked[Len(marked)][s]
    BY <1>1, <1>4, <2>1
  <2>3. rows = Append(marked, new)
    OBVIOUS
  <2> HIDE DEF rows
  <2> QED BY <1>4, <1>6, <2>2, <2>3, Put
<1>8. pick = <<>> => rows = marked
  OBVIOUS
<1> HIDE DEF rows
<1>9. rows \in Seq(Row) /\ StaysOn(rows) /\ Len(rows) = IF pick = <<>> THEN LastBout ELSE LastBout + 1
  BY <1>4, <1>7, <1>8
<1>10. m \in Encounter /\ m.rows = rows /\ (m.status = "completed" <=> m.verdict # "none") /\ m.status # "completed"
  BY <1>0, <1>9, Known DEF Encounter, Cards
<1> HIDE DEF m
<1>11. match' \in Encounter /\ match'.rows = rows /\ match'.status = m.status /\ match'.verdict = m.verdict
  BY <1>0, <1>10, Known, StoredIs
<1>12. Rows' = rows /\ LastBout' = Len(rows)
  BY <1>11 DEF Rows, LastBout
<1>13. \A i \in 1..LastBout : Rows'[i].owns = Rows[i].owns /\ Rows'[i].out = Rows[i].out
  <2>1. \A i \in 1..LastBout : rows[i] = marked[i]
    BY <1>7, <1>8
  <2> QED BY <1>4, <1>12, <2>1
<1>14. pick # <<>> => /\ Rows'[LastBout + 1].out = "none" /\ Rows'[LastBout + 1].owns = marks
                      /\ \A s \in Sides : Rows'[LastBout + 1][s] = At(pick, s)
  BY <1>6, <1>7, <1>12
<1>15. LastBout \in 1..MaxBouts
  BY <1>1, Known
<1> QED BY <1>0, <1>5, <1>9, <1>10, <1>11, <1>12, <1>13, <1>14, <1>15 DEF pick, marks

LEMMA WriteStep == ASSUME Inv, NEW d \in Devices, AdvanceWrite(d) PROVE Inv'
<1>0. req[d] \in Asks /\ req[d].phase = "write" /\ req[d].tries < KachinukiAdvanceAttempts
  BY Known DEF AdvanceWrite, Inv, Trying
<1>1. lineup' = lineup /\ left' = left
  BY DEF AdvanceWrite
<1>2. CASE KachinukiAdvanceStillHolds(req[d].snap)
  <2> DEFINE pick == req[d].pick
             marks == ~Rows[LastBout].rec
             r == [req[d] EXCEPT !.phase = "done", !.snap = <<>>, !.pick = <<>>]
             n == IF pick = <<>> THEN LastBout ELSE LastBout + 1
  <2>1. /\ match' \in Encounter /\ (match'.status = "completed" <=> match'.verdict # "none")
        /\ match'.status # "completed" /\ match.status # "completed"
        /\ LastBout \in 1..MaxBouts
        /\ Rows' \in Seq(Row) /\ LastBout' = n /\ Len(Rows') = n /\ StaysOn(Rows')
        /\ \A i \in 1..LastBout : Rows'[i].owns = Rows[i].owns /\ Rows'[i].out = Rows[i].out
        /\ pick # <<>> => /\ FitsAfter(Rows, pick) /\ LastBout + 1 \in Positions
                          /\ Rows'[LastBout + 1].out = "none" /\ Rows'[LastBout + 1].owns = marks
    BY <1>2, Advanced
  <2>2. /\ creator' = IF pick = <<>> \/ creator[LastBout + 1] # "none" THEN creator
                      ELSE [creator EXCEPT ![LastBout + 1] = IF marks THEN "advance" ELSE "advanceWithoutMark"]
        /\ req' = [req EXCEPT ![d] = r] /\ stoodDown' = stoodDown
    BY <1>2, Known DEF AdvanceWrite
  <2>3. r \in Asks /\ r.phase = "done"
    BY <1>0 DEF Asks
  <2> HIDE DEF r, pick, marks
  <2>4. req' \in [Devices -> Asks] /\ PickFits' /\ Trying'
    BY <2>2, <2>3, ReqGoes
  <2>5. /\ creator \in [Positions -> Room]
        /\ \A k \in 1..LastBout : Rows[k].owns <=> creator[k] = "advance"
        /\ \A k \in Positions : k > LastBout => creator[k] = "none"
    BY <2>1, Known DEF Inv, Owned
  <2>6. Owned' /\ creator' \in [Positions -> Room]
    <3>1. CASE pick = <<>>
      BY <2>1, <2>2, <2>5, <3>1 DEF Owned
    <3>2. CASE pick # <<>>
      <4>1. creator[LastBout + 1] = "none" /\ LastBout + 1 > LastBout
        BY <2>1, <2>5, <3>2
      <4>2. creator' = [creator EXCEPT ![LastBout + 1] = IF marks THEN "advance" ELSE "advanceWithoutMark"]
        BY <2>2, <3>2, <4>1
      <4>3. creator' \in [Positions -> Room] /\ (creator'[LastBout + 1] = "advance" <=> marks)
            /\ \A k \in Positions : k # LastBout + 1 => creator'[k] = creator[k]
        BY <2>1, <2>5, <3>2, <4>2 DEF Room
      <4>4. \A k \in 1..LastBout : Rows'[k].owns <=> creator'[k] = "advance"
        <5>1. \A k \in 1..LastBout : k \in Positions /\ k # LastBout + 1
          BY <2>1, BudgetAssumption DEF Positions
        <5> QED BY <2>1, <2>5, <4>3, <5>1
      <4>5. \A k \in 1..LastBout + 1 : Rows'[k].owns <=> creator'[k] = "advance"
        <5>1. Rows'[LastBout + 1].owns <=> creator'[LastBout + 1] = "advance"
          BY <2>1, <3>2, <4>3
        <5>2. \A k \in 1..LastBout + 1 : k \in 1..LastBout \/ k = LastBout + 1
          BY <2>1
        <5> QED BY <4>4, <5>1, <5>2
      <4>6. \A k \in Positions : k > LastBout + 1 => creator'[k] = "none"
        BY <2>1, <2>5, <4>3, BudgetAssumption DEF Positions
      <4>7. LastBout' = LastBout + 1
        BY <2>1, <3>2
      <4> QED BY <4>3, <4>5, <4>6, <4>7 DEF Owned
    <3> QED BY <3>1, <3>2
  <2>7. LastBout' <= MaxBouts
    BY <2>1, Known DEF Positions
  <2>8. TypeOK'
    BY <1>1, <2>1, <2>2, <2>4, <2>6, <2>7, Known DEF TypeOK, Encounter, Cards, Deals, Asks
  <2>9. WinnerStaysOn'
    BY <2>1 DEF WinnerStaysOn, StaysOn
  <2>10. Bounded'
    <3>1. CASE pick = <<>>
      <4>1. LastBout' = LastBout /\ (Open(Rows)' <=> Open(Rows))
        BY <2>1, <3>1, Known DEF Open
      <4> QED BY <1>1, <4>1, Known DEF Bounded
    <3>2. CASE pick # <<>>
      <4>1. LastBout' = LastBout + 1 /\ Open(Rows)'
        BY <2>1, <3>2 DEF Open
      <4>2. ~Open(Rows)
        BY <2>1, <3>2, Known DEF FitsAfter, Open
      <4> QED BY <1>1, <4>1, <4>2, Known DEF Bounded
    <3> QED BY <3>1, <3>2
  <2> QED BY <2>4, <2>6, <2>8, <2>9, <2>10 DEF Inv
<1>3. CASE ~KachinukiAdvanceStillHolds(req[d].snap)
  <2> DEFINE again == req[d].tries + 1 < KachinukiAdvanceAttempts
             r == [req[d] EXCEPT !.tries = @ + 1, !.phase = IF again THEN "read" ELSE "done",
                                 !.snap = <<>>, !.pick = <<>>]
  <2>1. /\ req' = [req EXCEPT ![d] = r] /\ UNCHANGED <<match, creator>>
        /\ stoodDown' = IF again THEN stoodDown ELSE stoodDown \cup {req[d].tries + 1}
    BY <1>3, Known DEF AdvanceWrite
  <2>2. r \in Asks /\ r.phase # "write" /\ (r.phase = "read" => r.tries < KachinukiAdvanceAttempts) /\ r.phase # "out"
        /\ req[d].tries + 1 \in 1..KachinukiAdvanceAttempts
    <3>1. req[d].tries + 1 \in 1..KachinukiAdvanceAttempts /\ req[d].tries + 1 \in 0..KachinukiAdvanceAttempts
      BY <1>0 DEF Asks, KachinukiAdvanceAttempts
    <3> HIDE DEF KachinukiAdvanceAttempts
    <3> QED BY <1>0, <3>1 DEF Asks
  <2> HIDE DEF r, again
  <2>3. req' \in [Devices -> Asks] /\ PickFits' /\ Trying'
    BY <2>1, <2>2, ReqGoes
  <2>4. stoodDown' \subseteq 1..KachinukiAdvanceAttempts
    BY <2>1, <2>2, Known
  <2> QED BY <1>1, <2>1, <2>3, <2>4, Known, RequestStep DEF Inv
<1> QED BY <1>2, <1>3

\* The parts of a step that rewrites the rows and leaves the requests alone.
LEMMA RowsStep ==
  ASSUME Inv, NEW rows \in Seq(Row), match' \in Encounter, match'.rows = rows,
         match'.status = "completed" <=> match'.verdict # "none",
         StaysOn(rows), Len(rows) <= MaxBouts, lineup' \in Deals, creator' \in [Positions -> Room],
         left' \in [{"taps", "records", "others"} -> Nat], req' = req, stoodDown' = stoodDown
  PROVE  TypeOK' /\ WinnerStaysOn' /\ PickFits' /\ Trying' /\ Rows' = rows /\ LastBout' = Len(rows)
<1>1. Rows' = rows /\ LastBout' = Len(rows)
  BY DEF Rows, LastBout
<1>2. TypeOK'
  BY <1>1, Known DEF TypeOK, Encounter, Cards, Deals, Asks
<1>3. WinnerStaysOn'
  BY <1>1 DEF WinnerStaysOn, StaysOn
<1> QED BY <1>1, <1>2, <1>3, SameReqs

\* The removal of a pairing: the rows left, and what became of the last one's mark.
LEMMA Removed ==
  ASSUME Inv, RemoveBout
  PROVE  LET k == LastBout - 1 IN
         /\ k \in 1..Len(Rows) /\ match' \in Encounter /\ match'.status = match.status /\ match'.verdict = match.verdict
         /\ match'.rows \in Seq(Row) /\ Len(match'.rows) = k /\ StaysOn(match'.rows)
         /\ \A i \in 1..k : match'.rows[i].owns = Rows[i].owns
         /\ match'.rows[k].rec = IF Rows[k].rec /\ creator[LastBout] = "advance" THEN FALSE ELSE Rows[k].rec
<1> DEFINE k == LastBout - 1
           undone == Rows[k].rec /\ BoutAppendedByRecordBout(LastBout)
           rest == SubSeq(Rows, 1, k)
           open == [Overtaken(rest[k]) EXCEPT !.rec = FALSE]
           rows == IF undone THEN [rest EXCEPT ![k] = [Overtaken(@) EXCEPT !.rec = FALSE]] ELSE rest
<1>1. k \in 1..Len(Rows) /\ k \in 0..Len(Rows) /\ Rows \in Seq(Row) /\ LastBout = Len(Rows) /\ StaysOn(Rows)
  BY Known DEF RemoveBout
<1>2. Stored([match EXCEPT !.rows = rows])
  BY Zenon DEF RemoveBout
<1> HIDE DEF k
<1>3. rest \in Seq(Row) /\ Len(rest) = k /\ StaysOn(rest) /\ \A i \in 1..k : rest[i] = Rows[i]
  BY <1>1, Cut
<1> HIDE DEF rest
<1>4. k \in 1..Len(rest) /\ rest[k] \in Row /\ rest[k] = Rows[k]
  BY <1>1, <1>3
<1>5. open \in Row /\ Alike(rest[k], open) /\ open.rec = FALSE
  BY <1>4 DEF Alike, Overtaken, Row, Sides
<1>6. rows = IF undone THEN With(rest, k, open) ELSE rest
  BY <1>3, <1>4 DEF With
<1> HIDE DEF open, rows, undone
<1>7. /\ rows \in Seq(Row) /\ Len(rows) = k /\ StaysOn(rows)
      /\ \A i \in 1..k : rows[i].owns = Rows[i].owns
      /\ rows[k].rec = IF undone THEN FALSE ELSE Rows[k].rec
  <2>1. CASE undone
    <3> DEFINE new == With(rest, k, open)
    <3>1. /\ new \in Seq(Row) /\ Len(new) = Len(rest) /\ (StaysOn(rest) => StaysOn(new))
          /\ \A i \in 1..Len(rest) : new[i].owns = rest[i].owns
      BY <1>3, <1>4, <1>5, Noted
    <3>2. new[k] = open
      BY <1>3, <1>4 DEF With
    <3> HIDE DEF new
    <3>3. rows = new
      BY <1>6, <2>1 DEF new
    <3> QED BY <1>3, <1>5, <2>1, <3>1, <3>2, <3>3
  <2>2. CASE ~undone
    BY <1>3, <1>4, <1>6, <2>2
  <2> QED BY <2>1, <2>2
<1>8. [match EXCEPT !.rows = rows] \in Encounter
  BY <1>7, Known DEF Encounter
<1>9. match' \in Encounter /\ match'.rows = rows /\ match'.status = match.status /\ match'.verdict = match.verdict
  BY <1>2, <1>8, Known, StoredIs DEF Encounter
<1> QED BY <1>1, <1>7, <1>9 DEF k, undone, BoutAppendedByRecordBout

LEMMA RemoveStep == ASSUME Inv, RemoveBout PROVE Inv'
<1> DEFINE k == LastBout - 1
           rows == match'.rows
<1>1. /\ k \in 1..Len(Rows) /\ match' \in Encounter /\ match'.status = match.status /\ match'.verdict = match.verdict
      /\ rows \in Seq(Row) /\ Len(rows) = k /\ StaysOn(rows) /\ \A i \in 1..k : rows[i].owns = Rows[i].owns
  BY Removed
<1>2. /\ match.status = "running" /\ LastBout > 1 /\ Spend("others") /\ creator' = [creator EXCEPT ![LastBout] = "none"]
      /\ UNCHANGED <<lineup, req, stoodDown>>
  BY DEF RemoveBout
<1>3. left' \in [{"taps", "records", "others"} -> Nat] /\ left'["taps"] = left["taps"]
  BY <1>2, Known, SpendIs
<1>4. LastBout \in Nat /\ LastBout <= MaxBouts /\ MaxBouts \in Nat /\ k < LastBout /\ LastBout = k + 1 /\ k \in Nat
  BY <1>2, Known
<1>5. creator' \in [Positions -> Room] /\ \A i \in Positions : creator'[i] = IF i = LastBout THEN "none" ELSE creator[i]
  BY <1>2, Known DEF Room
<1> HIDE DEF k, rows
<1>6. TypeOK' /\ WinnerStaysOn' /\ PickFits' /\ Trying' /\ Rows' = rows /\ LastBout' = k
  BY <1>1, <1>2, <1>3, <1>4, <1>5, Known, RowsStep DEF rows
<1>7. Owned'
  <2>1. \A i \in 1..k : i \in Positions /\ i \in 1..LastBout /\ i # LastBout
    BY <1>4 DEF Positions
  <2>2. \A i \in 1..LastBout : Rows[i].owns <=> creator[i] = "advance"
    BY DEF Inv, Owned
  <2>3. \A i \in 1..k : rows[i].owns <=> creator'[i] = "advance"
    BY <1>1, <1>5, <2>1, <2>2
  <2>4. \A i \in Positions : i > k => creator'[i] = "none"
    BY <1>2, <1>4, <1>5 DEF Inv, Owned, Positions
  <2> QED BY <1>6, <2>3, <2>4 DEF Owned
<1>8. Bounded'
  BY <1>3, <1>4, <1>6, Known DEF Bounded
<1> QED BY <1>6, <1>7, <1>8 DEF Inv

\* The end of the match: what is kept, with its last bout's result as verdict.
LEMMA EndStep == ASSUME Inv, EndMatch PROVE Inv'
<1> DEFINE rows == StripTrailing(Rows)
           ended == [k \in DOMAIN rows |-> Overtaken(rows[k])]
           m == [match EXCEPT !.status = "completed", !.rows = ended, !.verdict = rows[Len(rows)].out]
<1>1. Rows \in Seq(Row) /\ LastBout = Len(Rows) /\ StaysOn(Rows) /\ LastBout \in Nat
  BY Known
<1>2. /\ Stored(m) /\ Spend("others") /\ UNCHANGED <<lineup, creator, req, stoodDown>>
      /\ \E k \in 1..Len(Rows) : Rows[k].out # "none"
  BY <1>1 DEF EndMatch
<1>3. PICK n \in 1..Len(Rows) : rows = SubSeq(Rows, 1, n) /\ Rows[n].out # "none"
  BY <1>1, <1>2, Stripped
<1>4. rows \in Seq(Row) /\ Len(rows) = n /\ StaysOn(rows) /\ (\A i \in 1..n : rows[i] = Rows[i]) /\ DOMAIN rows = 1..n
  <2> HIDE DEF rows
  <2>1. n \in 0..Len(Rows)
    BY <1>1
  <2>2. rows \in Seq(Row) /\ Len(rows) = n /\ StaysOn(rows) /\ \A i \in 1..n : rows[i] = Rows[i]
    BY <1>1, <1>3, <2>1, Cut
  <2> QED BY <2>2
<1> HIDE DEF rows
<1>5. \A i \in 1..n : ended[i] = Overtaken(Rows[i]) /\ Rows[i] \in Row
  BY <1>1, <1>4
<1>6. \A i \in 1..n : Alike(Rows[i], ended[i]) /\ ended[i] \in Row
  <2>1. ASSUME NEW r \in Row PROVE Alike(r, Overtaken(r)) /\ Overtaken(r) \in Row
    BY DEF Alike, Overtaken, Row, Sides
  <2> QED BY <1>5, <2>1
<1>7. ended \in Seq(Row) /\ Len(ended) = n
  <2>1. ended = [i \in 1..n |-> ended[i]]
    BY <1>4
  <2> HIDE DEF ended
  <2> QED BY <1>6, <2>1
<1> HIDE DEF ended
<1>8. StaysOn(ended)
  <2>1. \A i \in 1..n : ended[i].on = Rows[i].on /\ ended[i].out = Rows[i].out /\ \A s \in Sides : ended[i][s] = Rows[i][s]
    BY <1>6 DEF Alike
  <2>2. \A i \in 1..n - 1 : i \in 1..Len(Rows) - 1 /\ i \in 1..n /\ i + 1 \in 1..n
    BY <1>1
  <2> QED BY <1>1, <1>7, <2>1, <2>2 DEF StaysOn
<1>9. rows[Len(rows)].out = Rows[n].out /\ Rows[n].out \in Outcomes
  BY <1>1, <1>3, <1>4 DEF Row
<1>10. m \in Encounter /\ m.status = "completed" /\ m.verdict # "none" /\ m.rows = ended
  BY <1>3, <1>7, <1>9, Known DEF Encounter, Cards
<1> HIDE DEF m
<1>11. match' \in Encounter /\ match'.rows = ended /\ match'.status = "completed" /\ match'.verdict # "none"
  BY <1>2, <1>10, Known, StoredIs
<1>12. left' \in [{"taps", "records", "others"} -> Nat] /\ left'["taps"] = left["taps"]
  BY <1>2, Known, SpendIs
<1>13. n <= MaxBouts
  BY <1>1, Known
<1>14. TypeOK' /\ WinnerStaysOn' /\ PickFits' /\ Trying' /\ Rows' = ended /\ LastBout' = n
  BY <1>2, <1>7, <1>8, <1>11, <1>12, <1>13, Known, RowsStep
<1>15. Owned'
  <2>1. \A i \in 1..n : i \in 1..LastBout /\ ended[i].owns = Rows[i].owns
    BY <1>1, <1>6 DEF Alike
  <2> QED BY <1>2, <1>11, <1>14, <2>1 DEF Inv, Owned
<1>16. Bounded'
  <2>1. n = LastBout => ~Open(Rows)
    BY <1>1, <1>3 DEF Open
  <2>2. n + left["taps"] <= MaxBouts - 1
    BY <1>1, <2>1, Known
  <2> QED BY <1>12, <1>14, <2>2, Known DEF Bounded
<1> QED BY <1>14, <1>15, <1>16 DEF Inv

\* A row no advance answers for any more.
Orphaned(r) == [r EXCEPT !.owns = FALSE]
LEMMA OrphanedIs ==
  \A r \in Row : /\ Orphaned(r) \in Row /\ Orphaned(r).owns = FALSE
                 /\ Orphaned(r).out = r.out /\ Orphaned(r).on = r.on
                 /\ \A s \in Sides : Orphaned(r)[s] = r[s]
  BY DEF Orphaned, Row, Sides

\* A reopening: the rows as they are, none of them an advance's any more.
LEMMA ReopenStep == ASSUME Inv, ReopenMatch PROVE Inv'
<1> DEFINE rows == [k \in DOMAIN Rows |-> [Rows[k] EXCEPT !.owns = FALSE]]
           m == [match EXCEPT !.status = "running", !.verdict = "none", !.rows = rows]
<1>1. Rows \in Seq(Row) /\ LastBout = Len(Rows) /\ StaysOn(Rows) /\ LastBout \in Nat /\ DOMAIN Rows = 1..LastBout
  BY Known
<1>2. Stored(m) /\ Spend("others") /\ UNCHANGED <<lineup, req, stoodDown>> /\ creator' = [k \in Positions |-> "none"]
  BY DEF ReopenMatch
<1>3. \A i \in 1..LastBout : /\ rows[i] \in Row /\ rows[i].owns = FALSE /\ rows[i].out = Rows[i].out /\ rows[i].on = Rows[i].on
                             /\ \A s \in Sides : rows[i][s] = Rows[i][s]
  <2>1. \A i \in 1..LastBout : rows[i] = Orphaned(Rows[i]) /\ Rows[i] \in Row
    BY <1>1 DEF Orphaned
  <2> HIDE DEF rows
  <2> QED BY <2>1, OrphanedIs
<1>4. rows \in Seq(Row) /\ Len(rows) = LastBout
  <2>1. rows = [i \in 1..LastBout |-> rows[i]]
    BY <1>1
  <2> HIDE DEF rows
  <2> QED BY <1>1, <1>3, <2>1
<1> HIDE DEF rows
<1>5. StaysOn(rows)
  <2>1. \A i \in 1..LastBout : rows[i].on = Rows[i].on /\ rows[i].out = Rows[i].out /\ \A s \in Sides : rows[i][s] = Rows[i][s]
    BY <1>3
  <2>2. \A i \in 1..LastBout - 1 : i \in 1..Len(Rows) - 1 /\ i \in 1..LastBout /\ i + 1 \in 1..LastBout
    BY <1>1
  <2> QED BY <1>1, <1>4, <2>1, <2>2 DEF StaysOn
<1>6. m \in Encounter /\ m.status = "running" /\ m.verdict = "none" /\ m.rows = rows
  BY <1>4, Known DEF Encounter, Cards
<1> HIDE DEF m
<1>7. match' \in Encounter /\ match'.rows = rows /\ match'.status = "running" /\ match'.verdict = "none"
  BY <1>2, <1>6, Known, StoredIs
<1>8. left' \in [{"taps", "records", "others"} -> Nat] /\ left'["taps"] = left["taps"]
  BY <1>2, Known, SpendIs
<1>9. creator' \in [Positions -> Room] /\ \A k \in Positions : creator'[k] = "none"
  BY <1>2 DEF Room
<1>10. TypeOK' /\ WinnerStaysOn' /\ PickFits' /\ Trying' /\ Rows' = rows /\ LastBout' = LastBout
  BY <1>2, <1>4, <1>5, <1>7, <1>8, <1>9, Known, RowsStep
<1>11. Owned'
  <2>1. \A i \in 1..LastBout : i \in Positions
    BY Known DEF Positions
  <2> QED BY <1>3, <1>9, <1>10, <2>1 DEF Owned
<1>12. Bounded'
  <2>1. Open(rows) <=> Open(Rows)
    BY <1>1, <1>3, <1>4 DEF Open
  <2> QED BY <1>8, <1>10, <2>1 DEF Inv, Bounded
<1> QED BY <1>10, <1>11, <1>12 DEF Inv

\* A lineup saved: every row keeps all but its fighters.
LEMMA Resaved ==
  ASSUME Inv, NEW s \in Sides, NEW i \in DOMAIN Saves[s], SaveLineup(s, Saves[s][i])
  PROVE  /\ lineup' \in Deals /\ match' \in Encounter /\ match'.status = match.status /\ match'.verdict = match.verdict
         /\ match'.rows \in Seq(Row) /\ Len(match'.rows) = LastBout /\ StaysOn(match'.rows)
         /\ \A k \in 1..LastBout : Kept(Rows[k], match'.rows[k])
         /\ \/ match' = match /\ creator' = creator
            \/ Applied(match'.rows, "other")
<1> DEFINE rows == IF Rows = <<>> THEN Rows ELSE SeatOpener(Rows, lineup')
<1>1. Saves[s][i] \in Seq(Fighters) \ {<<>>}
  BY LineupsAssumption
<1>2. lineup' = [lineup EXCEPT ![s] = Saves[s][i]] /\ lineup' \in Deals
  BY <1>1, Known DEF SaveLineup, Deals
<1>3. /\ Rows \in Seq(Row) /\ LastBout = Len(Rows) /\ StaysOn(Rows) /\ Rows = match.rows /\ match \in Encounter
      /\ \A k \in 1..LastBout : Rows[k] \in Row
  BY Known
<1>4. IF rows = Rows THEN UNCHANGED <<match, creator>> ELSE Stored([match EXCEPT !.rows = rows]) /\ Applied(rows, "other")
  BY DEF SaveLineup
<1>5. rows \in Seq(Row) /\ Len(rows) = LastBout /\ StaysOn(rows) /\ \A k \in 1..LastBout : Kept(Rows[k], rows[k])
  <2>1. CASE Rows = <<>>
    BY <1>3, <2>1 DEF Kept
  <2>2. CASE Rows # <<>>
    <3>1. rows = SeatOpener(Rows, lineup')
      BY <2>2
    <3> HIDE DEF rows
    <3> QED BY <1>2, <1>3, <3>1, Seated
  <2> QED BY <2>1, <2>2
<1> HIDE DEF rows
<1>6. CASE rows = Rows
  BY <1>2, <1>3, <1>4, <1>5, <1>6
<1>7. CASE rows # Rows
  <2>1. [match EXCEPT !.rows = rows] \in Encounter
    BY <1>3, <1>5 DEF Encounter
  <2>2. match' \in Encounter /\ match'.rows = rows /\ match'.status = match.status /\ match'.verdict = match.verdict
    BY <1>3, <1>4, <1>7, <2>1, StoredIs DEF Encounter
  <2> QED BY <1>2, <1>4, <1>5, <1>7, <2>2
<1> QED BY <1>6, <1>7

LEMMA SaveStep ==
  ASSUME Inv, NEW s \in Sides, NEW i \in DOMAIN Saves[s], SaveLineup(s, Saves[s][i])
  PROVE  Inv'
<1> DEFINE rows == match'.rows
<1>1. /\ lineup' \in Deals /\ match' \in Encounter /\ match'.status = match.status /\ match'.verdict = match.verdict
      /\ rows \in Seq(Row) /\ Len(rows) = LastBout /\ StaysOn(rows)
      /\ \A k \in 1..LastBout : Kept(Rows[k], rows[k])
      /\ (match' = match /\ creator' = creator) \/ Applied(rows, "other")
  BY Resaved
<1>2. Spend("others") /\ UNCHANGED <<req, stoodDown>>
  BY DEF SaveLineup
<1>3. left' \in [{"taps", "records", "others"} -> Nat] /\ left'["taps"] = left["taps"]
  BY <1>2, Known, SpendIs
<1>4. Rows' = rows /\ LastBout' = LastBout
  BY <1>1, Known DEF Rows, LastBout
<1> HIDE DEF rows
<1>5. Owned' /\ creator' \in [Positions -> Room]
  <2>1. CASE match' = match /\ creator' = creator
    <3>1. Rows' = Rows
      BY <2>1 DEF Rows
    <3> QED BY <1>4, <2>1, <3>1, Known DEF Inv, Owned
  <2>2. CASE Applied(rows, "other")
    <3>1. \A k \in 1..LastBout : rows[k].owns = Rows[k].owns
      BY <1>1 DEF Kept
    <3>2. LastBout <= Len(rows) /\ Len(rows) <= MaxBouts /\ \A k \in 1..Len(rows) : ~(k > LastBout)
      BY <1>1, Known
    <3> QED BY <1>1, <1>4, <2>2, <3>1, <3>2, OtherDoor
  <2> QED BY <1>1, <2>1, <2>2
<1>6. TypeOK' /\ WinnerStaysOn' /\ PickFits' /\ Trying'
  <2>1. match'.status = "completed" <=> match'.verdict # "none"
    BY <1>1, Known
  <2>2. Len(rows) <= MaxBouts /\ match'.rows = rows
    BY <1>1, Known DEF rows
  <2> QED BY <1>1, <1>2, <1>3, <1>5, <2>1, <2>2, RowsStep
<1>7. Bounded'
  <2>1. Open(rows) <=> Open(Rows)
    BY <1>1, Known DEF Open, Kept
  <2> QED BY <1>3, <1>4, <2>1 DEF Inv, Bounded
<1> QED BY <1>5, <1>6, <1>7 DEF Inv

-----------------------------------------------------------------------------
LEMMA InitInv == ASSUME Init PROVE Inv
<1>1. Rows = <<>> /\ LastBout = 0
  BY DEF Init, Rows, LastBout
<1>2. TypeOK
  <2>1. match \in Encounter /\ match.status # "completed" /\ match.verdict = "none"
    BY DEF Init, Encounter, Cards
  <2>2. lineup \in Deals
    <3>1. \A s \in Sides : Saves[s][1] \in Seq(Fighters) \ {<<>>}
      BY LineupsAssumption DEF Sides
    <3> QED BY <3>1 DEF Init, Deals
  <2>3. NoReq \in Asks
    BY DEF NoReq, Asks, KachinukiAdvanceAttempts
  <2>4. req \in [Devices -> Asks]
    BY <2>3 DEF Init
  <2>5. creator \in [Positions -> Room] /\ stoodDown \subseteq 1..KachinukiAdvanceAttempts
    BY DEF Init, Room
  <2>6. left \in [{"taps", "records", "others"} -> Nat] /\ LastBout <= MaxBouts
    BY <1>1, BudgetAssumption DEF Init
  <2> QED BY <2>1, <2>2, <2>4, <2>5, <2>6, Typed
<1>3. WinnerStaysOn
  BY <1>1 DEF WinnerStaysOn
<1>4. PickFits /\ Trying
  BY DEF Init, NoReq, PickFits, Trying
<1>5. Owned
  BY <1>1 DEF Init, Owned
<1>6. Bounded
  BY <1>1, BudgetAssumption DEF Init, Bounded, Open
<1> QED BY <1>2, <1>3, <1>4, <1>5, <1>6 DEF Inv

\* Every step keeps the invariant.
LEMMA NextInv == ASSUME Inv, [Next]_vars PROVE Inv'
<1>1. ASSUME UNCHANGED vars PROVE Inv'
  <2>1. UNCHANGED <<match, lineup, creator, req, left, stoodDown>>
    BY <1>1 DEF vars
  <2> QED BY <2>1, Known, RequestStep, SameReqs DEF Inv
<1>2. ASSUME NEW d \in Devices,
             \/ RecordBout(d)
             \/ ScoreWriteLands(d)
             \/ AdvanceRead(d)
             \/ AdvanceWrite(d)
             \/ Answer(d)
             \/ Lose(d)
      PROVE  Inv'
  BY <1>2, RecordStep, LandStep, ReadStep, WriteStep, AnswerStep, LoseStep
<1> QED BY <1>1, <1>2, TapStep, HandPickStep, RemoveStep, EndStep, ReopenStep, QueueStep, SaveStep DEF Next

\* The whole invariant: the log, the tablets' requests and the history agree.
THEOREM KachinukiInvariant == Spec => []Inv
<1>1. Init => Inv
  BY InitInv
<1>2. Inv /\ [Next]_vars => Inv'
  BY NextInv
<1> QED BY <1>1, <1>2, PTL DEF Spec

\* The winner stays on: while the result an advance went by stands, the pairing
\* it appended has that bout's winner, whatever lineups have renamed since
\* (openerSeatEvents renames a streak, not a bout).
THEOREM WinnerStays == Spec => []WinnerStaysOn
<1>1. Inv => WinnerStaysOn
  BY DEF Inv
<1> QED BY <1>1, KachinukiInvariant, PTL

-----------------------------------------------------------------------------
\* What PairingFitsTheLog says of one step.
Lands == \A d \in Devices :
  AdvanceWrite(d) /\ LastBout' = LastBout + 1 =>
    LET last == Rows[LastBout]
        next == Rows'[LastBout + 1]
    IN  /\ last.out # "none"
        /\ \A s \in Sides :
             \/ last.out = s /\ next[s] = last[s]
             \/ last.out # s /\ next[s] \notin Retired(Rows, s)
             \/ last.out = "draw" /\ next[s] = last[s]
                /\ next[Other(s)] \notin Retired(Rows, Other(s))

\* What FinishedStaysFinished says of one step.
StaysFinished == match.status = "completed" =>
  \/ ReopenMatch
  \/ /\ match'.status = "completed" /\ match'.verdict = match.verdict
     /\ LastBout' = LastBout
     /\ \A k \in DOMAIN Rows : Rows'[k].out = Rows[k].out
                              /\ Rows'[k].rec = Rows[k].rec

\* A pairing that lands was worked out of the log it lands on: the locked write
\* compares the log with the one it read before it appends.
LEMMA LandsStep == ASSUME Inv PROVE Lands
<1> SUFFICES ASSUME NEW d \in Devices, AdvanceWrite(d), LastBout' = LastBout + 1
             PROVE  LET last == Rows[LastBout]
                        next == Rows'[LastBout + 1]
                    IN  /\ last.out # "none"
                        /\ \A s \in Sides :
                             \/ last.out = s /\ next[s] = last[s]
                             \/ last.out # s /\ next[s] \notin Retired(Rows, s)
                             \/ last.out = "draw" /\ next[s] = last[s]
                                /\ next[Other(s)] \notin Retired(Rows, Other(s))
  BY DEF Lands
<1> DEFINE pick == req[d].pick
           last == Rows[LastBout]
           next == Rows'[LastBout + 1]
<1>0. LastBout \in Nat /\ LastBout = Len(Rows)
  BY Known
<1>1. KachinukiAdvanceStillHolds(req[d].snap)
  <2> SUFFICES ASSUME ~KachinukiAdvanceStillHolds(req[d].snap) PROVE LastBout' = LastBout
    BY <1>0
  <2>1. match' = match
    BY DEF AdvanceWrite
  <2> QED BY <2>1 DEF LastBout, Rows
<1>2. pick # <<>> /\ FitsAfter(Rows, pick) /\ \A s \in Sides : next[s] = At(pick, s)
  <2>1. LastBout' = IF pick = <<>> THEN LastBout ELSE LastBout + 1
    BY <1>1, Advanced
  <2>2. pick # <<>>
    BY <1>0, <2>1
  <2> QED BY <1>1, <2>2, Advanced
<1>3. \A s \in Sides : Other(s) \in Sides
  BY DEF Other, Sides
<1> HIDE DEF pick, next
<1> QED BY <1>0, <1>2, <1>3 DEF FitsAfter, next

\* On a finished match only the doors that leave results alone are open.
LEMMA FinishedStep == ASSUME Inv, [Next]_vars PROVE StaysFinished
<1> SUFFICES ASSUME match.status = "completed", ~ReopenMatch
             PROVE  /\ match'.status = "completed" /\ match'.verdict = match.verdict
                    /\ LastBout' = LastBout
                    /\ \A k \in 1..LastBout : Rows'[k].out = Rows[k].out /\ Rows'[k].rec = Rows[k].rec
  <2>1. DOMAIN Rows = 1..LastBout
    BY Known
  <2> QED BY <2>1 DEF StaysFinished
<1>1. CASE match' = match
  BY <1>1 DEF Rows, LastBout
<1>2. ASSUME NEW s \in Sides, NEW i \in DOMAIN Saves[s], SaveLineup(s, Saves[s][i])
      PROVE  /\ match'.status = "completed" /\ match'.verdict = match.verdict
             /\ LastBout' = LastBout
             /\ \A k \in 1..LastBout : Rows'[k].out = Rows[k].out /\ Rows'[k].rec = Rows[k].rec
  <2>1. /\ match'.status = match.status /\ match'.verdict = match.verdict
        /\ match'.rows \in Seq(Row) /\ Len(match'.rows) = LastBout
        /\ \A k \in 1..LastBout : Kept(Rows[k], match'.rows[k])
    BY <1>2, Resaved
  <2>2. Rows' = match'.rows /\ LastBout' = Len(match'.rows)
    BY DEF Rows, LastBout
  <2> QED BY <2>1, <2>2 DEF Kept
<1>3. ASSUME NEW d \in Devices,
             \/ RecordBout(d)
             \/ ScoreWriteLands(d)
             \/ AdvanceRead(d)
             \/ AdvanceWrite(d)
             \/ Answer(d)
             \/ Lose(d)
      PROVE  match' = match
  BY <1>3 DEF RecordBout, ScoreWriteLands, AdvanceRead, AdvanceWrite, KachinukiAdvanceStillHolds, Answer, Lose
<1>4. ~RemoveBout /\ ~EndMatch /\ ~RevertMatchToQueue /\ ~StartMatch
  BY DEF RemoveBout, EndMatch, RevertMatchToQueue, StartMatch
<1>5. (\A k \in Positions, o \in Outcomes \cup {"none"} : ~Tap(k, o)) /\ (\A p \in Picks : ~HandPick(p))
  BY DEF Tap, HandPick
<1> QED BY <1>1, <1>2, <1>3, <1>4, <1>5 DEF Next, vars

\* What an advance worked out without the lock never lands where it no longer
\* belongs: the pairing it appends fits the log it lands on, and a finished match
\* stays as it was finished until it is reopened, whatever taps, removals,
\* lineups and re-deliveries came between the read and the write.
THEOREM AdvanceLands == Spec => AdvanceFits
<1>1. Inv /\ [Next]_vars => [Lands]_vars
  BY LandsStep
<1>2. Inv /\ [Next]_vars => [StaysFinished]_vars
  BY FinishedStep
<1> HIDE DEF Lands, StaysFinished
<1>3. Spec => [][Lands]_vars
  BY <1>1, KachinukiInvariant, PTL DEF Spec
<1>4. Spec => [][StaysFinished]_vars
  BY <1>2, KachinukiInvariant, PTL DEF Spec
<1> QED BY <1>3, <1>4 DEF AdvanceFits, PairingFitsTheLog, FinishedStaysFinished, Lands, StaysFinished

\* What RemoveUndoesItsRecord says of one step.
Undoes == RemoveBout =>
  LET k == LastBout - 1
  IN  Rows'[k].rec = (Rows[k].rec /\ ~Rows[LastBout].owns)

\* The history a removal folds tells the same story as the rows it is about.
LEMMA UndoesStep == ASSUME Inv PROVE Undoes
<1> SUFFICES ASSUME RemoveBout
             PROVE  Rows'[LastBout - 1].rec = (Rows[LastBout - 1].rec /\ ~Rows[LastBout].owns)
  BY DEF Undoes
<1> DEFINE k == LastBout - 1
<1>1. /\ match'.rows[k].rec = IF Rows[k].rec /\ creator[LastBout] = "advance" THEN FALSE ELSE Rows[k].rec
      /\ k \in 1..Len(Rows)
  BY Removed
<1>2. Rows[LastBout].owns <=> creator[LastBout] = "advance"
  BY <1>1, Known DEF Inv, Owned
<1>3. Rows'[k].rec = match'.rows[k].rec
  BY DEF Rows
<1>4. Rows[k].rec \in BOOLEAN /\ Rows[LastBout].owns \in BOOLEAN
  <2>1. Rows[k] \in Row /\ Rows[LastBout] \in Row
    BY <1>1, Known DEF RemoveBout
  <2> QED BY <2>1 DEF Row
<1> QED BY <1>1, <1>2, <1>3, <1>4

\* Removing a pairing takes the recorded mark off the bout before it exactly when
\* the advance that appended the removed row, in its present life, had set it
\* (boutAppendedByRecordBout reads that out of the history).
THEOREM RemovalUndoes == Spec => RemoveUndoesItsRecord
<1>1. Inv /\ [Next]_vars => [Undoes]_vars
  BY UndoesStep
<1> HIDE DEF Undoes
<1>2. Spec => [][Undoes]_vars
  BY <1>1, KachinukiInvariant, PTL DEF Spec
<1> QED BY <1>2 DEF RemoveUndoesItsRecord, Undoes
=============================================================================
