----------------------------- MODULE BoutScore -----------------------------
(***************************************************************************)
(* One bout's scoring: the struck marks of each side with the id each mark *)
(* is named by, the outstanding fouls, the overtime count, the Tie and the *)
(* per-bout fusensho.  Every tap of a board, and every line of a score log,*)
(* is folded by these operators (internal/domain/score_event.go).  An      *)
(* operator answers the new score and what became of the tap.              *)
(*                                                                         *)
(* A letter is a struck point ("M" stands for any strike, "H" for a point  *)
(* landed by fouls) or the maru "O" of a fusensho.  Placeholder slots are  *)
(* layout and are left out.                                                *)
(***************************************************************************)
EXTENDS Integers, SequencesExt

MaxIpponsPerSide == 2
Side == {"a", "b"}
Other(s) == IF s = "a" THEN "b" ELSE "a"
None == "none"
Maru == "O"

\* A mark and the id the board removes it by.  Ids are tuples: <<device, n>>
\* for a tap's mark, longer ones where they are derived, <<>> for none.
NoId == <<>>
Mark(letter, id) == [letter |-> letter, id |-> id]

EmptyBout == [ip |-> [s \in Side |-> <<>>], fouls |-> [s \in Side |-> 0],
              encho |-> 0, draw |-> FALSE, fusensho |-> None, pre |-> <<>>]

Outcome(bout, word) == [bout |-> bout, outcome |-> word]

\* The points a competitor struck: a fusensho's maru are not among them.
StruckIppons(marks) == SelectSeq(marks, LAMBDA m : m.letter # Maru)
Struck(b, s) == Len(StruckIppons(b.ip[s]))
Points(b, s) == Len(b.ip[s])

\* The score without its fusensho: the awarded side keeps only what it struck.
ClearFusensho(b) ==
  IF b.fusensho = None THEN [b EXCEPT !.pre = <<>>]
  ELSE [b EXCEPT !.pre = <<>>, !.fusensho = None,
                 !.ip[b.fusensho] = StruckIppons(@)]

RemovesLosingSideMark(prev, next) ==
  /\ prev.fusensho # None
  /\ next.fusensho = prev.fusensho
  /\ next.ip[prev.fusensho] = prev.ip[prev.fusensho]
  /\ next.fouls = prev.fouls
  /\ Len(next.ip[Other(prev.fusensho)]) < Len(prev.ip[Other(prev.fusensho)])

\* A correction of the side a fusensho went against keeps it, and the score it
\* was given over follows; every other edit ends the fusensho and the Tie.
ApplyBoutScoreEdit(prev, next) ==
  IF RemovesLosingSideMark(prev, next)
  THEN IF next.pre = <<>> THEN next
       ELSE LET lost == Other(prev.fusensho)
            IN  [next EXCEPT !.pre = <<[@[1] EXCEPT !.ip[lost] = next.ip[lost]]>>]
  ELSE [ClearFusensho(next) EXCEPT !.draw = FALSE]

AddIpponPastTwo(b, s, letter, id) ==                                \* mutant
  IF Struck(b, s) >= MaxIpponsPerSide THEN Outcome(b, "capped")
  ELSE Outcome(ApplyBoutScoreEdit(b, [b EXCEPT !.ip[s] = Append(@, Mark(letter, id))]), "applied")

\* A strike past two points, or against a side that already has two, is capped.
AddIppon(b, s, letter, id) ==
  IF Struck(b, s) >= MaxIpponsPerSide \/ Struck(b, Other(s)) >= MaxIpponsPerSide
  THEN Outcome(b, "capped")
  ELSE Outcome(ApplyBoutScoreEdit(b, [b EXCEPT !.ip[s] = Append(@, Mark(letter, id))]), "applied")

PositionsOf(b, s, target) == {i \in 1 .. Len(b.ip[s]) : b.ip[s][i].id = target}

RemoveMark(b, target) ==
  LET held == {s \in Side : PositionsOf(b, s, target) # {}}
  IN IF held = {} THEN Outcome(b, "noTarget")
     ELSE LET s == IF "a" \in held THEN "a" ELSE "b"
              at == CHOOSE i \in PositionsOf(b, s, target) :
                      \A j \in PositionsOf(b, s, target) : i <= j
          IN IF b.ip[s][at].letter = Maru THEN Outcome(b, "notAllowed")
             ELSE Outcome(ApplyBoutScoreEdit(b, [b EXCEPT !.ip[s] = RemoveAt(@, at)]), "applied")

AddFoulUncapped(b, s, id) ==                                        \* mutant
  LET landsH == b.fouls[s] + 1 >= 2
      next == [b EXCEPT !.fouls[s] = IF @ + 1 < 2 THEN @ + 1 ELSE 0,
                        !.ip[Other(s)] = IF landsH THEN Append(@, Mark("H", id)) ELSE @]
  IN Outcome(ApplyBoutScoreEdit(b, next), "applied")

\* The second outstanding foul lands an H for the opponent, unless the bout is
\* already decided; either way the count starts again.
AddFoul(b, s, id) ==
  LET landsH == /\ b.fouls[s] + 1 >= 2
                /\ \A t \in Side : Points(b, t) < MaxIpponsPerSide
      next == [b EXCEPT !.fouls[s] = IF @ + 1 < 2 THEN @ + 1 ELSE 0,
                        !.ip[Other(s)] = IF landsH THEN Append(@, Mark("H", id)) ELSE @]
  IN Outcome(ApplyBoutScoreEdit(b, next), "applied")

RemoveFoul(b, s) ==
  IF b.fouls[s] <= 0 THEN Outcome(b, "noTarget")
  ELSE Outcome(ApplyBoutScoreEdit(b, [b EXCEPT !.fouls[s] = @ - 1]), "applied")

AdjustEncho(b, delta) ==
  IF b.encho + delta < 0 THEN Outcome(b, "noTarget")
  ELSE Outcome([b EXCEPT !.encho = @ + delta], "applied")

\* The score a fusensho is given over.
FusenshoBase(b) == IF b.pre # <<>> THEN b.pre[1] ELSE ClearFusensho(b)

FusenshoAllowed(b, s) ==
  b.fusensho = s \/ Struck(FusenshoBase(b), Other(s)) < MaxIpponsPerSide

\* One maru per point of the bout (one in overtime), the other side keeps what
\* it struck, the fouls and the Tie go, and the score before is remembered.
SetFusensho(b, s, id) ==
  IF b.fusensho = s THEN Outcome(b, "applied")
  ELSE IF ~FusenshoAllowed(b, s) THEN Outcome(b, "notAllowed")
  ELSE LET snap == FusenshoBase(b)
           maru == IF b.encho > 0 THEN <<Mark(Maru, id)>>
                   ELSE <<Mark(Maru, id), Mark(Maru, Append(id, 1))>>
       IN Outcome([b EXCEPT !.fouls = [t \in Side |-> 0], !.draw = FALSE,
                            !.pre = <<snap>>, !.fusensho = s,
                            !.ip = [t \in Side |-> IF t = s THEN maru
                                                   ELSE StruckIppons(snap.ip[t])]], "applied")

ClearBoutDecisionKeepsEdits(b) ==                                   \* mutant
  Outcome([ClearFusensho(b) EXCEPT !.draw = FALSE, !.pre = <<>>], "applied")

\* The bout decision's clear: a fusensho goes back to the score it was given
\* over, the overtime count stays.
ClearBoutDecision(b) ==
  LET back == IF b.fusensho = None THEN b
              ELSE IF b.pre # <<>> THEN [b.pre[1] EXCEPT !.encho = b.encho]
              ELSE ClearFusensho(b)
  IN Outcome([back EXCEPT !.draw = FALSE, !.pre = <<>>], "applied")

SetDraw(b) == Outcome([ClearFusensho(b) EXCEPT !.draw = TRUE], "applied")

BoutWinnerSide(b) ==
  IF b.draw THEN None
  ELSE IF b.fusensho # None THEN b.fusensho
  ELSE IF Points(b, "a") > Points(b, "b") THEN "a"
  ELSE IF Points(b, "b") > Points(b, "a") THEN "b" ELSE None

Played(b) ==
  \/ b.fusensho # None \/ b.draw \/ b.encho > 0
  \/ \E s \in Side : b.ip[s] # <<>> \/ b.fouls[s] > 0

FoldScoring(b, e) ==
  CASE e.kind = "ippon.add"      -> AddIppon(b, e.side, e.letter, e.id)
    [] e.kind = "ippon.remove"   -> RemoveMark(b, e.target)
    [] e.kind = "foul.add"       -> AddFoul(b, e.side, e.id)
    [] e.kind = "foul.remove"    -> RemoveFoul(b, e.side)
    [] e.kind = "encho.add"      -> AdjustEncho(b, 1)
    [] e.kind = "encho.remove"   -> AdjustEncho(b, -1)
    [] OTHER                     -> Outcome(b, "notAllowed")

\* A tap on a bout row: a decision of the bout, or a strike, foul or overtime.
FoldBoutTap(b, e) ==
  CASE e.kind = "fusensho"       -> SetFusensho(b, e.side, e.id)
    [] e.kind = "hikiwake"       -> SetDraw(b)
    [] e.kind = "clear"          -> ClearBoutDecision(b)
    [] OTHER                     -> FoldScoring(b, e)
=============================================================================
