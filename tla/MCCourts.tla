------------------------------ MODULE MCCourts ------------------------------
(* A pool bout and a final of one competition and a match of another, on     *)
(* two courts.                                                              *)
EXTENDS Courts

CONSTANTS ours, final, theirs

MCCompOf == [m \in Matches |-> IF m = theirs THEN "c2" ELSE "c1"]
MCPools == {ours}
MCCourts == {"A", "B"}
AllKinds == {"start", "back", "reopen", "swap", "move"}

M(status, court, time) == [status |-> status, court |-> court, time |-> time,
                           ungated |-> FALSE, barred |-> FALSE]
By(mp, mk, mr) == [m \in Matches |-> CASE m = ours -> mp [] m = final -> mk [] m = theirs -> mr]

MCLayouts ==
  {By(M("scheduled", "A", 2), M("scheduled", "A", 1), M("running", "B", 0)),
   By(M("completed", "A", 1), M("scheduled", "B", 2), M("running", "A", 2))}

=============================================================================
