---------------------------- MODULE AtomicFolder ----------------------------
(***************************************************************************)
(* What a restore promises of the data folder: whatever stops it, the      *)
(* folder holds either everything the restore puts in place or nothing of  *)
(* it, the tournament's password is the one in force when it lands, and no *)
(* change made by an operator is undone except by a restore.               *)
(***************************************************************************)
EXTENDS Naturals

CONSTANTS Comps,      \* competition folders
          Settings,   \* the tournament's own settings
          Tokens,     \* restores
          Passwords,
          None

VARIABLES folder,     \* folder[p]: the content at p, or None
          ops,        \* operations an operator has made
          asked,      \* asked[t]: what restore t puts in place and removes
          restored    \* restores that have landed

vars == <<folder, ops, asked, restored>>
Paths == Comps \cup {Settings}

TypeOK == /\ restored \subseteq Tokens
          /\ \A t \in restored : asked[t] # None

Init == /\ \E present \in SUBSET Comps : {p \in Paths : folder[p] # None} = present \cup {Settings}
        /\ ops = 0 /\ asked = [t \in Tokens |-> None] /\ restored = {}

\* One operation on one path, which bears its number.
Operate(p) ==
    /\ ops' = ops + 1
    /\ \A q \in Paths \ {p} : folder'[q] = folder[q]
    /\ folder'[p] # None => folder'[p].by = ops'
    /\ UNCHANGED <<asked, restored>>

Ask(t) ==
    /\ asked[t] = None /\ asked'[t] # None
    /\ \A u \in Tokens \ {t} : asked'[u] = asked[u]
    /\ UNCHANGED <<folder, ops, restored>>

Restore(t) ==
    /\ t \notin restored /\ asked[t] # None
    /\ restored' = restored \cup {t}
    /\ \A p \in Paths :
         IF p \in asked[t].puts THEN folder'[p] # None /\ folder'[p].by = t
         ELSE folder'[p] = IF p \in asked[t].removes THEN None ELSE folder[p]
    /\ folder'[Settings].pw = folder[Settings].pw
    /\ UNCHANGED <<ops, asked>>

\* A match goes back to the queue.
Requeue(p) ==
    /\ folder[p] # None
    /\ folder' = [folder EXCEPT ![p].run = "no"]
    /\ UNCHANGED <<ops, asked, restored>>

Next == \/ \E p \in Paths : Operate(p)
        \/ \E p \in Comps : Requeue(p)
        \/ \E t \in Tokens : Ask(t) \/ Restore(t)

Spec == Init /\ [][Next]_vars
=============================================================================
