---------------------------- MODULE AtomicStore ----------------------------
(***************************************************************************)
(* What the store promises of one competition's folder: every file holds   *)
(* the updates made to it, a transaction's update of several files lands   *)
(* on all of them in one step, and nothing that has landed is ever taken   *)
(* back.  A restart, a replay of the log and a cache are not part of the   *)
(* promise.  A file's content is abstracted to the set of updates it       *)
(* holds: every saver of the code reads a file, changes it and writes it   *)
(* whole again.                                                            *)
(***************************************************************************)
CONSTANTS Files,        \* the files of one competition
          DirectFiles,  \* those a transaction writes without staging them
          Updates       \* identities of the updates, each made at most once

VARIABLE store          \* store[f]: the updates file f holds

TypeOK == store \in [Files -> SUBSET Updates]

Init == store = [f \in Files |-> {}]

Landed == {t \in Updates : \E f \in Files \ DirectFiles : t \in store[f]}

\* The staged files of a transaction, or the one file of a plain save.
Update(t, F) ==
    /\ t \notin Landed
    /\ store' = [f \in Files |-> IF f \in F THEN store[f] \cup {t} ELSE store[f]]

Next == \E t \in Updates, F \in (SUBSET Files) \ {{}} :
          /\ \/ F \subseteq Files \ DirectFiles
             \/ \E f \in Files : F = {f}
          /\ Update(t, F)

Spec == Init /\ [][Next]_store
=============================================================================
