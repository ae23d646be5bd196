----------------------------- MODULE AtomicEditor -----------------------------
(***************************************************************************)
(* What editing promises, with neither sessions, locks nor requests under  *)
(* way: in one step the deck gets its new slides and the next version a    *)
(* copy of the deck they were made from.  That deck is the present one, or *)
(* else the write is known to have cost a deck.                            *)
(***************************************************************************)
EXTENDS Integers

CONSTANTS Slides, MaxVersions

VARIABLES
    deck,   \* the presentation: for each slide the version that wrote it, 0 the generation
    kept,   \* the deck each version has kept
    seen,   \* all decks the presentation has had
    lossy   \* a write replaced a deck it did not keep, or a merge one it did not read

vars == <<deck, kept, seen, lossy>>

Generated == [s \in Slides |-> 0]

Init ==
    /\ deck = Generated
    /\ kept = [n \in {} |-> Generated]
    /\ seen = {Generated}
    /\ lossy = FALSE

(* Version n keeps copy, and the presentation gets new.                    *)
Save(n, copy, new) ==
    /\ n \notin DOMAIN kept
    /\ n = 1 \/ n - 1 \in DOMAIN kept
    /\ kept' = [m \in DOMAIN kept \cup {n} |-> IF m = n THEN copy ELSE kept[m]]
    /\ deck' = new
    /\ seen' = seen \cup {new}
    /\ lossy' \in BOOLEAN
    /\ lossy \/ copy # deck => lossy'

(* One slide is rewritten, in a deck that is kept.                         *)
Edit(n) == \E base \in seen, s \in Slides : Save(n, base, [base EXCEPT ![s] = n])

(* A kept deck comes back, and the one it replaces is kept.                *)
Rollback(n) == \E base \in seen, m \in DOMAIN kept : Save(n, base, kept[m])

(* Merged slides, all of one deck, are the new ones and the ones kept.     *)
Merge(n) == \E m \in DOMAIN kept : Save(n, kept[m], kept[m]) /\ lossy'

Next == \E n \in 1..MaxVersions : Edit(n) \/ Rollback(n) \/ Merge(n)

Spec == Init /\ [][Next]_vars

===============================================================================
