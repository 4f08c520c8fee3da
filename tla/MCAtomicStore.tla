--------------------------- MODULE MCAtomicStore ---------------------------
(***************************************************************************)
(* AtomicStore on two writers and a reader.  Writers and documents are     *)
(* interchangeable; a temporal property does not allow TLC's symmetry, so  *)
(* the initial states are cut down to one of each orbit.                   *)
(***************************************************************************)
EXTENDS AtomicStore, Naturals

CONSTANTS w1, w2, d1, d2

Rank(w) ==
    (CASE kind[w] = "create" -> 0 [] kind[w] = "replace" -> 2 [] OTHER -> 4)
    + (IF doc[w] = d1 THEN 0 ELSE 1)

MCInit == Init /\ data[Old] = d1 /\ Rank(w1) <= Rank(w2)
MCSpec == MCInit /\ [][Next]_vars /\ Fairness
===========================================================================
