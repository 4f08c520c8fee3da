------------------------- MODULE MCCallableRatchet -------------------------
(* Policies for model checking CallableRatchet.                            *)
EXTENDS CallableRatchet, TLC

CONSTANTS f1, f2, g1

\* The target that Init gives everyone is not looked at before Begin sets it.
Symmetry == Permutations(Accepters) \cup Permutations(Updaters) \cup Permutations(Names)

Plain == [enabled |-> Guards, reviewAt |-> [g \in Guards |-> 1], excluded |-> {}]

\* Policies that turn the guards off, or raise thresholds and exclude a file.
Varied == {Plain,
           [Plain EXCEPT !.enabled = {}],
           [Plain EXCEPT !.reviewAt = [g \in Guards |-> 2], !.excluded = {f1}]}
=============================================================================
