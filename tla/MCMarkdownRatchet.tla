------------------------- MODULE MCMarkdownRatchet -------------------------
(* Policies for model checking MarkdownRatchet on two documents.           *)
EXTENDS MarkdownRatchet, TLC

CONSTANTS d1, d2

Symmetry == Permutations(Updaters)

Plain == [enabled |-> TRUE, reviewAt |-> 1, excluded |-> {}]
Varied == {Plain, [Plain EXCEPT !.reviewAt = 2], [Plain EXCEPT !.excluded = {d1}],
           [Plain EXCEPT !.enabled = FALSE]}
=============================================================================
