--------------------------- MODULE MCLocRatchet ---------------------------
(* Policies for model checking LocRatchet on two files. *)
EXTENDS LocRatchet, TLC

CONSTANTS f1, f2

Symmetry == Permutations(Creators) \cup Permutations(Updaters)

Fail == [enabled |-> TRUE, ratchetAt |-> "fail", warnAt |-> 1, failAt |-> 2,
         excluded |-> {}, allowedLarge |-> {}, overrides |-> <<>>]

\* Review-level adoption, with f2 under two matching overrides.
Review == [Fail EXCEPT
    !.ratchetAt = "review",
    !.overrides = <<[match |-> {f1, f2}, warnAt |-> 2, failAt |-> 3],
                    [match |-> {f2}, warnAt |-> 1, failAt |-> 3]>>]

\* A policy that takes one file out of the ratchet and exempts the other.
Exempting == [Review EXCEPT !.excluded = {f1}, !.allowedLarge = {f2}]

\* Thresholds raised above what was adopted.
Raised == [Fail EXCEPT !.ratchetAt = "review", !.warnAt = 3, !.failAt = 4]

Policies == {Fail, Review, Exempting, [Fail EXCEPT !.enabled = FALSE]}
Loosened == {Review, Raised}
===========================================================================
