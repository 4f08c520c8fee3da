--------------------------- MODULE MCAnalysisRun ---------------------------
(* Policies and tables of allowances for model checking AnalysisRun.        *)
EXTENDS AnalysisRun

CONSTANTS c1, d1

Plain == [enabled |-> TRUE, ratchetAt |-> "fail", warnAt |-> 1, failAt |-> 2,
          excluded |-> {}, allowedLarge |-> {}, overrides |-> <<>>]

Varied == {Plain, [Plain EXCEPT !.allowedLarge = {c1}]}

Tight == {[f \in Files |-> 3]}
============================================================================
