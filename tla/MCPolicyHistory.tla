-------------------------- MODULE MCPolicyHistory --------------------------
(* Policies one or two edits away from a common one.                       *)
EXTENDS PolicyHistory, TLC

CONSTANTS f1, f2, one, both, py, txt, guard, subject

Coverage == one :> {f1} @@ both :> {f1, f2}
Kinds == f1 :> py @@ f2 :> txt
Guards == subject :> guard

Plain == [enabled |-> TRUE, ratchetAt |-> "fail", warnAt |-> 1, failAt |-> 2,
          countBlank |-> FALSE, countComments |-> TRUE, extensions |-> {py, txt},
          exclude |-> {}, allowedLarge |-> {}, overrides |-> <<>>]

Override(m, w, f) == [match |-> m, warnAt |-> w, failAt |-> f]

Empty ==
    [loc |-> Plain, reviews |-> (guard :> [enabled |-> TRUE, reviewAt |-> 1]), scope |-> {},
     allowed |-> [f \in Files |-> 0], reviewed |-> [s \in Subjects |-> 0]]

Ratcheting(p, n) == [p EXCEPT !.allowed[f1] = n]

\* The controls of guards.loc, with and without an allowance.
LocEdits == {[Empty EXCEPT !.loc = c] : c \in {
    Plain,
    [Plain EXCEPT !.enabled = FALSE],
    [Plain EXCEPT !.enabled = FALSE, !.failAt = 3],
    [Plain EXCEPT !.failAt = 3],
    [Plain EXCEPT !.warnAt = 2, !.failAt = 3],
    [Plain EXCEPT !.ratchetAt = "review"],
    [Plain EXCEPT !.countBlank = TRUE],
    [Plain EXCEPT !.countComments = FALSE],
    [Plain EXCEPT !.extensions = {txt}],
    [Plain EXCEPT !.exclude = {one}],
    [Plain EXCEPT !.allowedLarge = {one}],
    [Plain EXCEPT !.overrides = <<Override({one}, 1, 3)>>],
    [Plain EXCEPT !.overrides = <<Override({one}, 2, 3)>>],
    [Plain EXCEPT !.overrides = <<Override({one}, 2, 3), Override({both}, 1, 2)>>],
    [Plain EXCEPT !.ratchetAt = "review", !.overrides = <<Override({both}, 1, 3)>>]}}

\* A review threshold and the allowances under it.
ReviewEdits == {[Empty EXCEPT !.reviews = guard :> [enabled |-> TRUE, reviewAt |-> 2]],
    [Empty EXCEPT !.reviews = guard :> [enabled |-> FALSE, reviewAt |-> 2]],
    [Empty EXCEPT !.reviewed = subject :> 2]}

\* Allowances where they interact with a mode, an exemption, an override.
Few == LocEdits \cup ReviewEdits \cup {
    [Empty EXCEPT !.scope = {one}],
    Ratcheting(Empty, 2), Ratcheting(Empty, 3),
    Ratcheting([Empty EXCEPT !.loc.ratchetAt = "review"], 2),
    Ratcheting([Empty EXCEPT !.loc.allowedLarge = {one}], 3)}

Sizes == [code : 0..3, blank : 0..1, comment : 0..1]
============================================================================
