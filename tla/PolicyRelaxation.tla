-------------------------- MODULE PolicyRelaxation --------------------------
(***************************************************************************)
(* Comparison of two effective policies: guards/policy_relaxation.py.      *)
(* A policy is what the configuration and the baselines of one tree say;   *)
(* compare() lists the reasons for which the second may be the weaker.     *)
(*                                                                         *)
(* A path declaration is a member of Patterns, normalised, and Covers[p]   *)
(* the files it matches.  A subject is a callable, document or section     *)
(* that one review guard measures; `reviewed` holds the callable and       *)
(* document allowances.  An allowance of 0 is no entry.                    *)
(***************************************************************************)
EXTENDS Verdicts

CONSTANTS
    Files, Patterns, Covers,    \* paths, declarations, what they match
    Extensions, Extension,      \* file kinds, the kind of each file
    ReviewGuards,               \* the guards with one reviewAt threshold
    Subjects, GuardOf           \* what they measure, and by which guard

ASSUME PatternsAssumption ==
    /\ Covers \in [Patterns -> SUBSET Files]
    /\ Extension \in [Files -> Extensions]
    /\ GuardOf \in [Subjects -> ReviewGuards]

IsLocPolicy(c) ==
    /\ c.enabled \in BOOLEAN
    /\ c.ratchetAt \in {"fail", "review"}
    /\ c.warnAt \in Nat \ {0} /\ c.failAt \in Nat \ {0} /\ c.warnAt < c.failAt
    /\ c.countBlank \in BOOLEAN /\ c.countComments \in BOOLEAN
    /\ c.extensions \in SUBSET Extensions
    /\ c.exclude \in SUBSET Patterns
    /\ c.allowedLarge \in SUBSET Patterns
    /\ c.overrides \in Seq([match : SUBSET Patterns, warnAt : Nat, failAt : Nat])
    /\ \A i \in DOMAIN c.overrides : c.overrides[i].warnAt < c.overrides[i].failAt

IsPolicy(p) ==
    /\ DOMAIN p = {"loc", "reviews", "scope", "allowed", "reviewed"}
    /\ IsLocPolicy(p.loc)
    /\ p.reviews \in [ReviewGuards -> [enabled : BOOLEAN, reviewAt : Nat \ {0}]]
    /\ p.scope \in SUBSET Patterns
    /\ p.allowed \in [Files -> Nat]
    /\ p.reviewed \in [Subjects -> Nat]

---------------------------------------------------------------------------
(* The reasons                                                             *)

Reasons(code, items) == {<<code, item>> : item \in items}

Limits == {"warnAt", "failAt"}

\* The ordered match sets; only under equal ones are thresholds compared.
Topology(overrides) == [i \in DOMAIN overrides |-> overrides[i].match]

OverrideReasons(b, a) ==
    IF Topology(b) # Topology(a)
    THEN Reasons("overrideTopologyChanged", {<<>>})
    ELSE Reasons("thresholdIncreased",
                 {x \in (DOMAIN a) \X Limits : a[x[1]][x[2]] > b[x[1]][x[2]]})

\* Mutant: of a guard either side disables nothing is compared, not even that.
LocReasonsIfActive(b, a) ==
    IF ~(b.enabled /\ a.enabled) THEN {}
    ELSE Reasons("thresholdIncreased", {<<t>> : t \in {t \in Limits : a[t] > b[t]}})
         \cup OverrideReasons(b.overrides, a.overrides)

\* Active LOC settings; nothing more is compared once either side disables it.
LocReasons(b, a) ==
    IF ~b.enabled THEN {}
    ELSE IF ~a.enabled THEN Reasons("guardDisabled", {<<"loc">>})
    ELSE UNION {
        Reasons("thresholdIncreased", {<<t>> : t \in {t \in Limits : a[t] > b[t]}}),
        Reasons("ratchetModeWeakened",
                {x \in {<<"ratchetAt">>} : b.ratchetAt = "review" /\ a.ratchetAt = "fail"}),
        Reasons("countedEvidenceReduced",
                {<<k>> : k \in {k \in {"countBlank", "countComments"} : b[k] /\ ~a[k]}}),
        Reasons("extensionRemoved", b.extensions \ a.extensions),
        Reasons("exclusionAdded", a.exclude \ b.exclude),
        Reasons("exemptionAdded", a.allowedLarge \ b.allowedLarge),
        OverrideReasons(b.overrides, a.overrides)}

\* The guards with one threshold, compared while both sides enable them.
ReviewReasons(b, a) ==
    Reasons("guardDisabled", {<<g>> : g \in {g \in ReviewGuards : b[g].enabled /\ ~a[g].enabled}})
    \cup
    Reasons("thresholdIncreased",
            {<<g>> : g \in {g \in ReviewGuards :
                b[g].enabled /\ a[g].enabled /\ a[g].reviewAt > b[g].reviewAt}})

AllowanceReasons(b, a) ==
    Reasons("allowanceAdded", {x \in DOMAIN a : a[x] # 0 /\ b[x] = 0})
    \cup Reasons("allowanceIncreased", {x \in DOMAIN a : b[x] # 0 /\ a[x] > b[x]})

\* compare(): the configuration, then the allowances of each baseline.
Relaxations(before, after) == UNION {
    LocReasons(before.loc, after.loc),
    ReviewReasons(before.reviews, after.reviews),
    Reasons("exclusionAdded", after.scope \ before.scope),
    AllowanceReasons(before.allowed, after.allowed),
    AllowanceReasons(before.reviewed, after.reviewed)}

Compare(before, after) == IF Relaxations(before, after) = {} THEN "pass" ELSE "review"

---------------------------------------------------------------------------
(* What a policy decides                                                   *)

Matched(patterns) == UNION {Covers[p] : p \in patterns}

\* Not every line counts.
Counted(content, c) ==
    content.code + (IF c.countBlank THEN content.blank ELSE 0)
                 + (IF c.countComments THEN content.comment ELSE 0)

\* The policy with its declarations resolved to files.
Resolved(c) ==
    [ratchetAt |-> c.ratchetAt, warnAt |-> c.warnAt, failAt |-> c.failAt,
     allowedLarge |-> Matched(c.allowedLarge),
     overrides |-> [i \in DOMAIN c.overrides |->
         [match |-> Matched(c.overrides[i].match),
          warnAt |-> c.overrides[i].warnAt, failAt |-> c.overrides[i].failAt]]]

Included(f, c) == Extension[f] \in c.extensions /\ f \notin Matched(c.exclude)

LocState(f, content, p) ==
    IF p.loc.enabled /\ f \notin Matched(p.scope) /\ Included(f, p.loc)
    THEN Evaluate(f, Counted(content, p.loc), Resolved(p.loc), p.allowed[f]).state
    ELSE "pass"

\* Of a subject in a file the scope leaves in.
ReviewState(s, measured, p) ==
    IF p.reviews[GuardOf[s]].enabled
    THEN JudgeCallable(measured, p.reviews[GuardOf[s]].reviewAt, p.reviewed[s]).state
    ELSE "pass"

Severity(state) == CASE state = "pass" -> 0 [] state = "review" -> 1 [] state = "fail" -> 2

\* docs/usage.md, "removing allowances ... stay quiet": under ratchetAt review
\* the entry was what made growth a failure.
Released(f, before, after) ==
    /\ before.loc.ratchetAt = "review"
    /\ before.allowed[f] # 0 /\ after.allowed[f] = 0
=============================================================================
