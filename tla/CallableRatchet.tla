-------------------------- MODULE CallableRatchet --------------------------
(***************************************************************************)
(* Reviewed callable ceilings: accept() and update() of                    *)
(* callable_review_baseline.py, run by _callable_baseline_mode on the      *)
(* evidence of one analysis, while developers edit code and policy.        *)
(*                                                                         *)
(* A selector is a file and the lexical identity of a callable in it (with *)
(* its embedded language).  A table of ceilings is total: 0 stands for no  *)
(* entry, since a stored ceiling is a positive integer.                    *)
(***************************************************************************)
EXTENDS Verdicts

CONSTANTS
    Files,          \* root-relative paths of source files
    Names,          \* embedded language and identity of a callable
    Guards,         \* callableSize, nesting, cyclomaticComplexity
    Absent, Twice,  \* what a file may say of an identity besides its measures
    MaxMeasure,     \* largest measurement (bound)
    Configs,        \* policies the repository may be under
    Accepters,      \* --accept-callable-review invocations
    Updaters,       \* --update-callable-review-baseline invocations
    MaxEdits        \* developer edits in a behaviour (bound)

Selectors == Files \X Names
Keys == Selectors \X Guards         \* ReviewKey
Measures == [Guards -> 1..MaxMeasure]
Declared == Measures \cup {Absent, Twice}
NoBaseline == [k \in {} |-> 0]
Tables == [Keys -> 0..MaxMeasure]
NoEntries == [k \in Keys |-> 0]
Writers == Accepters \cup Updaters

\* Enabled guards, their thresholds and the files scope.exclude removes.
Policy(c) ==
    /\ c.enabled \in SUBSET Guards
    /\ c.reviewAt \in [Guards -> Nat \ {0}]
    /\ c.excluded \in SUBSET Files

ASSUME CallableAssumption ==
    /\ MaxMeasure \in Nat
    /\ MaxEdits \in Nat
    /\ Accepters \cap Updaters = {}
    /\ Keys # {}
    /\ Absent # Twice /\ {Absent, Twice} \cap Measures = {}
    /\ \A c \in Configs : Policy(c)

FileOf(k) == k[1][1]

Unique(d) == d \notin {Absent, Twice}

---------------------------------------------------------------------------
VARIABLES
    code,           \* what the working tree declares for every selector
    status,         \* a file is "parsable", "broken" or "gone"
    config,         \* the policy in the working tree
    baseline,       \* the stored table, or NoBaseline
    pc,             \* "start", "analyze", "commit", "done" or "failed"
    policy,         \* the policy an invocation loaded
    target,         \* the key it was asked to accept
    bounds,         \* the files within its positional bounds
    prune,          \* whether it was given --prune-stale-callable-reviews
    entries,        \* the table it loaded, or NoBaseline
    todo,           \* selected files it has still to analyze
    facts,          \* what it found declared in the files it analyzed
    analyzed,       \* the files it analyzed
    proposed,       \* the table it will store
    quiet,          \* history: nothing else has changed since it started
    intact,         \* history: no other write since it started
    seen,           \* history: the measures every key has had
    edits           \* history: number of edits so far

working == <<code, status, config>>
request == <<policy, target, bounds, prune, entries>>
evidence == <<todo, facts, analyzed>>
history == <<seen, edits>>
vars == <<working, baseline, pc, request, evidence, proposed, quiet, intact, history>>

Finish(p, how) == pc' = [pc EXCEPT ![p] = how]

Fail(p) ==
    /\ Finish(p, "failed")
    /\ UNCHANGED <<working, baseline, request, evidence, proposed, quiet, intact, history>>

\* The runs of others now overlap a change ...
Begun == {q \in Writers : pc[q] # "start"}
Disturb(some) == quiet' = [q \in Writers |-> quiet[q] /\ q \notin some]

\* ... and, when it is a write, is no longer intact.
Overtake(p) ==
    /\ Disturb(Begun \ {p})
    /\ intact' = [q \in Writers |-> intact[q] /\ q \notin Begun \ {p}]

---------------------------------------------------------------------------
(* _callable_baseline_mode: selection and baseline first, then the facts   *)

Begin(p, k, scope, stale) ==
    /\ pc[p] = "start"
    /\ policy' = [policy EXCEPT ![p] = config]
    /\ target' = [target EXCEPT ![p] = k]
    /\ bounds' = [bounds EXCEPT ![p] = scope]
    /\ prune' = [prune EXCEPT ![p] = stale]
    /\ entries' = [entries EXCEPT ![p] = baseline]
    /\ todo' = [todo EXCEPT ![p] =
          {f \in scope \ config.excluded : status[f] # "gone"}]
    /\ Finish(p, "analyze")
    /\ UNCHANGED <<working, baseline, facts, analyzed, proposed, quiet, intact, history>>

AnalyzeFile(p, f) ==
    /\ pc[p] = "analyze" /\ f \in todo[p]
    /\ status[f] = "parsable"
    /\ todo' = [todo EXCEPT ![p] = @ \ {f}]
    /\ facts' = [facts EXCEPT ![p] =
          [s \in Selectors |-> IF s[1] = f THEN code[s] ELSE @[s]]]
    /\ analyzed' = [analyzed EXCEPT ![p] = @ \cup {f}]
    /\ UNCHANGED <<working, baseline, pc, request, proposed, quiet, intact, history>>

\* Evidence that is missing or incomplete blocks the write.
EvidenceMissing(p, f) ==
    /\ pc[p] = "analyze" /\ f \in todo[p]
    /\ status[f] # "parsable"
    /\ Fail(p)

Ready(p) == pc[p] = "analyze" /\ todo[p] = {}

Loaded(p) == IF entries[p] = NoBaseline THEN NoEntries ELSE entries[p]

\* apply() refuses an entry whose identity the analyzed files declare twice.
Ambiguous(p) ==
    \E k \in Keys : /\ Loaded(p)[k] # 0
                    /\ k[2] \in policy[p].enabled
                    /\ facts[p][k[1]] = Twice

\* No enabled callable guard, or an ambiguous entry.
EvidenceUnusable(p) ==
    /\ Ready(p)
    /\ policy[p].enabled = {} \/ Ambiguous(p)
    /\ Fail(p)

Usable(p) == Ready(p) /\ policy[p].enabled # {} /\ ~Ambiguous(p)

---------------------------------------------------------------------------
(* accept()                                                                *)

\* Mutant: an existing ceiling may be accepted anew.
AcceptableAgain(p, k) ==
    /\ k[2] \in policy[p].enabled
    /\ Unique(facts[p][k[1]])
    /\ facts[p][k[1]][k[2]] > policy[p].reviewAt[k[2]]
    /\ status[FileOf(k)] # "gone"

\* Mutant: a callable that passes may be accepted.
AcceptablePass(p, k) ==
    /\ k[2] \in policy[p].enabled
    /\ Loaded(p)[k] = 0
    /\ Unique(facts[p][k[1]])
    /\ status[FileOf(k)] # "gone"

\* The callable the evidence has for a key of an active guard, unaccepted.
Acceptable(p, k) ==
    /\ k[2] \in policy[p].enabled
    /\ Loaded(p)[k] = 0
    /\ Unique(facts[p][k[1]])
    /\ facts[p][k[1]][k[2]] > policy[p].reviewAt[k[2]]
    /\ status[FileOf(k)] # "gone"

RefuseAccept(p) ==
    /\ Usable(p)
    /\ ~Acceptable(p, target[p])
    /\ Fail(p)

Accept(p) ==
    /\ Usable(p)
    /\ Acceptable(p, target[p])
    /\ proposed' = [proposed EXCEPT ![p] =
          [Loaded(p) EXCEPT ![target[p]] = facts[p][target[p][1]][target[p][2]]]]
    /\ Finish(p, "commit")
    /\ UNCHANGED <<working, baseline, request, evidence, quiet, intact, history>>

---------------------------------------------------------------------------
(* update()                                                                *)

\* The entries the loop visits.
Maintained(p, k) ==
    entries[p][k] # 0 /\ FileOf(k) \in bounds[p] /\ k[2] \in policy[p].enabled

\* A missing identity is stale only on evidence: its file was analyzed, or is
\* no longer there.
Stale(p, k) ==
    /\ facts[p][k[1]] = Absent
    /\ FileOf(k) \in analyzed[p] \/ status[FileOf(k)] = "gone"

Measured(p, k) == facts[p][k[1]][k[2]]

\* Above both the threshold and the ceiling.
Grown(p, k) ==
    /\ Maintained(p, k) /\ Unique(facts[p][k[1]])
    /\ Measured(p, k) > policy[p].reviewAt[k[2]]
    /\ Measured(p, k) > entries[p][k]

\* Mutant: stale entries go without being asked for.
PruneUnasked(p, k) ==
    IF ~Maintained(p, k) THEN entries[p][k]
    ELSE IF ~Unique(facts[p][k[1]]) THEN IF Stale(p, k) THEN 0 ELSE entries[p][k]
    ELSE IF Measured(p, k) <= policy[p].reviewAt[k[2]] THEN 0
    ELSE Measured(p, k)

\* Mutant: an entry is kept although no longer needed.
KeepUnneeded(p, k) ==
    IF ~Maintained(p, k) THEN entries[p][k]
    ELSE IF ~Unique(facts[p][k[1]])
    THEN IF Stale(p, k) /\ prune[p] THEN 0 ELSE entries[p][k]
    ELSE IF Measured(p, k) <= entries[p][k] THEN Measured(p, k)
    ELSE entries[p][k]

\* Mutant: a shrunk callable's ceiling falls to the threshold.
LowerTooFar(p, k) ==
    IF ~Maintained(p, k) THEN entries[p][k]
    ELSE IF ~Unique(facts[p][k[1]])
    THEN IF Stale(p, k) /\ prune[p] THEN 0 ELSE entries[p][k]
    ELSE IF Measured(p, k) <= policy[p].reviewAt[k[2]] THEN 0
    ELSE IF Measured(p, k) = entries[p][k] THEN entries[p][k]
    ELSE policy[p].reviewAt[k[2]]

\* Removed when no longer needed, lowered when shrunk, stale only on request.
Maintain(p, k) ==
    IF ~Maintained(p, k) THEN entries[p][k]
    ELSE IF ~Unique(facts[p][k[1]])
    THEN IF Stale(p, k) /\ prune[p] THEN 0 ELSE entries[p][k]
    ELSE IF Measured(p, k) <= policy[p].reviewAt[k[2]] THEN 0
    ELSE Measured(p, k)

\* One grown entry aborts the whole update.
Updatable(p) == entries[p] # NoBaseline /\ \A k \in Keys : ~Grown(p, k)

RefuseUpdate(p) ==
    /\ Usable(p)
    /\ ~Updatable(p)
    /\ Fail(p)

Update(p) ==
    /\ Usable(p)
    /\ Updatable(p)
    /\ proposed' = [proposed EXCEPT ![p] = [k \in Keys |-> Maintain(p, k)]]
    /\ Finish(p, "commit")
    /\ UNCHANGED <<working, baseline, request, evidence, quiet, intact, history>>

---------------------------------------------------------------------------
(* _write()                                                                *)

\* atomic_create for the first entry, atomic_replace of a changed table.
Writable(p) ==
    IF entries[p] = NoBaseline THEN baseline = NoBaseline
    ELSE baseline # NoBaseline

\* Mutant: only the entries of the scope are stored.
WriteScopeOnly(p) ==
    /\ pc[p] = "commit"
    /\ Writable(p)
    /\ proposed[p] # entries[p]
    /\ baseline' = [k \in {j \in Keys : FileOf(j) \in bounds[p]} |-> proposed[p][k]]
    /\ Overtake(p)
    /\ Finish(p, "done")
    /\ UNCHANGED <<working, request, evidence, proposed, history>>

Write(p) ==
    /\ pc[p] = "commit"
    /\ Writable(p)
    /\ proposed[p] # entries[p]
    /\ baseline' = proposed[p]
    /\ Overtake(p)
    /\ Finish(p, "done")
    /\ UNCHANGED <<working, request, evidence, proposed, history>>

\* Only an update can propose what it loaded; it writes nothing.
WriteNothing(p) ==
    /\ pc[p] = "commit"
    /\ proposed[p] = entries[p]
    /\ Finish(p, "done")
    /\ UNCHANGED <<working, baseline, request, evidence, proposed, quiet, intact, history>>

\* The first entry was created by someone else, or the baseline deleted.
LoseWrite(p) ==
    /\ pc[p] = "commit"
    /\ ~Writable(p)
    /\ proposed[p] # entries[p]
    /\ Fail(p)

---------------------------------------------------------------------------
(* Developers                                                              *)

Edit == /\ edits < MaxEdits
        /\ edits' = edits + 1
        /\ Disturb(Begun)
        /\ UNCHANGED intact

\* What a key measures after an edit joins what it has measured.
See(changed) ==
    seen' = [k \in Keys |->
        IF Unique(changed[k[1]]) THEN seen[k] \cup {changed[k[1]][k[2]]} ELSE seen[k]]

EditCallable(s, d) ==
    /\ Edit
    /\ status[s[1]] # "gone" /\ d # code[s]
    /\ code' = [code EXCEPT ![s] = d]
    /\ See([code EXCEPT ![s] = d])
    /\ UNCHANGED <<status, config, baseline, pc, request, evidence, proposed>>

\* A syntax error appears in a file or is repaired.
ToggleSyntax(f) ==
    /\ Edit
    /\ status[f] # "gone"
    /\ status' = [status EXCEPT ![f] = IF @ = "broken" THEN "parsable" ELSE "broken"]
    /\ UNCHANGED <<code, config, baseline, pc, request, evidence, proposed, seen>>

DeleteFile(f) ==
    /\ Edit
    /\ status[f] # "gone"
    /\ status' = [status EXCEPT ![f] = "gone"]
    /\ code' = [s \in Selectors |-> IF s[1] = f THEN Absent ELSE code[s]]
    /\ UNCHANGED <<config, baseline, pc, request, evidence, proposed, seen>>

EditPolicy(c) ==
    /\ Edit
    /\ c # config
    /\ config' = c
    /\ UNCHANGED <<code, status, baseline, pc, request, evidence, proposed, seen>>

DeleteBaseline ==
    /\ Edit
    /\ baseline # NoBaseline
    /\ baseline' = NoBaseline
    /\ UNCHANGED <<working, pc, request, evidence, proposed, seen>>

---------------------------------------------------------------------------
Init ==
    /\ code \in [Selectors -> Declared]
    /\ status = [f \in Files |-> "parsable"]
    /\ config \in Configs
    /\ baseline = NoBaseline
    /\ pc = [p \in Writers |-> "start"]
    /\ policy = [p \in Writers |-> config]
    /\ target = [p \in Writers |-> CHOOSE k \in Keys : TRUE]
    /\ bounds = [p \in Writers |-> {}]
    /\ prune = [p \in Writers |-> FALSE]
    /\ entries = [p \in Writers |-> NoBaseline]
    /\ todo = [p \in Writers |-> {}]
    /\ facts = [p \in Writers |-> [s \in Selectors |-> Absent]]
    /\ analyzed = [p \in Writers |-> {}]
    /\ proposed = [p \in Writers |-> NoEntries]
    /\ quiet = [p \in Writers |-> TRUE]
    /\ intact = [p \in Writers |-> TRUE]
    /\ seen = [k \in Keys |-> IF Unique(code[k[1]]) THEN {code[k[1]][k[2]]} ELSE {}]
    /\ edits = 0

Invocation(p) ==
    \/ \E f \in Files : AnalyzeFile(p, f) \/ EvidenceMissing(p, f)
    \/ EvidenceUnusable(p)
    \/ Write(p) \/ LoseWrite(p)

Accepting(p) ==
    \/ \E k \in Keys : Begin(p, k, {FileOf(k)}, FALSE)
    \/ Invocation(p)
    \/ RefuseAccept(p) \/ Accept(p)

Updating(p) ==
    \/ \E scope \in SUBSET Files, stale \in BOOLEAN :
          Begin(p, target[p], scope, stale)
    \/ Invocation(p)
    \/ RefuseUpdate(p) \/ Update(p) \/ WriteNothing(p)

Developer ==
    \/ \E s \in Selectors, d \in Declared : EditCallable(s, d)
    \/ \E f \in Files : ToggleSyntax(f) \/ DeleteFile(f)
    \/ \E c \in Configs : EditPolicy(c)
    \/ DeleteBaseline

Next ==
    \/ \E p \in Accepters : Accepting(p)
    \/ \E p \in Updaters : Updating(p)
    \/ Developer

Spec == Init /\ [][Next]_vars

---------------------------------------------------------------------------
(* Properties.                                                             *)

Stored == baseline # NoBaseline

\* Every variable of the ratchet keeps its type
\* (callable_review_baseline.py).
TypeOK ==
    /\ code \in [Selectors -> Declared]
    /\ status \in [Files -> {"parsable", "broken", "gone"}]
    /\ config \in Configs
    /\ baseline \in Tables \cup {NoBaseline}
    /\ pc \in [Writers -> {"start", "analyze", "commit", "done", "failed"}]
    /\ policy \in [Writers -> Configs]
    /\ target \in [Writers -> Keys]
    /\ bounds \in [Writers -> SUBSET Files]
    /\ prune \in [Writers -> BOOLEAN]
    /\ entries \in [Writers -> Tables \cup {NoBaseline}]
    /\ todo \in [Writers -> SUBSET Files]
    /\ facts \in [Writers -> [Selectors -> Declared]]
    /\ analyzed \in [Writers -> SUBSET Files]
    /\ proposed \in [Writers -> Tables]
    /\ quiet \in [Writers -> BOOLEAN]
    /\ intact \in [Writers -> BOOLEAN]
    /\ seen \in [Keys -> SUBSET (1..MaxMeasure)]
    /\ edits \in 0..MaxEdits

\* A ceiling is a measure the callable once had under an identity of its own:
\* no interleaving of writers and developers invents one.
CeilingMeasured ==
    Stored => \A k \in Keys : baseline[k] # 0 => baseline[k] \in seen[k]

\* A step of p that stores a table over another, with no write since it began.
Rewrites(p) == pc'[p] # pc[p] /\ intact[p] /\ Stored /\ Stored'

\* docs/usage.md: "Acceptance cannot replace or raise an existing ceiling" and
\* maintenance "never adds/increases one".  Unless another write command
\* overlapped it, a write raises only from nothing, only by an acceptance of
\* exactly that callable, and leaves every other ceiling alone.
CeilingNeverRaised ==
    [][\A p \in Writers : Rewrites(p) =>
          \A k \in Keys : baseline'[k] > baseline[k] =>
             /\ baseline[k] = 0
             /\ p \in Accepters /\ target[p] = k
             /\ \A j \in Keys \ {k} : baseline'[j] = baseline[j]]_vars

\* Maintenance that nothing disturbed leaves no slack: a ceiling in its bounds
\* that survives for a callable still declared allows exactly what the
\* callable measures, and the callable needs it.
UpdateIsTight ==
    \A p \in Updaters :
        pc[p] = "done" /\ quiet[p] =>
            \A k \in Keys :
                /\ baseline[k] # 0
                /\ FileOf(k) \in bounds[p] \ config.excluded
                /\ k[2] \in config.enabled
                /\ code[k[1]] # Absent
                => /\ Unique(code[k[1]])
                   /\ baseline[k] = code[k[1]][k[2]]
                   /\ baseline[k] > config.reviewAt[k[2]]

\* Maintenance removes the ceiling of a callable it has no measure of only
\* when asked to prune, and never on the strength of a file that is there but
\* was not analyzed.
RemovalNeedsEvidence ==
    \A p \in Updaters :
        pc[p] = "done" /\ quiet[p] =>
            \A k \in Keys :
                /\ entries[p][k] # 0 /\ baseline[k] = 0
                => /\ FileOf(k) \in bounds[p] /\ k[2] \in config.enabled
                   /\ \/ code[k[1]] = Absent /\ prune[p]
                      \/ /\ Unique(code[k[1]])
                         /\ code[k[1]][k[2]] <= config.reviewAt[k[2]]
                   /\ status[FileOf(k)] # "gone" => FileOf(k) \notin config.excluded

\* An acceptance that nothing disturbed does what it is for: the callable now
\* passes, at the ceiling, and one line more would be reviewed again.
AcceptanceHolds ==
    \A p \in Accepters :
        pc[p] = "done" /\ quiet[p] =>
            LET k == target[p]
            IN  /\ Unique(code[k[1]])
                /\ JudgeCallable(code[k[1]][k[2]], config.reviewAt[k[2]], baseline[k])
                      = Verdict("pass", "withinAllowance")
                /\ JudgeCallable(code[k[1]][k[2]] + 1, config.reviewAt[k[2]], baseline[k])
                      = Verdict("review", "grown")
=============================================================================
