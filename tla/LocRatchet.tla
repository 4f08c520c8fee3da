---------------------------- MODULE LocRatchet ----------------------------
(***************************************************************************)
(* The legacy LOC ratchet: create() and update() of loc_baseline.py run by *)
(* command invocations while developers edit files and policy, judged by   *)
(* the guard's own evaluate() (Verdicts).                                  *)
(*                                                                         *)
(* The baseline file is the atomic register that AtomicStore implements.   *)
(* A table of allowances is total: 0 stands for a file without an entry,   *)
(* since a stored allowance is a positive integer.                         *)
(***************************************************************************)
EXTENDS Verdicts

CONSTANTS
    Files,          \* root-relative paths
    MaxLoc,         \* largest counted line number of a file (bound)
    Configs,        \* policies the repository may be under
    Creators,       \* --create-loc-baseline invocations
    Updaters,       \* --update-loc-baseline invocations
    MaxEdits        \* developer edits in a behaviour (bound)

Gone == -1                          \* the size of a deleted file
NoBaseline == [f \in {} |-> 0]      \* the content of a missing baseline
Tables == [Files -> 0..MaxLoc]
Writers == Creators \cup Updaters

ASSUME RatchetAssumption ==
    /\ MaxLoc \in Nat
    /\ MaxEdits \in Nat
    /\ Creators \cap Updaters = {}
    /\ Files # {}
    /\ \A c \in Configs : LocPolicy(c, Files)

---------------------------------------------------------------------------
VARIABLES
    size,           \* counted lines of every file, Gone when deleted
    config,         \* the policy in the working tree
    baseline,       \* the stored table, or NoBaseline
    pc,             \* "start", "measure", "done" or "failed"
    policy,         \* the policy an invocation loaded
    bounds,         \* the files in the scope it was given
    entries,        \* the table it loaded (update) or has measured (create)
    proposed,       \* the table it will store
    todo,           \* files still to visit
    quiet,          \* history: nothing else has changed since it started
    intact,         \* history: no other write since it started
    seen,           \* history: the sizes every file has had
    edits           \* history: number of edits so far

working == <<size, config>>
local   == <<policy, bounds, entries, proposed, todo>>
vars    == <<working, baseline, pc, local, quiet, intact, seen, edits>>

Finish(p, how) == pc' = [pc EXCEPT ![p] = how]

\* The runs of others now overlap a change ...
Begun == {q \in Writers : pc[q] # "start"}
Disturb(some) == quiet' = [q \in Writers |-> quiet[q] /\ q \notin some]

\* ... and, when it is a write, is no longer intact.
Overtake(p) ==
    /\ Disturb(Begun \ {p})
    /\ intact' = [q \in Writers |-> intact[q] /\ q \notin Begun \ {p}]

---------------------------------------------------------------------------
(* create()                                                                *)

Start(p) == pc[p] = "start"

\* The early exits: the baseline exists, the guard is disabled.
RefuseCreate(p) ==
    /\ Start(p)
    /\ baseline # NoBaseline \/ ~config.enabled
    /\ Finish(p, "failed")
    /\ UNCHANGED <<working, baseline, local, quiet, intact, seen, edits>>

BeginCreate(p, scope) ==
    /\ Start(p)
    /\ baseline = NoBaseline /\ config.enabled
    /\ policy' = [policy EXCEPT ![p] = config]
    /\ bounds' = [bounds EXCEPT ![p] = scope]
    /\ todo' = [todo EXCEPT ![p] = {f \in scope : size[f] # Gone}]
    /\ Finish(p, "measure")
    /\ UNCHANGED <<working, baseline, entries, proposed, quiet, intact, seen, edits>>

\* Mutant: exempt files are recorded too.
LegacyOverlapping(f, c) ==
    /\ f \notin c.excluded
    /\ size[f] > Threshold(f, c)

\* Neither excluded nor exempt, and above what the policy ratchets.
Legacy(f, c) ==
    /\ f \notin c.excluded \cup c.allowedLarge
    /\ size[f] > Threshold(f, c)

\* Mutant: the end of the file counts as a line.
MeasureOneMore(p, f) ==
    /\ pc[p] = "measure" /\ f \in todo[p]
    /\ size[f] \in 0..MaxLoc - 1
    /\ todo' = [todo EXCEPT ![p] = @ \ {f}]
    /\ proposed' = [proposed EXCEPT ![p][f] = IF Legacy(f, policy[p]) THEN size[f] + 1 ELSE 0]
    /\ UNCHANGED <<working, baseline, pc, policy, bounds, entries, quiet, intact, seen, edits>>

MeasureNew(p, f) ==
    /\ pc[p] = "measure" /\ f \in todo[p]
    /\ size[f] # Gone
    /\ todo' = [todo EXCEPT ![p] = @ \ {f}]
    /\ proposed' = [proposed EXCEPT ![p][f] = IF Legacy(f, policy[p]) THEN size[f] ELSE 0]
    /\ UNCHANGED <<working, baseline, pc, policy, bounds, entries, quiet, intact, seen, edits>>

\* require_regular_inside refuses a selected file that has gone since.
AbortCreate(p, f) ==
    /\ pc[p] = "measure" /\ f \in todo[p]
    /\ size[f] = Gone
    /\ Finish(p, "failed")
    /\ UNCHANGED <<working, baseline, local, quiet, intact, seen, edits>>

\* Mutant: the table of the scope is stored, not the whole table.
CommitScopeOnly(p) ==
    /\ pc[p] = "measure" /\ todo[p] = {}
    /\ baseline = NoBaseline
    /\ baseline' = [f \in bounds[p] |-> proposed[p][f]]
    /\ Overtake(p)
    /\ Finish(p, "done")
    /\ UNCHANGED <<working, local, seen, edits>>

\* atomic_create
CommitCreate(p) ==
    /\ pc[p] = "measure" /\ todo[p] = {}
    /\ baseline = NoBaseline
    /\ baseline' = proposed[p]
    /\ Overtake(p)
    /\ Finish(p, "done")
    /\ UNCHANGED <<working, local, seen, edits>>

\* It never overwrites: another create came first.
LoseCreate(p) ==
    /\ pc[p] = "measure" /\ todo[p] = {}
    /\ baseline # NoBaseline
    /\ Finish(p, "failed")
    /\ UNCHANGED <<working, baseline, local, quiet, intact, seen, edits>>

---------------------------------------------------------------------------
(* update()                                                                *)

\* Refused without a baseline, with the guard disabled, and when an entry
\* overlaps allowedLargeFiles (validate_overlap).
Updatable ==
    /\ baseline # NoBaseline
    /\ config.enabled
    /\ \A f \in config.allowedLarge : baseline[f] = 0

RefuseUpdate(p) ==
    /\ Start(p)
    /\ ~Updatable
    /\ Finish(p, "failed")
    /\ UNCHANGED <<working, baseline, local, quiet, intact, seen, edits>>

\* Mutant: every entry is visited, whatever the scope.
BeginUpdateEverywhere(p, scope) ==
    /\ Start(p)
    /\ Updatable
    /\ policy' = [policy EXCEPT ![p] = config]
    /\ bounds' = [bounds EXCEPT ![p] = scope]
    /\ entries' = [entries EXCEPT ![p] = baseline]
    /\ proposed' = [proposed EXCEPT ![p] = baseline]
    /\ todo' = [todo EXCEPT ![p] = {f \in Files : baseline[f] # 0}]
    /\ Finish(p, "measure")
    /\ UNCHANGED <<working, baseline, quiet, intact, seen, edits>>

BeginUpdate(p, scope) ==
    /\ Start(p)
    /\ Updatable
    /\ policy' = [policy EXCEPT ![p] = config]
    /\ bounds' = [bounds EXCEPT ![p] = scope]
    /\ entries' = [entries EXCEPT ![p] = baseline]
    /\ proposed' = [proposed EXCEPT ![p] = baseline]
    /\ todo' = [todo EXCEPT ![p] = {f \in scope : baseline[f] # 0}]
    /\ Finish(p, "measure")
    /\ UNCHANGED <<working, baseline, quiet, intact, seen, edits>>

\* Mutant: exclusions are forgotten.
UnmeasuredIfGone(f, c) == size[f] = Gone

\* Missing, excluded or inapplicable: the entry goes unmeasured.
Unmeasured(f, c) == size[f] = Gone \/ f \in c.excluded

\* Mutant: growth is recorded instead of refused.
MeasureAnyEntry(p, f) ==
    /\ pc[p] = "measure" /\ f \in todo[p]
    /\ todo' = [todo EXCEPT ![p] = @ \ {f}]
    /\ proposed' = [proposed EXCEPT ![p][f] =
          IF Unmeasured(f, policy[p]) \/ size[f] <= Threshold(f, policy[p])
          THEN 0 ELSE size[f]]
    /\ UNCHANGED <<working, baseline, pc, policy, bounds, entries, quiet, intact, seen, edits>>

\* One turn of the loop: an entry goes when its file is no longer above the
\* threshold, and otherwise sinks to the file's size.
MeasureEntry(p, f) ==
    /\ pc[p] = "measure" /\ f \in todo[p]
    /\ Unmeasured(f, policy[p]) \/ size[f] <= entries[p][f]
    /\ todo' = [todo EXCEPT ![p] = @ \ {f}]
    /\ proposed' = [proposed EXCEPT ![p][f] =
          IF Unmeasured(f, policy[p]) \/ size[f] <= Threshold(f, policy[p])
          THEN 0 ELSE size[f]]
    /\ UNCHANGED <<working, baseline, pc, policy, bounds, entries, quiet, intact, seen, edits>>

\* Growth aborts, whatever the threshold.
AbortUpdate(p, f) ==
    /\ pc[p] = "measure" /\ f \in todo[p]
    /\ ~Unmeasured(f, policy[p]) /\ size[f] > entries[p][f]
    /\ Finish(p, "failed")
    /\ UNCHANGED <<working, baseline, local, quiet, intact, seen, edits>>

\* Bytes that did not change are not written.
CommitUnchanged(p) ==
    /\ pc[p] = "measure" /\ todo[p] = {}
    /\ baseline = proposed[p]
    /\ Finish(p, "done")
    /\ UNCHANGED <<working, baseline, local, quiet, intact, seen, edits>>

\* atomic_replace
CommitUpdate(p) ==
    /\ pc[p] = "measure" /\ todo[p] = {}
    /\ baseline # NoBaseline /\ baseline # proposed[p]
    /\ baseline' = proposed[p]
    /\ Overtake(p)
    /\ Finish(p, "done")
    /\ UNCHANGED <<working, local, seen, edits>>

\* target.read_bytes() finds no baseline any more.
LoseUpdate(p) ==
    /\ pc[p] = "measure" /\ todo[p] = {}
    /\ baseline = NoBaseline
    /\ Finish(p, "failed")
    /\ UNCHANGED <<working, baseline, local, quiet, intact, seen, edits>>

---------------------------------------------------------------------------
(* Developers                                                              *)

Edit == /\ edits < MaxEdits
        /\ edits' = edits + 1
        /\ Disturb(Begun)
        /\ UNCHANGED intact

EditFile(f, n) ==
    /\ Edit
    /\ n # size[f]
    /\ size' = [size EXCEPT ![f] = n]
    /\ seen' = [seen EXCEPT ![f] = @ \cup {n}]
    /\ UNCHANGED <<config, baseline, pc, local>>

EditPolicy(c) ==
    /\ Edit
    /\ c # config
    /\ config' = c
    /\ UNCHANGED <<size, baseline, pc, local, seen>>

DeleteBaseline ==
    /\ Edit
    /\ baseline # NoBaseline
    /\ baseline' = NoBaseline
    /\ UNCHANGED <<working, pc, local, seen>>

---------------------------------------------------------------------------
Init ==
    /\ size \in [Files -> 0..MaxLoc]
    /\ config \in Configs
    /\ baseline = NoBaseline
    /\ pc = [p \in Writers |-> "start"]
    /\ policy = [p \in Writers |-> config]
    /\ bounds = [p \in Writers |-> {}]
    /\ entries = [p \in Writers |-> [f \in Files |-> 0]]
    /\ proposed = [p \in Writers |-> [f \in Files |-> 0]]
    /\ todo = [p \in Writers |-> {}]
    /\ quiet = [p \in Writers |-> TRUE]
    /\ intact = [p \in Writers |-> TRUE]
    /\ seen = [f \in Files |-> {size[f]}]
    /\ edits = 0

Create(p) ==
    \/ RefuseCreate(p)
    \/ \E scope \in SUBSET Files : BeginCreate(p, scope)
    \/ \E f \in Files : MeasureNew(p, f) \/ AbortCreate(p, f)
    \/ CommitCreate(p) \/ LoseCreate(p)

Update(p) ==
    \/ RefuseUpdate(p)
    \/ \E scope \in SUBSET Files : BeginUpdate(p, scope)
    \/ \E f \in Files : MeasureEntry(p, f) \/ AbortUpdate(p, f)
    \/ CommitUnchanged(p) \/ CommitUpdate(p) \/ LoseUpdate(p)

Developer ==
    \/ \E f \in Files, n \in Gone..MaxLoc : EditFile(f, n)
    \/ \E c \in Configs : EditPolicy(c)
    \/ DeleteBaseline

Next ==
    \/ \E p \in Creators : Create(p)
    \/ \E p \in Updaters : Update(p)
    \/ Developer

Spec == Init /\ [][Next]_vars

---------------------------------------------------------------------------
(* Properties.                                                             *)

Stored == baseline # NoBaseline

\* What analysis says of a file now, under the policy in force.
Now(f) == Evaluate(f, size[f], config, baseline[f])

\* Every variable of the ratchet keeps its type (loc_baseline.py).
TypeOK ==
    /\ size \in [Files -> Gone..MaxLoc]
    /\ config \in Configs
    /\ baseline \in Tables \cup {NoBaseline}
    /\ pc \in [Writers -> {"start", "measure", "done", "failed"}]
    /\ policy \in [Writers -> Configs]
    /\ bounds \in [Writers -> SUBSET Files]
    /\ entries \in [Writers -> Tables]
    /\ proposed \in [Writers -> Tables]
    /\ todo \in [Writers -> SUBSET Files]
    /\ quiet \in [Writers -> BOOLEAN]
    /\ intact \in [Writers -> BOOLEAN]
    /\ seen \in [Files -> SUBSET (Gone..MaxLoc)]
    /\ edits \in 0..MaxEdits

\* An allowance is a size its file once had: whatever a write measured and
\* whenever it was interrupted or overtaken, no allowance is invented.
AllowanceMeasured ==
    Stored => \A f \in Files : baseline[f] # 0 => baseline[f] \in seen[f]

\* An update that nothing disturbed leaves no slack: each entry in its bounds
\* that survives allows exactly the current size, and analysis needs it.
UpdateIsTight ==
    \A p \in Updaters :
        pc[p] = "done" /\ quiet[p] =>
            \A f \in bounds[p] :
                baseline[f] # 0 => /\ baseline[f] = size[f]
                                   /\ f \notin config.excluded
                                   /\ Now(f).ratchetStatus = "within"

\* Adoption works: after a create that nothing disturbed, analysis fails no
\* file of the scope and is not refused for an overlap, because create() and
\* evaluate() agree on what is legacy.
CreateAdoptsScope ==
    \A p \in Creators :
        pc[p] = "done" /\ quiet[p] =>
            /\ \A f \in bounds[p] \ config.excluded :
                  size[f] # Gone => Now(f).state # "fail"
            /\ \A f \in config.allowedLarge : baseline[f] = 0

\* A step of p that stores a table over another, with no write since it began.
Rewrites(p) == pc'[p] # pc[p] /\ intact[p] /\ Stored /\ Stored'

\* A write never raises an allowance or adds an entry to a stored baseline,
\* unless another write command overlapped it: whatever developers edit
\* meanwhile (update()'s promise; create() refuses a stored baseline).
NeverRaised ==
    [][\A p \in Writers : Rewrites(p) =>
          \A f \in Files : baseline'[f] <= baseline[f]]_vars

\* An update writes nothing outside the scope it was given.
UpdateKeepsOutside ==
    [][\A p \in Updaters : Rewrites(p) =>
          \A f \in Files \ bounds[p] : baseline'[f] = baseline[f]]_vars

\* The tool never talks itself into a size it refused: what fails above failAt
\* goes on failing after a write.
RefusalIsFinal ==
    [][\A p \in Writers : Rewrites(p) =>
          \A f \in Files, n \in 0..MaxLoc :
              /\ n > EffectiveThresholds(f, config).failAt
              /\ Evaluate(f, n, config, baseline[f]).state = "fail"
              => Evaluate(f, n, config, baseline'[f]).state = "fail"]_vars

\* docs/usage.md, of any update: it "never adds a newly oversized path or
\* raises an allowance".
UpdateNeverRaises ==
    [][Stored /\ Stored' => \A f \in Files : baseline'[f] <= baseline[f]]_vars

\* docs/usage.md: "At or below the selected policy threshold, the entry is
\* reported as no longer needed."
UnneededReported ==
    Stored => \A f \in Files \ (config.excluded \cup config.allowedLarge) :
        baseline[f] # 0 /\ size[f] \in 0..Threshold(f, config)
            => Now(f).ratchetStatus = "notNeeded"
===========================================================================
