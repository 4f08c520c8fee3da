-------------------------- MODULE MarkdownRatchet --------------------------
(***************************************************************************)
(* The Markdown document ratchet: create() and update() of                 *)
(* markdown_baseline.py while developers edit documents and policy.        *)
(*                                                                         *)
(* The baseline is the register AtomicStore implements; a table of         *)
(* allowances is total, 0 standing for a document without an entry.        *)
(***************************************************************************)
EXTENDS Verdicts

CONSTANTS
    Docs,           \* root-relative paths ending in .md
    MaxLines,       \* longest document (bound)
    Policies,       \* records of enabled, reviewAt and scope-excluded documents
    Creators,       \* --create-markdown-baseline invocations
    Updaters,       \* --update-markdown-baseline invocations
    MaxEdits        \* developer edits in a behaviour (bound)

Gone == -1
NoBaseline == [d \in {} |-> 0]
Empty == [d \in Docs |-> 0]
Tables == [Docs -> 0..MaxLines]
Writers == Creators \cup Updaters

ASSUME MarkdownAssumption ==
    /\ MaxLines \in Nat /\ MaxEdits \in Nat
    /\ Docs # {}
    /\ Creators \cap Updaters = {}
    /\ \A c \in Policies : /\ c.enabled \in BOOLEAN
                           /\ c.reviewAt \in Nat \ {0}
                           /\ c.excluded \in SUBSET Docs

---------------------------------------------------------------------------
VARIABLES
    lines,          \* physical lines of every document, Gone when deleted
    config,         \* the policy in the working tree
    baseline,       \* the stored table, or NoBaseline
    pc,             \* "start", "measure", "done" or "failed"
    policy,         \* the policy an invocation loaded
    bounds,         \* the documents within its positional bounds
    entries,        \* the table it loaded
    proposed,       \* the table it will store
    todo,           \* documents still to measure
    quiet,          \* history: nothing else has changed since it started
    intact,         \* history: no other write since it started
    edits           \* history: number of edits so far

working == <<lines, config>>
loaded == <<policy, bounds, entries>>
vars == <<working, baseline, pc, loaded, proposed, todo, quiet, intact, edits>>

Finish(p, how) == pc' = [pc EXCEPT ![p] = how]

Refuse(p) ==
    /\ Finish(p, "failed")
    /\ UNCHANGED <<working, baseline, loaded, proposed, todo, quiet, intact, edits>>

\* The runs of others now overlap a change ...
Begun == {q \in Writers : pc[q] # "start"}
Disturb(some) == quiet' = [q \in Writers |-> quiet[q] /\ q \notin some]

\* ... and, when it is a write, is no longer intact.
Overtake(p) ==
    /\ Disturb(Begun \ {p})
    /\ intact' = [q \in Writers |-> intact[q] /\ q \notin Begun \ {p}]

\* A disabled guard, a baseline that exists (create) or does not (update).
Startable(p) == config.enabled /\ (p \in Creators <=> baseline = NoBaseline)

RefuseStart(p) ==
    /\ pc[p] = "start"
    /\ ~Startable(p)
    /\ Refuse(p)

\* create() measures the selected documents, update() the entries in bounds.
Begin(p, scope) ==
    /\ pc[p] = "start"
    /\ Startable(p)
    /\ policy' = [policy EXCEPT ![p] = config]
    /\ bounds' = [bounds EXCEPT ![p] = scope]
    /\ entries' = [entries EXCEPT ![p] = IF p \in Creators THEN Empty ELSE baseline]
    /\ proposed' = [proposed EXCEPT ![p] = IF p \in Creators THEN Empty ELSE baseline]
    /\ todo' = [todo EXCEPT ![p] =
          IF p \in Creators
          THEN {d \in scope \ config.excluded : lines[d] # Gone}
          ELSE {d \in scope : baseline[d] # 0}]
    /\ Finish(p, "measure")
    /\ UNCHANGED <<working, baseline, quiet, intact, edits>>

Visiting(p, d) == pc[p] = "measure" /\ d \in todo[p]

Settle(p, d, allowance) ==
    /\ todo' = [todo EXCEPT ![p] = @ \ {d}]
    /\ proposed' = [proposed EXCEPT ![p][d] = allowance]
    /\ UNCHANGED <<working, baseline, pc, loaded, quiet, intact, edits>>

Needed(p, d) == lines[d] > policy[p].reviewAt

Adopt(p, d) ==
    /\ p \in Creators /\ Visiting(p, d)
    /\ lines[d] # Gone
    /\ Settle(p, d, IF Needed(p, d) THEN lines[d] ELSE 0)

\* _measure refuses a selected document that has gone since.
Vanished(p, d) ==
    /\ p \in Creators /\ Visiting(p, d)
    /\ lines[d] = Gone
    /\ Refuse(p)

Unmeasured(p, d) == lines[d] = Gone \/ d \in policy[p].excluded

\* A deleted or scope-excluded document.
Drop(p, d) ==
    /\ p \in Updaters /\ Visiting(p, d)
    /\ Unmeasured(p, d)
    /\ Settle(p, d, 0)

\* Mutant: entries are pruned but their allowance is not lowered.
PruneOnly(p, d) ==
    /\ p \in Updaters /\ Visiting(p, d)
    /\ ~Unmeasured(p, d) /\ lines[d] <= entries[p][d]
    /\ Settle(p, d, IF Needed(p, d) THEN entries[p][d] ELSE 0)

\* Mutant: growth is recorded.
LowerOrRaise(p, d) ==
    /\ p \in Updaters /\ Visiting(p, d)
    /\ ~Unmeasured(p, d)
    /\ Settle(p, d, IF Needed(p, d) THEN lines[d] ELSE 0)

\* Removed at or below the threshold, lowered to the measure above it.
Lower(p, d) ==
    /\ p \in Updaters /\ Visiting(p, d)
    /\ ~Unmeasured(p, d) /\ lines[d] <= entries[p][d]
    /\ Settle(p, d, IF Needed(p, d) THEN lines[d] ELSE 0)

\* Growth is looked for before the threshold is.
Grow(p, d) ==
    /\ p \in Updaters /\ Visiting(p, d)
    /\ ~Unmeasured(p, d) /\ lines[d] > entries[p][d]
    /\ Refuse(p)

\* atomic_create needs no baseline, atomic_replace after read_bytes needs one.
Writable(p) == p \in Creators <=> baseline = NoBaseline

\* Mutant: only the table of the bounds is stored.
CommitBounds(p) ==
    /\ pc[p] = "measure" /\ todo[p] = {}
    /\ Writable(p)
    /\ baseline' = [d \in bounds[p] |-> proposed[p][d]]
    /\ IF baseline' = baseline THEN UNCHANGED <<quiet, intact>> ELSE Overtake(p)
    /\ Finish(p, "done")
    /\ UNCHANGED <<working, loaded, proposed, todo, edits>>

\* Bytes that did not change are not written.
Commit(p) ==
    /\ pc[p] = "measure" /\ todo[p] = {}
    /\ Writable(p)
    /\ baseline' = proposed[p]
    /\ IF baseline' = baseline THEN UNCHANGED <<quiet, intact>> ELSE Overtake(p)
    /\ Finish(p, "done")
    /\ UNCHANGED <<working, loaded, proposed, todo, edits>>

LoseCommit(p) ==
    /\ pc[p] = "measure" /\ todo[p] = {}
    /\ ~Writable(p)
    /\ Refuse(p)

---------------------------------------------------------------------------
(* Developers                                                              *)

Edit ==
    /\ edits < MaxEdits
    /\ edits' = edits + 1
    /\ Disturb(Begun)
    /\ UNCHANGED <<intact, pc, loaded, proposed, todo>>

EditDocument(d, n) ==
    /\ Edit
    /\ n # lines[d]
    /\ lines' = [lines EXCEPT ![d] = n]
    /\ UNCHANGED <<config, baseline>>

EditPolicy(c) ==
    /\ Edit
    /\ c # config
    /\ config' = c
    /\ UNCHANGED <<lines, baseline>>

DeleteBaseline ==
    /\ Edit
    /\ baseline # NoBaseline
    /\ baseline' = NoBaseline
    /\ UNCHANGED working

---------------------------------------------------------------------------
Init ==
    /\ lines \in [Docs -> 0..MaxLines]
    /\ config \in Policies
    /\ baseline = NoBaseline
    /\ pc = [p \in Writers |-> "start"]
    /\ policy = [p \in Writers |-> config]
    /\ bounds = [p \in Writers |-> {}]
    /\ entries = [p \in Writers |-> Empty]
    /\ proposed = [p \in Writers |-> Empty]
    /\ todo = [p \in Writers |-> {}]
    /\ quiet = [p \in Writers |-> TRUE]
    /\ intact = [p \in Writers |-> TRUE]
    /\ edits = 0

Invocation(p) ==
    \/ RefuseStart(p)
    \/ \E scope \in SUBSET Docs : Begin(p, scope)
    \/ \E d \in Docs : Adopt(p, d) \/ Vanished(p, d)
    \/ \E d \in Docs : Drop(p, d) \/ Lower(p, d) \/ Grow(p, d)
    \/ Commit(p) \/ LoseCommit(p)

Developer ==
    \/ \E d \in Docs, n \in Gone..MaxLines : EditDocument(d, n)
    \/ \E c \in Policies : EditPolicy(c)
    \/ DeleteBaseline

Next == (\E p \in Writers : Invocation(p)) \/ Developer

Spec == Init /\ [][Next]_vars

---------------------------------------------------------------------------
(* Properties.                                                             *)

Stored == baseline # NoBaseline
Now(d) == JudgeDocument(lines[d], config.reviewAt, baseline[d])

\* Every variable keeps its type (markdown_baseline.py).
TypeOK ==
    /\ lines \in [Docs -> Gone..MaxLines]
    /\ config \in Policies
    /\ baseline \in Tables \cup {NoBaseline}
    /\ pc \in [Writers -> {"start", "measure", "done", "failed"}]
    /\ policy \in [Writers -> Policies]
    /\ bounds \in [Writers -> SUBSET Docs]
    /\ entries \in [Writers -> Tables] /\ proposed \in [Writers -> Tables]
    /\ todo \in [Writers -> SUBSET Docs]
    /\ quiet \in [Writers -> BOOLEAN]
    /\ intact \in [Writers -> BOOLEAN]
    /\ edits \in 0..MaxEdits

\* A write that nothing disturbed leaves in its bounds exactly the allowances
\* analysis needs, at the present size: a created or updated entry is
\* "within", never "notNeeded" or "exceeded", and after an adoption no document
\* of the scope is under review.
AllowancesFit ==
    \A p \in Writers :
        pc[p] = "done" /\ quiet[p] =>
            \A d \in bounds[p] \cap DOMAIN baseline :
                /\ baseline[d] # 0 => /\ baseline[d] = lines[d]
                                      /\ Now(d).ratchetStatus = "within"
                /\ p \in Creators /\ d \notin config.excluded /\ lines[d] # Gone
                      => Now(d).state = "pass"

\* A step of p that stores a table over another, with no write since it began.
Rewrites(p) == pc'[p] # pc[p] /\ intact[p] /\ Stored /\ Stored'

\* docs/usage.md: update "never adds an entry or increases an allowance", unless
\* another write command overlapped it, whatever developers do meanwhile.
NeverRaised ==
    [][\A p \in Writers : Rewrites(p) =>
          \A d \in Docs : baseline'[d] <= baseline[d]]_vars
=============================================================================
