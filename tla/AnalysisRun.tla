---------------------------- MODULE AnalysisRun ----------------------------
(***************************************************************************)
(* One analysis invocation of code-guard: main() and run_analysis() of     *)
(* code_guard.py.  It selects files, looks for baselines, loads them,      *)
(* checks the scope, and then every guard reads the selected files again;  *)
(* developers and baseline writers go on working between these steps.      *)
(*                                                                         *)
(* A source file has one callable, measured like the file itself; the      *)
(* guards' verdicts are those of module Verdicts.                          *)
(***************************************************************************)
EXTENDS Verdicts

CONSTANTS
    Code, Docs,     \* source files and Markdown documents
    MaxSize,        \* largest measure (bound)
    LocPolicies,    \* policies guards.loc may have
    ReviewAt,       \* the threshold of the callable and document guards
    Offers,         \* tables of allowances other invocations may store
    MaxEdits        \* changes made by others (bound)

Files == Code \cup Docs
Gone == -1
None == [f \in {} |-> 0]            \* the content of a missing baseline
Tables == [Files -> 0..MaxSize]
Stores == {"loc", "document", "callable"}

ASSUME AnalysisAssumption ==
    /\ MaxSize \in Nat /\ MaxEdits \in Nat /\ ReviewAt \in Nat \ {0}
    /\ Code \cap Docs = {} /\ Files # {}
    /\ \A c \in LocPolicies :
          LocPolicy(c, Files) /\ c.enabled /\ c.overrides = <<>>
    /\ Offers \subseteq Tables

VARIABLES
    size,           \* the working tree: the measure of every file, or Gone
    broken,         \* source files that do not parse
    store,          \* the three baselines
    direct,         \* files the positional directories contain
    links,          \* files named by an explicit symlink
    ci,             \* --ci
    loc,            \* the policy of guards.loc
    pc,             \* the step the invocation takes next
    selected,       \* AnalysisContext.selected_files
    linked,         \* linked_targets
    allowances,     \* the tables it loaded, without the linked targets
    todo,           \* <<guard, file>> still to read
    measured,       \* <<guard, file, measure>> read
    unavailable,    \* files without syntax facts
    exit,           \* the exit code, -1 before
    settled,        \* history: no baseline has appeared and no explicit symlink
                    \* has lost its target since the invocation began
    edits           \* history: changes made by others so far

world == <<size, broken, store>>
request == <<direct, links, ci, loc>>
history == <<settled, edits>>
vars == <<world, request, pc, selected, linked, allowances, todo, measured,
          unavailable, exit, history>>

---------------------------------------------------------------------------
Goto(step) == pc' = step

ProbeOf == [loc |-> "probe loc", document |-> "probe document", callable |-> "probe callable"]
LoadOf == [loc |-> "load loc", document |-> "load document", callable |-> "load callable"]
ReadOf == [loc |-> "read loc", callable |-> "read callable", document |-> "read document"]

\* A tool error: no report, exit 3.
Abort ==
    /\ Goto("end")
    /\ exit' = 3
    /\ UNCHANGED <<world, request, selected, linked, allowances, todo, measured,
                   unavailable, history>>

\* An explicit path must exist; what a directory contains is what is there.
Select ==
    /\ pc = "select"
    /\ \A f \in links : size[f] # Gone
    /\ selected' = links \cup {f \in direct : size[f] # Gone}
    /\ Goto("probe loc")
    /\ UNCHANGED <<world, request, linked, allowances, todo, measured, unavailable,
                   exit, history>>

SelectMissing ==
    /\ pc = "select"
    /\ \E f \in links : size[f] = Gone
    /\ Abort

\* Mutant: a target any positional directory might contain is not linked.
LinkedTargetsBySelection == {f \in links : size[f] # Gone} \ selected

\* validate_explicit_scope: a target the directories contain is not linked.
LinkedTargets == {f \in links : size[f] # Gone} \ (direct \cap selected)

\* Three exists() calls; the first success computes the linked targets.
Probe(s, next) ==
    /\ pc = ProbeOf[s]
    /\ IF store[s] # None
       THEN linked' = LinkedTargets /\ Goto("load loc")
       ELSE linked' = linked /\ Goto(next)
    /\ UNCHANGED <<world, request, selected, allowances, todo, measured, unavailable,
                   exit, history>>

Load(s, next) ==
    /\ pc = LoadOf[s]
    /\ allowances' = [allowances EXCEPT ![s] = store[s]]
    /\ Goto(next)
    /\ UNCHANGED <<world, request, selected, linked, todo, measured, unavailable,
                   exit, history>>

Baselines == \E s \in Stores : allowances[s] # None

\* validate_overlap on the legacy table, validate_analysis_scope on the files.
Unsafe ==
    \/ allowances["loc"] # None /\ \E f \in loc.allowedLarge : allowances["loc"][f] # 0
    \/ Baselines /\ \E f \in selected : size[f] = Gone

CheckFails ==
    /\ pc = "check"
    /\ Unsafe
    /\ Abort

\* What each guard will read.
Reads ==
    ({"loc"} \X ((selected \cap Code) \ loc.excluded))
        \cup ({"callable"} \X (selected \cap Code))
        \cup ({"document"} \X (selected \cap Docs))

\* Linked targets lose their allowances.
Check ==
    /\ pc = "check"
    /\ ~Unsafe
    /\ allowances' = [s \in Stores |->
          [f \in DOMAIN allowances[s] |-> IF f \in linked THEN 0 ELSE allowances[s][f]]]
    /\ todo' = Reads
    /\ Goto("read loc")
    /\ UNCHANGED <<world, request, selected, linked, measured, unavailable, exit, history>>

Reading(g, f) == pc = ReadOf[g] /\ <<g, f>> \in todo

Parsed(g, f) == ~(g = "callable" /\ f \in broken)

Read(g, f) ==
    /\ Reading(g, f)
    /\ size[f] # Gone
    /\ Parsed(g, f)
    /\ todo' = todo \ {<<g, f>>}
    /\ measured' = measured \cup {<<g, f, size[f]>>}
    /\ UNCHANGED <<world, request, pc, selected, linked, allowances, unavailable,
                   exit, history>>

\* A syntax error makes the file unavailable and leaves the others alone.
ReadUnavailable(f) ==
    /\ Reading("callable", f)
    /\ size[f] # Gone
    /\ ~Parsed("callable", f)
    /\ todo' = todo \ {<<"callable", f>>}
    /\ unavailable' = unavailable \cup {f}
    /\ UNCHANGED <<world, request, pc, selected, linked, allowances, measured, exit, history>>

\* Mutant: a file that has gone is passed over.
ReadGoneIgnored(g, f) ==
    /\ Reading(g, f)
    /\ size[f] = Gone
    /\ todo' = todo \ {<<g, f>>}
    /\ UNCHANGED <<world, request, pc, selected, linked, allowances, measured, unavailable,
                   exit, history>>

\* A selected file that has gone is an error of the whole invocation.
ReadGone(g, f) ==
    /\ Reading(g, f)
    /\ size[f] = Gone
    /\ Abort

NextGuard(g, next) ==
    /\ pc = ReadOf[g]
    /\ \A r \in todo : r[1] # g
    /\ Goto(next)
    /\ UNCHANGED <<world, request, selected, linked, allowances, todo, measured,
                   unavailable, exit, history>>

---------------------------------------------------------------------------
(* payload() and exit_code()                                               *)

Allowance(s, f) == IF allowances[s] = None THEN 0 ELSE allowances[s][f]

State(m) ==
    LET g == m[1]  f == m[2]  n == m[3]
    IN  IF g = "loc" THEN Evaluate(f, n, loc, Allowance("loc", f)).state
        ELSE IF g = "callable"
        THEN JudgeCallable(n, ReviewAt, Allowance("callable", f)).state
        ELSE JudgeDocument(n, ReviewAt, Allowance("document", f)).state

Some(state) == \E m \in measured : State(m) = state

\* Mutant: findings are looked at before completeness.
ExitCodeOfFindings ==
    IF Some("fail") THEN 2
    ELSE IF unavailable # {} THEN 3
    ELSE IF Some("review") /\ ~ci THEN 1 ELSE 0

\* Incomplete evidence first, then the worst state of any guard.
ExitCode ==
    IF unavailable # {} THEN 3
    ELSE IF Some("fail") THEN 2
    ELSE IF Some("review") /\ ~ci THEN 1 ELSE 0

Report ==
    /\ pc = "report"
    /\ exit' = ExitCode
    /\ Goto("end")
    /\ UNCHANGED <<world, request, selected, linked, allowances, todo, measured,
                   unavailable, history>>

---------------------------------------------------------------------------
(* Developers and other invocations                                        *)

Change ==
    /\ edits < MaxEdits
    /\ pc # "end"
    /\ edits' = edits + 1
    /\ UNCHANGED <<request, pc, selected, linked, allowances, todo, measured,
                   unavailable, exit>>

EditFile(f, n) ==
    /\ Change
    /\ n # size[f]
    /\ settled' = (settled /\ (f \in links => n # Gone))
    /\ size' = [size EXCEPT ![f] = n]
    /\ UNCHANGED <<broken, store>>

BreakSyntax(f) ==
    /\ Change
    /\ broken' = broken \cup {f}
    /\ UNCHANGED <<size, store, settled>>

\* Another invocation creates, replaces, or a developer deletes a baseline.
StoreBaseline(s, table) ==
    /\ Change
    /\ table # store[s]
    /\ settled' = (settled /\ (store[s] = None => table = None))
    /\ store' = [store EXCEPT ![s] = table]
    /\ UNCHANGED <<size, broken>>

---------------------------------------------------------------------------
Init ==
    /\ size \in [Files -> Gone..MaxSize]
    /\ broken \in SUBSET Code
    /\ store \in [Stores -> Offers \cup {None}]
    /\ direct \in SUBSET Files
    /\ links \in SUBSET Files
    /\ ci \in BOOLEAN
    /\ loc \in LocPolicies
    /\ pc = "select"
    /\ selected = {} /\ linked = {}
    /\ allowances = [s \in Stores |-> None]
    /\ todo = {} /\ measured = {} /\ unavailable = {}
    /\ exit = -1
    /\ settled = TRUE
    /\ edits = 0

Invocation ==
    \/ Select \/ SelectMissing
    \/ Probe("loc", "probe document") \/ Probe("document", "probe callable")
    \/ Probe("callable", "load loc")
    \/ Load("loc", "load document") \/ Load("document", "load callable")
    \/ Load("callable", "check")
    \/ CheckFails \/ Check
    \/ \E g \in Stores, f \in Files : Read(g, f) \/ ReadGone(g, f)
    \/ \E f \in Code : ReadUnavailable(f)
    \/ NextGuard("loc", "read callable") \/ NextGuard("callable", "read document")
    \/ NextGuard("document", "report")
    \/ Report

Others ==
    \/ \E f \in Files, n \in Gone..MaxSize : EditFile(f, n)
    \/ \E f \in Code : BreakSyntax(f)
    \/ \E s \in Stores, table \in Offers \cup {None} : StoreBaseline(s, table)

Next == Invocation \/ Others

Spec == Init /\ [][Next]_vars

---------------------------------------------------------------------------
(* Properties.                                                             *)

\* docs/usage.md: "Normal analysis and creation do not grant allowances through
\* an explicitly supplied file symlink": unless a baseline appeared or a link
\* lost its target meanwhile, a finding about a file reached only through one
\* is judged without any allowance.
NoAllowanceByLink ==
    settled => \A m \in measured :
        m[2] \in links \ (direct \cap selected) => Allowance(m[1], m[2]) = 0

\* Success accounts for everything: exit 0 means every selected file was read
\* by every guard that applies to it, and no reading was a failure, nor (short
\* of --ci) a review, with the allowances loaded.
SuccessAccountsForAll ==
    exit = 0 =>
        \A r \in Reads :
            \E n \in 0..MaxSize :
                LET m == <<r[1], r[2], n>>
                IN  /\ m \in measured
                    /\ State(m) \in IF ci THEN {"pass", "review"} ELSE {"pass"}

\* Missing evidence is never outvoted and never contagious: whatever else was
\* found, an invocation that could not parse a selected file exits 3, and every
\* other guard and file was read all the same.
IncompleteDominates ==
    pc = "end" /\ unavailable # {} /\ todo = {} =>
        /\ exit = 3
        /\ \A r \in Reads \ ({"callable"} \X unavailable) :
              \E n \in 0..MaxSize : <<r[1], r[2], n>> \in measured
============================================================================
