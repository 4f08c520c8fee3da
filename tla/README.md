# Code Guard in TLA+

This directory is a verification development of `agent-code-guard`, a
command-line program that measures files (lines, callables, Markdown) against
review thresholds, ratchets legacy sizes with source-controlled baselines, and
compares the policy of a working tree with that of a commit. TLC checks the
models on small instances; TLAPS proves the theorems named below for every
value of the constants. Paths like `loc_baseline.py` are relative to
`src/agent_code_guard/`.

## 1. The system

One process is one invocation of the command. It has one thread, starts no
retries and never waits for another process; what makes it hard is that
everything it reads and writes is shared: source files and configuration with
developers and agents who go on editing, the index and HEAD with Git commands,
three baseline files with other invocations, the installed package with the
package manager.

| Component | State | Operations | What makes it correct |
| --- | --- | --- | --- |
| Baseline store (`baseline_files.py`) | `.agent-tools/`, the baseline's inode, temporary files | `atomic_create`, `atomic_replace`, load | a baseline is absent or whole, creates never overwrite, no litter |
| LOC ratchet (`loc_baseline.py`, `guards/loc.py`) | table path -> allowed LOC | create, update, evaluate | allowances only sink; adoption and verdict agree; a refusal stands |
| Callable review ratchet (`callable_review_baseline.py`) | table (path, identity, guard) -> ceiling | accept, update, apply | only a reviewed acceptance adds; ambiguity fails closed; removal needs evidence |
| Markdown ratchet (`markdown_baseline.py`) | table path -> allowed lines | create, update, evaluate | as for LOC |
| Analysis run (`code_guard.py`, `analysis/pipeline.py`) | what one invocation selected, loaded, measured | probe, load, check, read per guard, exit code | exit 0 accounts for every file; missing evidence is never hidden; no allowance through a link |
| Policy relaxation guard (`guards/policy_relaxation.py`, `policy_history.py`) | the policy now and at the base commit | read both, compare | a pass means no file is judged more leniently; quiet steps add up |
| File selection (`file_selection.py`) | Git authority, candidates, selected files | validate, resolve, list, filter | nothing left alone is missed, nothing else is picked up |
| Markdown scanner and section guard (`markdown/`) | open fence, headings | scan a line | fences and headings are told apart; sections tile the document |
| Command line (`code_guard.py`), doctor (`doctor.py`) | options, report | choose a mode, check the installation | no option is ignored; doctor's exit code is the truth |
| Skill export (`skill_distribution.py`) | the target directory | copy file by file, marker last | the marker seals a whole export; foreign files are kept |
| Source analysis (`analysis/`) | parsers loaded, facts of a file so far, facts and failures of the batch | load a parser, parse a region, correct a C# tree, extract facts, give a file up | a file is measured whole or reported, whatever happens to the others |
| Callable guards (`guards/callable_size.py`, `nesting.py`, `complexity.py`) | findings | measure each callable | lines, depth and complexity are the callable's own |
| Configuration validation, reports, skill payload, research, tools | none | pure functions, formatting, documents | *not modelled* |

Interactions: the command line selects one mode. An analysis runs file
selection, then loads the three baselines through the store, then the guards;
in a Git mode it also runs the policy comparison. A baseline write runs file
selection, measures with the guard's own code, and stores through the store.
Nothing is shared between processes except files.

Deliberate boundaries: what Git, tree-sitter, the Python runtime and the file
system do is modelled only by what the code relies on.

## 2. The modules

`A -> B` reads "A uses B".

    LocRatchet, CallableRatchet, MarkdownRatchet, AnalysisRun,
    PolicyRelaxation            -> Verdicts
    PolicyHistory               -> PolicyRelaxation
    AtomicStore                 -> BaselineRegister  (refinement)
    CommandLine                 -> SkillExport
    SourceAnalysis              -> SyntaxFacts
    Measurement                 -> SourceAnalysis, MarkdownScan
    FileSelection                  stands alone
    MCx                         -> x   constants for TLC
    x_proofs                    -> x   theorems
    Main_proofs                 -> AnalysisRun, CommandLine   theorems

Each variable is commented where it is declared and each definition is mapped
to its lines in `PROJECT.json`. Operators commented `Mutant:` are not part of
the model: each is a plausible mistake in the definition next to it, and the
run named in `PROJECT.json` reports a violated property when it takes that
definition's place (`ClosesAnyLength` is a second one for `HeadingsExact`).

**Verdicts** holds what the guards say of one measure: `Evaluate` is
`guards/loc.py:evaluate` over all its branches (exempt, ratchet exceeded,
grandfathered, warn), `JudgeCallable` and `JudgeDocument` the review ratchets.

**AtomicStore** has one action per system call: `exists`, `mkdir`, the
comparison with the stored bytes, `mkstemp`, write, `fsync`, `link` or
`rename`, `unlink`, `rmdir`, and `exists`/open/read for a load. A process may be
killed before any of them; every call that can fail has a failing action, the `mkdir`
and the `unlink` after a failed write included; the
machine may lose power, which brings back the last target the directory was
flushed with and only synced data. An inode is named by the invocation that
made it, since an invocation makes at most one; `mkstemp` names are distinct.
No promise is made about *which* of two whole documents survives a power loss:
the code syncs the file, not the directory, and the model says so.
**BaselineRegister** is the abstract specification: create, replace, read, lose
and restore as single steps on a content.

**LocRatchet, MarkdownRatchet, CallableRatchet** model the write commands on
top of that register. An invocation begins (configuration, selection and stored
table are taken together: they are read before the first measurement and
nothing is decided in between), measures one file per step in any order (the
result does not depend on the order, only which file aborts first), and
commits (comparison and replacement are one step here; AtomicStore takes them
apart). Developers edit a file, change the policy, delete the baseline, break
or repair the syntax of a file at any moment. A table is a total function with 0
for "no entry", because stored allowances are positive. The callable model
keeps identity ambiguity: a selector is absent, unique, or declared twice.
Exclusions from configuration and from `--scope-exclude` are one set.

**AnalysisRun** takes the steps of `main()` after selection one at a time: three
probes for a baseline, three loads, the scope check, and a read of every
selected file by every guard that applies to it, since each guard opens the
files again.

**PolicyRelaxation** transcribes `compare()` as the set of reasons it would
yield; **PolicyHistory** the invocation that reads the working tree's files and
the base commit's files one after another while a developer edits and commits.
Path declarations are a set of patterns with the files each covers.
Allowances of callables and documents are one table, `reviewed`, because
`compare()` treats them alike. `Released` names the one exception the code
documents: under `ratchetAt: review` a removed allowance frees the file from
its own limit.

**FileSelection** has one action per Git query or file-system sweep. Trees map
paths to contents. A `git diff` is one step: the properties are about files
nobody touched meanwhile, for which the order of its internal reads makes no
difference. A symlink has one content and a fixed target; a symlink to a directory
among the explicit paths is refused. Rename detection
(status R) lists the new path, which is an added path here.

**MarkdownScan** scans a document of symbolic lines; a line is a record of what
the scanner's patterns can tell apart. The section guard is `SectionState`. The
reference for headings (`Outline`, `Eligible`, `Fence`) is the bounded outline of
docs/markdown-guard-evidence.md:53-84, which is less than CommonMark and says so:
`===` below a title that directly follows another heading or a closed fence makes
no heading, and `---` after a blank line is a title that a second `---` underlines.
One point is the code's rather than the doc's: a line that looks like a fence but is
none (three backticks with a backtick in the info string) is not promoted.

**SyntaxFacts** is `extract_facts()` with everything below it, as operators on
one region. A tree is the sequence of its named nodes in source order, each with
a type, a parent and marks. The node names of thirteen languages come down to
twenty types, by the sets of `language_specs.py` and the conditions of the
adapters they appear in; a language is named only where the code branches on
it. Every node has a token of its own, so that a tree also fixes the bytes at
which its nodes start and end, and the newlines of the file are a set of bytes.
Wrapper nodes with no role of their own are merged with a neighbour. The three
ways to group the labels of a switch (classic, C++, PHP) are one recursive
function, since they differ only in which nodes are labels and what counts as a
body. The module ends with what the languages guarantee of a tree
(`Grammatical`), which the run evaluates on every tree it makes.

**SourceAnalysis** is the batch: file by file, region by region, with one action
per way a step can end. It then measures all callables for the three guards in
one step, as nothing they read changes any more. What a parser answers
(clean, errors, crash; for C# also the problems and what a second parse says)
is part of the file; whether a parser loads is decided when it is first asked
for, as often as that happens. **Measurement** puts the document scanner behind
it, in the order of `run_analysis()`.

**SkillExport** copies file by file, each open (which truncates) and each write
a step of its own, so an exporter may be killed with an empty file in place.
`exists()` and `mkdir()` of a missing target are one step; if two invocations
race there the code's second `mkdir` fails, which is the `Stop` action. **CommandLine**
adds the order of the modes and doctor's checks. The six LOC options are one,
"loc", and the Git selection flags are one, "git": every mode accepts or refuses
them together. `--help` ends the parsing, except that with `--version` it is
refused; doctor refuses before its first check when it cannot find the working
directory. What doctor and an export do not look at is restricted in
`Init` to one value, and the world moves only while one of them runs: before
that, its movement is the choice of the initial state.

### History variables

Some promises hold only if nobody interferes in a particular way, and saying
exactly which is half of the property:

- `quiet[p]` (ratchets): nothing at all has changed since `p` began. Needed
  where the stored table is compared with the working tree *now*.
- `intact[p]` (ratchets): no other *write* since `p` began; edits by developers
  are allowed. Needed for monotonicity: the lost update is the only way an
  allowance rises, and the run `loc_race` shows that it is one.
- `settled` (AnalysisRun): no baseline appeared and no explicit link
  lost its target since the start. One that disappears takes allowances away only.
- `steady` (FileSelection): the files nobody edited or staged since the start.
  HEAD may move all the same.
- `moved`, `upgraded`, `late`, `writers` (doctor and export): the package
  changed, a file was put into the target, who wrote there.
- `seen`, `fenced`, `opened`, `stray` record what has been; `edits` only bounds a run.

## 3. The runs

Times are of two TLC workers.

| Run | Model | Bounds | Question |
| --- | --- | --- | --- |
| `store` | AtomicStore | 2 writers, 1 reader, 2 documents | every interleaving of system calls with kills and power loss: whole documents, no litter, implements the register, every invocation ends |
| `loc` | LocRatchet | 2 files, LOC 0..3, 4 policies, 2 creates, 1 update, 1 edit | types, tight updates, working adoption, monotone ratchet, scope, refusals |
| `loc_race` | LocRatchet | same files and policies, 1 create, 2 updates, 2 edits | the documented "never raises an allowance" without `intact`: violated |
| `loc_unneeded` | LocRatchet | two policies, one with thresholds raised above the allowance | the documented "no longer needed" report: violated |
| `callable` | CallableRatchet | 2 files, 1 name, 1 guard, measures 0..3, 2 accepts, 1 update, 1 edit | only acceptance adds, evidence for removal, ambiguity |
| `markdown` | MarkdownRatchet | 2 documents, 3 lines, 4 policies, 1 create, 2 updates, 2 edits | tight allowances, adoption, monotone ratchet |
| `analysis` | AnalysisRun | 1 source file, 1 document, measures 0..3, 2 edits by others | exit code, links, missing evidence |
| `policy` | PolicyHistory | 2 files, 2 patterns, 2 extensions, 23 policies, 3 commits, 1 edit | soundness of the comparison along a branch |
| `selection` | FileSelection | 3 files (plain, ignored and pruned, a symlink), 2 edits | nothing missed, nothing else |
| `selection_staged` | FileSelection | same, 1 edit | "selects staged files" for a change reverted in the tree: violated |
| `command` | CommandLine | at most 3 options of all, 6 shapes of paths, 2 exporters, 2 payload files, 2 versions | nothing ignored, doctor, export |
| `measurement` | Measurement | 25,623 workloads: ten families of trees of up to 6 nodes, Vue containers of two scripts, and all pairs of 23 kinds of files; or a document of up to 5 lines of 13 kinds | files whole or reported, depth, complexity, lines; headings, sections |

Why these bounds suffice for the cases that matter. *Two files* give a file in
the scope and one outside it, an aborting and a passing one, and a pair under
overlapping overrides. *Measures up to 3* lie below, on, between and above
`warnAt = 1` and `failAt = 2`, and leave room for an allowance above each.
*A second writer of the kind* is what a race between creates or a lost update
takes, whence two creates in `loc` and two updates in `loc_race` and
`markdown`. *One edit* is a change before, between or after the measurements or
between two invocations, and the sizes and policy of the start are arbitrary;
with two, a change can be made and taken back. *Three commits* are the shortest
branch on which two steps could add up. The *23 policies* are each control of the LOC guard moved once,
with the pairs that interact (mode with allowance, exemption with allowance,
reordered overrides); the proofs do not depend on them. *Three options* contain
each forbidden pair with one more to hide behind; the refusals in the code are
unions over single options and pairs. *Five lines* contain a fence that opens,
holds something, and closes, with a line on either side, and two setext
headings that compete for a line.

The *trees* of `measurement` are all that a family's node types can form up to
its size: nested closures, ifs, else-ifs and loops (5 nodes, Java); Kotlin's
and Swift's special cases; Python arms with guards and texts that look like a
default; Dart signatures with their bodies apart (6) and with conditionals in
them (5); C++ labels within blocks
(6); rows of up to four labels, each followed by nothing, a comment or a
statement (PHP); closures assigned, wrapped and nested in three languages.
Three nodes under every placement of newlines show the mapping of lines, and
two scripts of a Vue container the mapping of offsets. Each language appears
where the code treats it apart. The pairs of *files* contain a failure of every
kind before and after a success, in a language that shares a parser
with it or not. With an invocation that has source files there is no document:
they do not touch each other's variables.

Symmetry is declared for names, and for writers of one kind where no liveness
property is checked, never for files or guards that a policy tells apart. In
`store`, which checks one, `MCInit` orders the documents of like writers
instead, which leaves out only initial states that differ by a renaming.

`CHECK_DEADLOCK FALSE` is set in all runs because an invocation ends, and when
all have ended and the edits are used up nothing more happens.

**Fairness and liveness.** The store is where processes can be in each other's
way: a failed create removes the directory another invocation is about to use,
and the file it compares with may vanish. AtomicStore states weak fairness of the steps of each process: the operating system
schedules an invocation until it ends or is killed. Nothing is assumed of
kills, power loss, directory flushes or of people deleting the baseline; they
may happen for ever or never. Under it `InvocationsEnd` says that every
invocation comes to an answer; it would not if, say, a failed `mkstemp` were
simply tried again (the mutant `RetryTemporary`). The
other components are straight-line programs with bounded loops whose only
claim to progress is being scheduled, so no fairness is stated for them.

### Disagreements the runs show

1. `loc_race` - docs/usage.md says an update never adds a path or raises an
   allowance. Two overlapping updates: the one that loaded first writes last and
   restores what the other lowered or removed (`loc_baseline.py:176`).
2. `loc_unneeded` - docs/usage.md says an entry at or below the threshold is
   reported as no longer needed. Under `ratchetAt: review`, a file above its
   allowance but below thresholds raised since is `ratchetExceeded` and fails
   (`guards/loc.py:201`).
3. `selection_staged` - docs/usage.md says `--changed-only` selects staged files.
   A staged change whose working copy was restored to HEAD's content is not
   listed by `git diff HEAD` (`file_selection.py:209`).

Noticed while modelling, without a run of their own: the callable commands
have the lost update of 1 too (compare docs/usage.md, "never adds/increases
one"); a Markdown update aborts on a document that has grown past its
allowance even when it is at or below `reviewAt`, where docs/usage.md:365-368
says such entries are removed and only growth in a retained entry aborts
(`markdown_baseline.py:166`); a baseline that appears between the probe and the
load lets an explicit symlink profit from an allowance, against
docs/usage.md:377 (`code_guard.py:613`; without `settled`, `NoAllowanceByLink`
fails); a baseline write with the positional path `doctor` after its option is
refused (`code_guard.py:266`), where docs/usage.md:133 reserves that word as the
exact first token only; a file that `git add` moves to the index between the
two listings of `--changed-only` is in neither.

In the source analysis, where docs/analyzer-feasibility.md:104-135 and
docs/design-decisions.md say what counts:

- A default branch is one whose text *begins* with `default`, `else`, `case _`
  and the like (`branch_normalization.py:72`). A Python conditional expression
  `default if x else y`, a JavaScript `defaultValue ? a : b`, a label
  `case _MAX:`, a Kotlin arm `elsewhere ->` or a Python `case _Point(x):` are
  therefore not counted. `ComplexityExact` leaves out callables with such a
  branch (`Misread`); without that exception the run finds one.
- Swift's `case _ where c:` counts one instead of two (also `Misread`).
- Kotlin's braceless `if (a) if (b) ...` makes the inner `if` share the level
  of the outer one, as an else-if does (`branch_normalization.py:55`,
  `Braceless` in `DepthExact`).
- A C++ label inside a block that ends before the statements it leads to
  (`case 1: { case 2: } f();`) counts for no arm; the reference definition
  `Bodies` takes the block for its body too.
- A conditional in a Dart signature (`f([int x = a ? 1 : 2])`) is not counted,
  since the walk of a callable is that of its body (`adapters.py:113`), where the
  feasibility study says of Dart that the "ternary" counts (`Unwalked` in
  `ComplexityExact`; without that exception the run finds one).
- Dart's labels that share a body (`switch_statement_case`) count one by one.
- Two closures under one assignment share a name and a start
  (`callable_identity.py:233`); only their ends tell them apart.

## 4. What is proved

All proofs are by TLAPS, for any values of the constants that satisfy the
`ASSUME` of the module; TLC evaluates each assumption in the runs.

**AtomicStore_proofs** (`StoreAssumption`: names are distinct). The inductive
invariant `IInv` adds to the checked invariants a statement per process:
before it links, a writer's inode is private (nobody's target, durable target or
open file); from `fsync` on it holds the document; from the commit on it is
synced; a reader that holds an inode holds a synced, whole one. Without
privacy, writing to a temporary could change what a reader sees. Theorems:
`TypeCorrect`, `WholeDocuments`, `NoLitter`, `DirectoryStays` (a directory is
removed only when empty, so no cleanup takes a name with it), and
`Refinement`: every system call is a step of BaselineRegister or a stutter
(reads take effect at open, writes at link or rename).

**LocRatchet_proofs** (`RatchetAssumption`: policies are well formed).
`IInv` adds `Evidence`: every proposed allowance was a size of the file; from
it `NoInventedAllowance`. A second invariant, `Intact`, says that what an
update with no overlapping write loaded is still what is stored (or the
baseline is deleted), and that its proposal is pointwise at most that and
equal outside its bounds. It gives `RatchetNeverRises`,
`UpdatesStayInScope`, and with `LowerAllowanceAcquitsNothing` (a fact about
`Evaluate` alone) `RefusalsStand`. A third, `Quiet`, is about the writers whose
inputs nobody has changed since they began (`quiet`): what such a writer
proposes for every file it is through with is what that file needs now (`Fits`),
and no allowed-large file has an entry. It survives because a step that changes
a size, the policy or the baseline ends the quiet of everyone who began, and it
gives `UpdatesAreTight` and `CreationAdopts`.

**MarkdownRatchet_proofs** (`MarkdownAssumption`) takes the same two arguments,
`Quiet` for `AllowancesNeeded` and `Intact` for `AllowancesNeverRise`, over
documents and their two measures.

**CallableRatchet_proofs**: `TypeCorrect`; `NoInventedCeiling` by the same
argument with evidence in `facts`; `OnlyAcceptanceAdds`, that a write no other
write overlapped raises only the target of an acceptance, from nothing, and
leaves the rest alone. For the writers nobody disturbed, `Quiet` says step by step
that they are `Informed` (the facts are those of the code of every file analyzed,
and every file that is there and in scope was or will be analyzed) and, once they
commit, have `Decided` by those facts. With `GoneIsEmpty` (a missing file declares
nothing) it gives `MaintenanceIsTight`, `RemovalsHaveEvidence` and
`AcceptancesHold`.

**PolicyHistory_proofs**. `PassMeansTighter` turns "compare() lists no reason"
into `Tightens`, a conjunction of inequalities and inclusions, one per control;
`QuietIsPreorder` that it is reflexive and transitive, hence `QuietCommitsAddUp`.
`QuietLocIsSound` and `QuietReviewIsSound` prove that `Tightens` implies no
content of any file is judged less severely, through `ThresholdsTighten` (the
last matching override under equal topologies, by picking the maximal index) and
`EvaluateTightens`. The state invariant, that what is read is a policy and comes
from the base commit, while the branch only grows, then yields `PassIsSound`:
`PassNeverWeaker` along every behaviour, for any number of files, policies,
overrides and commits.

**Measurement_proofs** covers an invocation's two measuring parts, and
`InvocationMeasures` that neither disturbs the other.

The assumption, `AnalysisAssumption`, says of the files, besides their types:
nodes are in source order (`SourceOrder`: a node comes after the one it belongs
to, and what comes between belongs there too, which is how the model numbers
them); trees are `Grammatical`, as a grammar guarantees (a label belongs to a
switch of its own callable, an alternative to an if, a Dart signature holds no
statement, and the like); and scripts of a container do not overlap in it.

*Files*. `FilesAreWhole`: `WholeFiles` for any files, trees and parsers. It uses
nothing of `ExtractFacts` or of what a tree is like, so it is about the batch,
not the trees. `IInv` adds what is known in the
middle of a file (`Current`: the facts so far are those of the regions no longer
pending, in sound trees, whose parsers are loaded) and that the languages of
everything measured have their parser (`Served`); from the latter, a parser that
fails to load has served no earlier file. `GivenUp` is the one lemma behind all
ways a file can fail.

*Lines*. `LinesAreExact` adds `Evaluated` (what the guards found is what they
find in the facts that are left) and then is about one region: ancestors come
before a node and are transitive (`AncestorsBefore`), so a range starts no later
than it ends (`RangeInOrder`); counting the line starts up to a byte counts the
newlines before it (`RowCount`, a bijection), and the end is put back by one line
exactly when the byte before it is a newline (`RangeLines`).

*Depth*. `DepthIsExact` compares the guard, which sorts a flat list of controls
and looks up each one's parent by its range, with a count along the path to a
node. Four facts carry it. In source order the descendants of a node are the
interval up to its last one (`Within`), so the nodes a walk reaches are those
whose innermost callable it is (`OwnReached`), also where a Dart body stands
beside its signature. A control is as deep as the level above it, or one more
(`LevelStep`, `DeepStep`). Keys tell callables apart across files, scripts and
trees (`KeysTell`), by range within one tree (`RangesTell`), so what a callable
is charged is what was found in it (`ChargedAre`). And the guard's walk has an
invariant, `Walking`: the controls done precede those left, the table holds the
depth of each, and the maximum and its line are those of the first so deep
(`VisitWalks`, `WalkEnds`).

*Complexity*. `ComplexityIsExact` counts on both sides. Facts of different
category or node differ (`DecisionFactsCount`), so a callable has one more than
the nodes it is charged for (`DecisionsCount`). For a switch, `ArmsAre` says of
the grouping of labels that it yields the first label that leads to each body and
is not default (the invariant of `NextLabel`); `BodyRuns` that the code's test for
a body, with its C++ detour through blocks, is the reference's; and `ArmsCount`
that arms and bodies are as many, by a bijection, since a label belongs to one
switch (`LabelsOwned`).

`MeasurementTypes` follows from these: what is measured is a number because the
lines of a range, the end of the walk and the decisions of a callable are.

*Documents* (`ScanAssumption`: a line that begins with # underlines nothing).
`ScanInv` says what the fences and the headings read so far are: each fence
begins with a line that opens it and no line since closes it (`Fences`), each
heading is in no fence and is an ATX line or an eligible title with its
underline, none outside was missed (`Found`), and they ascend
(`HeadingsAscend`). `HeadingsAreExact` is an equality of sets proved in both
directions: `HeadingsSound` that each heading, with level and lines, is one of the
documented outline, `HeadingsComplete` that each of the outline was found. Both
go through `TitlesAgree`, that the two descriptions of a title say the same. The
scanner also refuses an underline below a line that ended a heading, which the
outline does not mention; that this turns nothing of the outline away, as such a
line is no eligible title anyway, is part of why `Found` is an invariant.
Together with the arithmetic of adjoining intervals
(`AddUp`), `ScanInv` gives `SectionsAccountForAll`.

Induction over data is done in first-order form where it is needed: a set of
counterexamples has a least element (`Least`), which is then refuted.

**Main_proofs**, *the analysis run* (`AnalysisAssumption`: code and documents are disjoint,
policies well formed, offered tables about the files). The invariant `AInv` says
that from the first guard on every reading is still to come, was made, or showed
a file without syntax facts (`Covered`), that the guards come in order, and that
an ended invocation either aborted with 3 or reported on everything. It gives
`SuccessIsComplete` and `EvidenceNeverOutvoted`. A second invariant, `LinkInv`,
follows the links through probing, loading and stripping in a settled world:
once a table may have been loaded, the links are known (`LinksKnown`), and from
the first guard on no file reached only by a link has an allowance. It gives
`LinksGrantNothing`.

*The command line and the export it starts* (`CommandAssumption`,
`ExportAssumption`: the files of a payload are distinct and the marker is none of
them). `ExportInv` says of each exporter how far it is (`Progress`), that a running
one found a directory and met no foreign file but late ones (`Watched`), and of a
directory with one writer that everything it wrote is of one version and the
marker comes last (`Held`). It gives `MarkerVouches` and `ForeignIsKept`. `CommandInv` adds
what each early return of `main()` has ruled out for the modes behind it
(`Sieved`), hence `NothingIsIgnored`, and that doctor's findings so far are how
things still are, as long as nobody moved them (`Diagnosed`), hence
`DoctorIsTruthful`.

**FileSelection_proofs** (`SelectionAssumption`: links lead to files that are
not links). The invariant says what the listings so far hold: every file left
alone and owed to the mode is listed, or will be as untracked (`Listed`), and
whatever is listed was asked for or is no longer as it was (`Warranted`). Edits by
developers change neither for files in `steady`, commits for none, because everything is
compared with the retained commit. It gives `CurrentWorkSelected` and
`NothingElseSelected`.

Only model-checked: liveness (`InvocationsEnd`), which is out of the prover's
reach, as ENABLED is. Every other property of a passing run is a theorem.
RECURSIVE operators are not used.

## 5. Hazards

`PROJECT.json` lists each at its line with the properties aimed at it. Three
groups dominate: (a) decisions on state read earlier (baselines, policy, HEAD,
listings); (b) partial failure (one file of many, a kill between two calls);
(c) rules that live in several places and must agree (create/update/evaluate;
six option lists; compare/evaluate; the tree and the flat facts depth is
rebuilt from).

## 6. Left out, and why

- Symlinks and canonical paths beyond the linked-target rule: predicates over
  strings and the file system's links, without steps. A model would restate
  them.
- Parsing of the three baseline formats and of the configuration: they define
  the legal tables and policies the models start from.
- Report formatting, fingerprints, detail limits, help text.
- What Tree-sitter makes of a text: external. The names of its nodes are
  grouped by hand; a name missing from a table of `language_specs.py` is not
  something these models can find.
- In the source analysis: `preproc_` nodes, the start of a TypeScript method at
  its decorators and of a Swift protocol function at its sibling, the breakdown
  of decisions by category, `parent_callable`, and names beyond whether there
  is one.
- `analyze_files()`, which only tests call.
- argparse: options arrive as a set, and argument errors (exit 2) are left out.
- Explicit directories outside the Git root, or above it: they are walked, as every
  directory is without a repository, which is the case that is modelled.

## 7. Plan

Done, in this order: store and register; LOC ratchet; callable ratchet; Markdown
ratchet; analysis run; policy comparison; file selection; command line with
doctor and export; Markdown scanner; liveness of the store; source analysis and
callable guards; proofs about the store, the three ratchets, the policy comparison,
the analysis run, the file selection, the command line with the export, the source
analysis, the lines, depth and complexity of callables and the Markdown scanner.

What could follow:

- A composition of a ratchet with the store in place of the register, on the
  smallest instance, to check the merged comparison and replacement against
  their separate system calls.
