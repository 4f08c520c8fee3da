--------------------------- MODULE FileSelection ---------------------------
(***************************************************************************)
(* What one invocation analyzes: _resolve_scope() of file_selection.py,    *)
(* which asks Git, the index and the working tree one after the other      *)
(* while developers edit, stage and commit.                                *)
(*                                                                         *)
(* A tree gives every path a content or None.  Git is external: its diffs  *)
(* and listings are modelled by what the code relies on, for the statuses  *)
(* --diff-filter=ACMR keeps.                                               *)
(***************************************************************************)
EXTENDS Naturals

CONSTANTS
    Files,          \* paths of the working tree
    Contents, None, \* what each path may hold
    Ignored,        \* paths .gitignore matches
    Pruned,         \* paths below .git, node_modules, bin or obj
    Links, Target,  \* paths that are file symlinks when they exist, to what
    Requests,       \* positional paths (files named, files of the directories, whether
                    \* one is a symlink to a directory) and the paths scope.exclude
                    \* and --scope-exclude match
    Unborn,         \* the HEAD of a branch without commits
    Unrelated,      \* the base of a --base-ref that does not resolve
    MaxEdits        \* developer edits in a behaviour (bound)

Trees == {t \in [Files -> (UNION {Contents[f] : f \in Files}) \cup {None}] :
             \A f \in Files : t[f] \in Contents[f] \cup {None}}
Nothing == [f \in Files |-> None]
Flags == {"changed", "staged", "base"}

ASSUME SelectionAssumption ==
    /\ \A f \in Files : None \notin Contents[f]
    /\ MaxEdits \in Nat
    /\ Ignored \cup Pruned \cup Links \subseteq Files
    /\ Target \in [Links -> Files \ Links]
    /\ Requests \subseteq [named : SUBSET Files, within : SUBSET Files,
                            directoryLink : BOOLEAN, excluded : SUBSET Files]
    /\ Unborn \notin Trees /\ Unrelated \notin Trees

VARIABLES
    head, index, work,  \* the commit HEAD names, the index, the working tree
    repository,         \* whether there is a Git repository around
    flags,              \* the file-selection modes asked for
    request,            \* the paths given
    base,               \* the merge base of --base-ref and HEAD
    pc,                 \* the step taken next, "done" or "failed"
    headObject,         \* GitAuthority: the commits everything is compared with
    baseObject,
    candidates,         \* the paths listed so far
    selected,           \* files, canonical
    steady,             \* history: paths nobody touched or staged since the start
    edits               \* history: number of edits so far

repo == <<head, index, work>>
asked == <<repository, flags, request, base>>
history == <<steady, edits>>
vars == <<repo, asked, pc, headObject, baseObject, candidates, selected, history>>

Goto(step) == pc' = step

Fail ==
    /\ Goto("failed")
    /\ UNCHANGED <<repo, asked, headObject, baseObject, candidates, selected, history>>

Mode(flag) == flags = {flag}

---------------------------------------------------------------------------
(* What Git lists                                                          *)

Tree(object) == IF object = Unborn THEN Nothing ELSE object

Differs(new, old) == {f \in Files : new[f] # None /\ new[f] # old[f]}

\* git diff <object>: the working copies of the paths the index holds.
DiffWork(object) == {f \in Differs(work, Tree(object)) : index[f] # None}

\* git diff --cached
DiffIndex(object) == Differs(index, Tree(object))

\* Mutant: git ls-files --others, without --exclude-standard.
OthersAndIgnored == {f \in Files : index[f] = None /\ work[f] # None}

\* git ls-files --others --exclude-standard
Others == {f \in Files \ Ignored : index[f] = None /\ work[f] # None}

\* git ls-files --cached
Cached == {f \in Files : index[f] # None}

---------------------------------------------------------------------------
(* _resolve_scope()                                                        *)

\* Where a path leads, and whether something is there.
Canonical(f) == IF f \in Links THEN Target[f] ELSE f
Exists(f) == work[f] # None /\ work[Canonical(f)] # None

\* validate_selection_args: at most one mode, and only in a repository.
Valid == \A a, b \in flags : a = b /\ repository

Validate ==
    /\ pc = "validate"
    /\ Valid
    /\ Goto("authority")
    /\ UNCHANGED <<repo, asked, headObject, baseObject, candidates, selected, history>>

RefuseArguments ==
    /\ pc = "validate"
    /\ ~Valid
    /\ Fail

\* resolve_git_authority: HEAD is resolved once.
ResolveAuthority ==
    /\ pc = "authority"
    /\ Mode("base") => head # Unborn /\ base # Unrelated
    /\ headObject' = IF flags = {} THEN Unborn ELSE head
    /\ baseObject' = IF Mode("base") THEN base ELSE headObject'
    /\ Goto("paths")
    /\ UNCHANGED <<repo, asked, candidates, selected, history>>

NoAuthority ==
    /\ pc = "authority"
    /\ Mode("base") /\ (head = Unborn \/ base = Unrelated)
    /\ Fail

\* resolve_explicit_paths: all there, and no symlink to a directory.
Resolvable == (\A f \in request.named : Exists(f)) /\ ~request.directoryLink

ResolvePaths ==
    /\ pc = "paths"
    /\ Resolvable
    /\ Goto(IF flags = {} THEN "expand" ELSE "diff")
    /\ UNCHANGED <<repo, asked, headObject, baseObject, candidates, selected, history>>

RefusePaths ==
    /\ pc = "paths"
    /\ ~Resolvable
    /\ Fail

\* expand_paths: a file as named, a directory by git ls-files or os.walk.
Expand ==
    /\ pc = "expand"
    /\ LET listed == IF repository THEN Cached \cup Others ELSE {f \in Files : work[f] # None}
       IN  candidates' = {f \in request.named : Exists(f)}
                            \cup ((listed \cap request.within) \ (Pruned \cup Links))
    /\ Goto("existing")
    /\ UNCHANGED <<repo, asked, headObject, baseObject, selected, history>>

\* Mutant: the working tree is compared with wherever HEAD is by now.
ChangesSinceHead ==
    IF Mode("base") THEN Differs(Tree(head), baseObject)
    ELSE IF Mode("staged") \/ head = Unborn THEN DiffIndex(head)
    ELSE DiffWork(head)

\* git_base_files, or the first listing of git_files.
Changes ==
    IF Mode("base") THEN Differs(headObject, baseObject)
    ELSE IF Mode("staged") \/ headObject = Unborn THEN DiffIndex(headObject)
    ELSE DiffWork(headObject)

Diff ==
    /\ pc = "diff"
    /\ candidates' = Changes
    /\ Goto(IF Mode("changed") THEN "others" ELSE "existing")
    /\ UNCHANGED <<repo, asked, headObject, baseObject, selected, history>>

\* The second listing of git_files, for --changed-only.
ListOthers ==
    /\ pc = "others"
    /\ candidates' = candidates \cup Others
    /\ Goto("existing")
    /\ UNCHANGED <<repo, asked, headObject, baseObject, selected, history>>

\* bound_git_candidates compares where the paths lead.
InBounds(f) ==
    Canonical(f) \in request.within \cup {Canonical(g) : g \in request.named}

\* existing_files, the bounds of a Git mode, identities, scope exclusions.
Resolve ==
    /\ pc = "existing"
    /\ selected' = {Canonical(f) : f \in
          {f \in candidates : Exists(f) /\ (flags # {} => InBounds(f))}} \ request.excluded
    /\ Goto("done")
    /\ UNCHANGED <<repo, asked, headObject, baseObject, candidates, history>>

---------------------------------------------------------------------------
(* Developers                                                              *)

Touch(f) ==
    /\ edits < MaxEdits
    /\ edits' = edits + 1
    /\ steady' = steady \ {f}
    /\ UNCHANGED <<asked, pc, headObject, baseObject, candidates, selected>>

\* Written, or deleted.
Edit(f, c) ==
    /\ Touch(f)
    /\ c # work[f]
    /\ work' = [work EXCEPT ![f] = c]
    /\ UNCHANGED <<head, index>>

\* git add, or git reset of a path.
Stage(f, c) ==
    /\ Touch(f)
    /\ c # index[f]
    /\ index' = [index EXCEPT ![f] = c]
    /\ UNCHANGED <<head, work>>

\* git commit
Commit ==
    /\ repository
    /\ head # index
    /\ head' = index
    /\ UNCHANGED <<index, work, asked, pc, headObject, baseObject, candidates,
                   selected, history>>

---------------------------------------------------------------------------
Init ==
    /\ repository \in BOOLEAN
    /\ work \in Trees /\ index \in Trees /\ head \in Trees \cup {Unborn}
    /\ ~repository => index = Nothing /\ head = Unborn
    /\ flags \in SUBSET Flags
    /\ request \in Requests
    /\ base \in {Nothing, Unrelated, Tree(head)}
    /\ "base" \notin flags => base = Unrelated
    /\ pc = "validate"
    /\ headObject = Unborn /\ baseObject = Unborn
    /\ candidates = {} /\ selected = {}
    /\ steady = Files
    /\ edits = 0

Invocation ==
    \/ Validate \/ RefuseArguments
    \/ ResolveAuthority \/ NoAuthority
    \/ ResolvePaths \/ RefusePaths
    \/ Expand \/ Diff \/ ListOthers \/ Resolve

Developer ==
    \/ \E f \in Files : \E c \in Contents[f] \cup {None} : Edit(f, c)
    \/ \E f \in Files : repository /\ (Stage(f, work[f]) \/ Stage(f, Tree(head)[f]))
    \/ Commit

Next == Invocation \/ Developer

Spec == Init /\ [][Next]_vars

---------------------------------------------------------------------------
(* Properties.                                                             *)

Visible(f) == f \notin Ignored \/ index[f] # None
Dirty(f) == work[f] # Tree(headObject)[f]
Staged(f) == index[f] # Tree(headObject)[f]
Committed(f) == headObject[f] # baseObject[f]

\* What each mode is asked for (docs/usage.md, "Command and scope").
Owed(f) ==
    \/ Mode("changed") /\ Dirty(f) /\ Visible(f)
    \/ Mode("staged") /\ Staged(f) /\ index[f] # None
    \/ Mode("base") /\ Committed(f) /\ headObject[f] # None
    \/ flags = {} /\ f \in request.named
    \/ /\ flags = {} /\ f \in request.within \ (Pruned \cup Links)
       /\ repository => Visible(f)

\* A file the developers leave alone.
Left(f) == {f, Canonical(f)} \subseteq steady

\* No current work escapes: a file that has differed from the commit retained
\* ever since the invocation began is selected by the modes that ask for it,
\* whatever happens to other files and however HEAD moves meanwhile.
NothingMissed ==
    pc = "done" =>
        \A f \in Files :
            /\ Left(f) /\ Exists(f) /\ Owed(f)
            /\ InBounds(f) /\ Canonical(f) \notin request.excluded
            => Canonical(f) \in selected

\* Nothing else is analyzed: what is selected differs from the commit retained,
\* in the working tree or in the index, and an ignored file is never picked up
\* without being named or tracked.  With --base-ref this is so whatever
\* developers do to it meanwhile.
NothingElse ==
    pc = "done" =>
        \A g \in selected :
            \E f \in Files :
                /\ Canonical(f) = g
                /\ \/ ~Left(f) /\ ~Mode("base")
                   \/ Owed(f)
                   \/ Mode("changed") /\ Staged(f) /\ Visible(f)

\* docs/usage.md: --changed-only "selects staged, unstaged, and untracked
\* files".
StagedSelected ==
    pc = "done" /\ Mode("changed") =>
        \A f \in Files :
            /\ Left(f) /\ Exists(f) /\ Staged(f) /\ index[f] # None
            /\ InBounds(f) /\ Canonical(f) \notin request.excluded
            => Canonical(f) \in selected
=============================================================================
