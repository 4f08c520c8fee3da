---------------------------- MODULE PolicyHistory ---------------------------
(***************************************************************************)
(* The policy comparison of one Git-mode invocation against a branch on    *)
(* which developers keep editing and committing policy: main(),            *)
(* resolve_git_authority() of file_selection.py and policy_history.py.     *)
(*                                                                         *)
(* commits[1] is the merge base of --base-ref; HEAD is the last commit.    *)
(* A policy is configuration (loc, reviews, scope), legacy allowances      *)
(* (allowed) and review allowances (reviewed); it is stored as files that  *)
(* the invocation reads one after the other.                               *)
(***************************************************************************)
EXTENDS PolicyRelaxation

CONSTANTS
    Policies,       \* the policies developers write
    Defaults,       \* the policy of a tree with none of the files
    Contents,       \* contents of a source file
    Measures,       \* measures of a subject
    MaxCommits,     \* commits on the branch (bound)
    MaxEdits        \* edits of the policy after the start (bound)

ASSUME HistoryAssumption ==
    /\ \A p \in Policies : IsPolicy(p)
    /\ Defaults \in Policies
    /\ \A c \in Contents : c.code \in Nat /\ c.blank \in Nat /\ c.comment \in Nat
    /\ Measures \subseteq Nat
    /\ MaxCommits \in Nat \ {0} /\ MaxEdits \in Nat

VARIABLES
    commits,        \* the branch: the policy of each commit
    work,           \* the policy of the working tree
    mode,           \* "changed" (or staged), or "base"
    pc,             \* the step the invocation takes next
    base,           \* GitAuthority.base_object: a commit, 0 for none
    after,          \* what it has read of the working tree's policy
    before,         \* what it has read of the base commit's policy
    result,         \* the guard's state, "error", or "none"
    edits           \* history: edits of the working tree's policy

vars == <<commits, work, mode, pc, base, after, before, result, edits>>

HeadCommit == Len(commits)

PolicyAt(commit) == IF commit = 0 THEN Defaults ELSE commits[commit]

Goto(step) == pc' = step

Fail ==
    /\ Goto("done")
    /\ result' = "error"
    /\ UNCHANGED <<commits, work, mode, base, after, before, edits>>

LoadConfiguration ==
    /\ pc = "configuration"
    /\ after' = [after EXCEPT !.loc = work.loc, !.reviews = work.reviews, !.scope = work.scope]
    /\ Goto("authority")
    /\ UNCHANGED <<commits, work, mode, base, before, result, edits>>

\* Mutant: an unborn branch has a merge base.
ResolveUnborn ==
    /\ pc = "authority"
    /\ base' = IF mode = "base" THEN 1 ELSE HeadCommit
    /\ Goto("allowed")
    /\ UNCHANGED <<commits, work, mode, after, before, result, edits>>

\* resolve_git_authority: commits are resolved once; --base-ref needs a HEAD.
ResolveAuthority ==
    /\ pc = "authority"
    /\ mode = "base" => HeadCommit > 0
    /\ base' = IF mode = "base" THEN 1 ELSE HeadCommit
    /\ Goto("allowed")
    /\ UNCHANGED <<commits, work, mode, after, before, result, edits>>

NoAuthority ==
    /\ pc = "authority"
    /\ mode = "base" /\ HeadCommit = 0
    /\ Fail

\* main() loads the LOC baseline, run_analysis() the other two.
LoadAllowed ==
    /\ pc = "allowed"
    /\ after' = [after EXCEPT !.allowed = work.allowed]
    /\ Goto("reviewed")
    /\ UNCHANGED <<commits, work, mode, base, before, result, edits>>

LoadReviewed ==
    /\ pc = "reviewed"
    /\ after' = [after EXCEPT !.reviewed = work.reviewed]
    /\ Goto("overlap")
    /\ UNCHANGED <<commits, work, mode, base, before, result, edits>>

\* A ratchet entry may not overlap allowedLargeFiles.
Overlaps(p) == \E f \in Matched(p.loc.allowedLarge) : p.allowed[f] # 0

CheckOverlap ==
    /\ pc = "overlap"
    /\ ~Overlaps(after)
    /\ Goto("read configuration")
    /\ UNCHANGED <<commits, work, mode, base, after, before, result, edits>>

OverlapNow ==
    /\ pc = "overlap"
    /\ Overlaps(after)
    /\ Fail

\* Mutant: the artifact is looked up in HEAD.
ReadAtHead == PolicyAt(HeadCommit)

\* read_artifact: from the retained object; nothing is read when there is none.
ReadAt == PolicyAt(base)

ReadConfiguration ==
    /\ pc = "read configuration"
    /\ before' = [before EXCEPT !.loc = ReadAt.loc, !.reviews = ReadAt.reviews,
                                !.scope = ReadAt.scope]
    /\ Goto("read allowed")
    /\ UNCHANGED <<commits, work, mode, base, after, result, edits>>

ReadAllowed ==
    /\ pc = "read allowed"
    /\ before' = [before EXCEPT !.allowed = ReadAt.allowed]
    /\ Goto("read reviewed")
    /\ UNCHANGED <<commits, work, mode, base, after, result, edits>>

ReadReviewed ==
    /\ pc = "read reviewed"
    /\ before' = [before EXCEPT !.reviewed = ReadAt.reviewed]
    /\ Goto("compare")
    /\ UNCHANGED <<commits, work, mode, base, after, result, edits>>

CompareCurrent ==
    /\ pc = "compare"
    /\ ~Overlaps(before)
    /\ result' = Compare(before, after)
    /\ Goto("done")
    /\ UNCHANGED <<commits, work, mode, base, after, before, edits>>

OverlapBefore ==
    /\ pc = "compare"
    /\ Overlaps(before)
    /\ Fail

\* Developers edit the policy and commit it, also while the invocation runs.
EditPolicy(p) ==
    /\ edits < MaxEdits
    /\ edits' = edits + 1
    /\ work' = p
    /\ UNCHANGED <<commits, mode, pc, base, after, before, result>>

Commit ==
    /\ HeadCommit < MaxCommits
    /\ commits' = Append(commits, work)
    /\ UNCHANGED <<work, mode, pc, base, after, before, result, edits>>

---------------------------------------------------------------------------
Init ==
    /\ commits \in {<<>>} \cup {<<p>> : p \in Policies}
    /\ work \in Policies
    /\ mode \in {"changed", "base"}
    /\ pc = "configuration"
    /\ base = 0
    /\ after = Defaults /\ before = Defaults
    /\ result = "none"
    /\ edits = 0

Invocation ==
    \/ LoadConfiguration
    \/ ResolveAuthority \/ NoAuthority
    \/ LoadAllowed \/ LoadReviewed
    \/ CheckOverlap \/ OverlapNow
    \/ ReadConfiguration \/ ReadAllowed \/ ReadReviewed
    \/ CompareCurrent \/ OverlapBefore

Next == Invocation \/ Commit \/ \E p \in Policies : EditPolicy(p)

Spec == Init /\ [][Next]_vars

---------------------------------------------------------------------------
(* Properties                                                              *)

\* The policies read and the branch keep their types (policy_history.py).
TypeOK ==
    /\ commits \in Seq(Policies) /\ HeadCommit <= MaxCommits
    /\ work \in Policies
    /\ mode \in {"changed", "base"}
    /\ base \in 0..HeadCommit
    /\ IsPolicy(after) /\ IsPolicy(before)
    /\ result \in {"none", "pass", "review", "error"}
    /\ edits \in 0..MaxEdits

\* Quiet steps add up (policy_relaxation.py compares only two trees): when no
\* commit of the branch relaxed the policy of its parent, none relaxed that of
\* any ancestor, so CI comparing with the merge base has nothing to report.
QuietAddsUp ==
    (\A i \in 1..HeadCommit - 1 : Compare(commits[i], commits[i + 1]) = "pass")
        => \A i, j \in 1..HeadCommit : i <= j => Compare(commits[i], commits[j]) = "pass"

\* A pass of the guard means what it says, whatever is committed meanwhile: no
\* file content or subject is judged more leniently by the policy this
\* invocation applies than by the commit it took as its base.  (An entry
\* removed under ratchetAt review is the documented exception.)
PassNeverWeaker ==
    result = "pass" =>
        /\ \A f \in Files, content \in Contents :
              \/ Released(f, PolicyAt(base), after)
              \/ Severity(LocState(f, content, PolicyAt(base)))
                    <= Severity(LocState(f, content, after))
        /\ \A s \in Subjects, n \in Measures :
              Severity(ReviewState(s, n, PolicyAt(base)))
                  <= Severity(ReviewState(s, n, after))
===========================================================================
