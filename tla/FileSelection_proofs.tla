------------------------ MODULE FileSelection_proofs ------------------------
(***************************************************************************)
(* Proofs about FileSelection for any trees, requests and edits: a file    *)
(* developers leave alone is selected exactly when the modes ask for it.   *)
(***************************************************************************)
EXTENDS FileSelection, TLAPS

Values == (UNION {Contents[f] : f \in Files}) \cup {None}

Types ==
    /\ work \in Trees /\ index \in Trees /\ head \in Trees \cup {Unborn}
    /\ request \in Requests
    /\ candidates \subseteq Files

\* The mode decides which listings there are.
Route ==
    /\ pc \notin {"validate", "failed"} => Valid
    /\ flags \subseteq Flags
    /\ pc = "expand" => flags = {}
    /\ pc = "diff" => flags # {}
    /\ pc = "others" => Mode("changed")

\* What listing f is for
Warranted(f) ==
    \/ ~Left(f) /\ ~Mode("base")
    \/ Owed(f)
    \/ Mode("changed") /\ Staged(f) /\ Visible(f)

\* Everything owed is a candidate, or still to be listed as untracked.
Listed ==
    \A f \in Files :
        Left(f) /\ Exists(f) /\ Owed(f) =>
            f \in candidates \/ (pc = "others" /\ index[f] = None)

IInv ==
    /\ Types
    /\ Route
    /\ pc \in {"others", "existing"} => Listed /\ \A f \in candidates : Warranted(f)
    /\ NothingMissed
    /\ NothingElse

LEMMA TreeUpdated ==
    ASSUME NEW t \in Trees, NEW f \in Files, NEW c \in Contents[f] \cup {None}
    PROVE  [t EXCEPT ![f] = c] \in Trees
<1>1. c \in Values
  BY DEF Values
<1>2. [t EXCEPT ![f] = c] \in [Files -> Values]
  BY <1>1 DEF Trees, Values
<1>3. \A g \in Files : [t EXCEPT ![f] = c][g] \in Contents[g] \cup {None}
  BY DEF Trees
<1>4. QED BY <1>2, <1>3 DEF Trees, Values

LEMMA NothingIsTree == Nothing \in Trees
<1>1. Nothing \in [Files -> Values]
  BY DEF Nothing, Values
<1>2. \A f \in Files : Nothing[f] \in Contents[f] \cup {None}
  BY DEF Nothing
<1>3. QED BY <1>1, <1>2 DEF Trees, Values

LEMMA InitIInv == Init => IInv
<1> SUFFICES ASSUME Init PROVE IInv
  OBVIOUS
<1>1. Types
  BY DEF Init, Types
<1>2. Route
  BY DEF Init, Route
<1>3. QED BY <1>1, <1>2 DEF Init, IInv, NothingMissed, NothingElse

LEMMA StepTypes ==
    ASSUME Types, [Next]_vars
    PROVE  Types'
<1> USE DEF Types
<1>1. CASE UNCHANGED vars
  BY <1>1 DEF vars, repo, asked
<1>2. CASE Commit
  BY <1>2 DEF Commit, asked
<1>3. ASSUME NEW f \in Files, NEW c \in Contents[f] \cup {None}, Edit(f, c)
      PROVE  Types'
  BY <1>3, TreeUpdated DEF Edit, Touch, asked
<1>4. ASSUME NEW f \in Files, Stage(f, work[f]) \/ Stage(f, Tree(head)[f])
      PROVE  Types'
  <2>1. work[f] \in Contents[f] \cup {None}
    BY DEF Trees
  <2>2. Tree(head)[f] \in Contents[f] \cup {None}
    BY NothingIsTree DEF Tree, Trees
  <2>3. index' \in Trees /\ UNCHANGED <<work, head, request, candidates>>
    BY <1>4, <2>1, <2>2, TreeUpdated DEF Stage, Touch, asked
  <2>4. QED BY <2>3
<1>5. CASE Invocation
  <2>1. UNCHANGED <<repo, asked>>
    BY <1>5 DEF Invocation, Validate, RefuseArguments, ResolveAuthority, NoAuthority,
       ResolvePaths, RefusePaths, Expand, Diff, ListOthers, Resolve, Fail
  <2>2. request.named \subseteq Files
    BY SelectionAssumption
  <2>3. candidates' \subseteq Files
    BY <1>5, <2>2 DEF Invocation, Validate, RefuseArguments, ResolveAuthority, NoAuthority,
       ResolvePaths, RefusePaths, Expand, Diff, ListOthers, Resolve, Fail, Changes, Differs,
       DiffIndex, DiffWork, Others, Cached
  <2>4. QED BY <2>1, <2>3 DEF repo, asked
<1>6. QED BY <1>1, <1>2, <1>3, <1>4, <1>5 DEF Next, Developer

LEMMA StepRoute ==
    ASSUME Route, [Next]_vars
    PROVE  Route'
<1>1. CASE UNCHANGED vars \/ Developer
  <2>1. UNCHANGED <<asked, pc>>
    BY <1>1 DEF vars, Developer, Edit, Stage, Touch, Commit
  <2>2. QED BY <2>1 DEF Route, Valid, Mode, asked
<1>2. CASE Invocation
  BY <1>2 DEF Invocation, Validate, RefuseArguments, ResolveAuthority, NoAuthority,
     ResolvePaths, RefusePaths, Expand, Diff, ListOthers, Resolve, Fail, Goto,
     Route, Valid, Mode, asked
<1>3. QED BY <1>1, <1>2 DEF Next

---------------------------------------------------------------------------
(* Developers                                                              *)

\* What they leave alone keeps its contents.
LEMMA LeftAlone ==
    ASSUME Types, Developer \/ UNCHANGED vars, NEW f \in Files, Left(f)'
    PROVE  /\ Left(f)
           /\ work'[f] = work[f] /\ index'[f] = index[f]
           /\ work'[Canonical(f)] = work[Canonical(f)]
<1>1. Canonical(f) \in Files
  BY SelectionAssumption DEF Canonical
<1>2. {f, Canonical(f)} \subseteq steady'
  BY DEF Left
<1>3. \A g \in Files : g \in steady' => /\ g \in steady
                                        /\ work'[g] = work[g] /\ index'[g] = index[g]
  BY DEF Developer, Edit, Stage, Touch, Commit, vars, repo, history, Types, Trees
<1>4. QED BY <1>1, <1>2, <1>3 DEF Left

LEMMA DevelopersKeep ==
    ASSUME IInv, Developer \/ UNCHANGED vars, Types'
    PROVE  /\ pc' \in {"others", "existing"} => Listed' /\ (\A f \in candidates : Warranted(f))'
           /\ NothingMissed' /\ NothingElse'
<1>1. UNCHANGED <<asked, pc, headObject, baseObject, candidates, selected>>
  BY DEF Developer, Edit, Stage, Touch, Commit, vars
<1>2. ASSUME NEW f \in Files, Left(f)'
      PROVE  /\ Left(f) /\ (Exists(f)' <=> Exists(f)) /\ (Owed(f)' <=> Owed(f))
             /\ (Staged(f)' <=> Staged(f)) /\ (Visible(f)' <=> Visible(f))
             /\ index'[f] = index[f]
  BY <1>1, <1>2, LeftAlone DEF IInv, Exists, Owed, Staged, Visible, Dirty, Committed, Tree,
     Mode, asked
<1>3. ASSUME NEW f \in Files, Warranted(f)
      PROVE  Warranted(f)'
  <2>1. CASE Left(f)'
    BY <1>1, <1>2, <1>3, <2>1 DEF Warranted, Mode, asked
  <2>2. CASE ~Left(f)' /\ Mode("base")
    BY <1>1, <1>3, <2>2 DEF Warranted, Mode, Owed, Committed, asked
  <2>3. CASE ~Left(f)' /\ ~Mode("base")
    BY <1>1, <2>3 DEF Warranted, Mode, asked
  <2>4. QED BY <2>1, <2>2, <2>3
<1>4. \A f : InBounds(f)' <=> InBounds(f)
  BY <1>1 DEF InBounds, asked
<1>5. ASSUME pc' \in {"others", "existing"}
      PROVE  Listed' /\ (\A f \in candidates : Warranted(f))'
  <2>1. Listed /\ \A f \in candidates : Warranted(f)
    BY <1>1, <1>5 DEF IInv
  <2>2. Listed'
    BY <1>1, <1>2, <2>1 DEF Listed
  <2>3. QED BY <1>1, <1>3, <2>1, <2>2 DEF IInv, Types
<1>6. NothingMissed'
  BY <1>1, <1>2, <1>4 DEF IInv, NothingMissed, asked
<1>7. NothingElse'
  <2>1. SUFFICES ASSUME pc' = "done", NEW g \in selected'
                 PROVE  \E f \in Files : Canonical(f) = g /\ Warranted(f)'
    BY DEF NothingElse, Warranted
  <2>2. \E f \in Files : Canonical(f) = g /\ Warranted(f)
    BY <1>1, <2>1 DEF IInv, NothingElse, Warranted
  <2>3. QED BY <1>3, <2>2
<1>8. QED BY <1>5, <1>6, <1>7

---------------------------------------------------------------------------
(* The invocation                                                          *)

LEMMA OneMode ==
    ASSUME Route, pc \in {"diff", "others"}
    PROVE  Mode("changed") \/ Mode("staged") \/ Mode("base")
<1>1. flags # {} /\ flags \subseteq Flags /\ Valid
  BY DEF Route, Mode
<1>2. PICK a \in flags : TRUE
  BY <1>1
<1>3. flags = {a}
  BY <1>1, <1>2 DEF Valid
<1>4. QED BY <1>1, <1>3 DEF Flags, Mode

\* A listing changes candidates and no other thing Listed and Warranted are about.
LEMMA ListingFrame ==
    ASSUME Diff \/ ListOthers \/ Expand, NEW f \in Files
    PROVE  /\ Left(f)' <=> Left(f)
           /\ Exists(f)' <=> Exists(f)
           /\ Owed(f)' <=> Owed(f)
           /\ Warranted(f)' <=> Warranted(f)
           /\ index'[f] = index[f]
BY DEF Diff, ListOthers, Expand, repo, asked, history, Left, Exists, Owed, Warranted, Staged,
   Dirty, Visible, Committed, Tree, Mode

LEMMA DiffLists ==
    ASSUME Types, Route, Diff
    PROVE  Listed' /\ (\A f \in candidates : Warranted(f))'
<1>1. pc = "diff" /\ candidates' = Changes /\ (Mode("changed") => pc' = "others")
  BY DEF Diff, Goto
<1>2. ASSUME NEW f \in Files, Exists(f), Owed(f)
      PROVE  f \in Changes \/ (Mode("changed") /\ index[f] = None)
  <2>1. work[f] # None
    BY <1>2 DEF Exists
  <2>2. CASE Mode("changed")
    BY <1>2, <2>1, <2>2 DEF Owed, Dirty, Changes, DiffIndex, DiffWork, Differs, Tree, Nothing,
       Mode
  <2>3. CASE Mode("staged")
    BY <1>2, <2>3 DEF Owed, Staged, Changes, DiffIndex, Differs, Mode
  <2>4. CASE Mode("base")
    BY <1>2, <2>4 DEF Owed, Committed, Changes, Differs, Mode
  <2>5. QED BY <1>1, <2>2, <2>3, <2>4, OneMode
<1>3. ASSUME NEW f \in Changes
      PROVE  f \in Files /\ Warranted(f)
  <2>1. CASE Mode("changed") /\ headObject = Unborn
    BY <1>3, <2>1 DEF Changes, DiffIndex, Differs, Tree, Warranted, Staged, Visible, Mode
  <2>2. CASE Mode("changed") /\ headObject # Unborn
    BY <1>3, <2>2 DEF Changes, DiffWork, Differs, Warranted, Owed, Dirty, Visible, Mode
  <2>3. CASE Mode("staged")
    BY <1>3, <2>3 DEF Changes, DiffIndex, Differs, Warranted, Owed, Staged, Mode
  <2>4. CASE Mode("base")
    BY <1>3, <2>4 DEF Changes, Differs, Warranted, Owed, Committed, Mode
  <2>5. QED BY <1>1, <2>1, <2>2, <2>3, <2>4, OneMode
<1>4. Listed'
  BY <1>1, <1>2, ListingFrame DEF Listed
<1>5. QED BY <1>1, <1>3, <1>4, ListingFrame

LEMMA OthersLists ==
    ASSUME IInv, ListOthers
    PROVE  Listed' /\ (\A f \in candidates : Warranted(f))'
<1>1. /\ pc = "others" /\ Mode("changed") /\ candidates' = candidates \cup Others
      /\ Listed /\ \A f \in candidates : f \in Files /\ Warranted(f)
  BY DEF ListOthers, IInv, Route, Types
<1>2. ASSUME NEW f \in Files, Exists(f), Owed(f), index[f] = None
      PROVE  f \in Others
  BY <1>1, <1>2 DEF Exists, Owed, Visible, Others, Mode
<1>3. ASSUME NEW f \in Others
      PROVE  f \in Files /\ Warranted(f)
  BY <1>1, <1>3 DEF Others, Warranted, Owed, Dirty, Staged, Visible, Mode
<1>4. Listed'
  BY <1>1, <1>2, ListingFrame DEF Listed
<1>5. QED BY <1>1, <1>3, <1>4, ListingFrame

LEMMA ExpandLists ==
    ASSUME Types, Route, Expand
    PROVE  Listed' /\ (\A f \in candidates : Warranted(f))'
<1> DEFINE Found == IF repository THEN Cached \cup Others ELSE {f \in Files : work[f] # None}
<1>1. /\ flags = {} /\ request.named \subseteq Files
      /\ candidates' = {f \in request.named : Exists(f)}
                          \cup ((Found \cap request.within) \ (Pruned \cup Links))
  BY SelectionAssumption DEF Expand, Route, Types
<1>2. ASSUME NEW f \in Files, Exists(f), Owed(f)
      PROVE  f \in candidates'
  <2>1. CASE f \in request.named
    BY <1>1, <1>2, <2>1
  <2>2. CASE f \in request.within \ (Pruned \cup Links) /\ (repository => Visible(f))
    BY <1>1, <1>2, <2>2 DEF Exists, Visible, Cached, Others
  <2>3. QED BY <1>1, <1>2, <2>1, <2>2 DEF Owed, Mode
<1>3. ASSUME NEW f \in candidates'
      PROVE  f \in Files /\ Warranted(f)
  <2>1. CASE f \in request.named
    BY <1>1, <2>1 DEF Warranted, Owed
  <2>2. CASE f \notin request.named
    <3>1. f \in Found /\ f \in request.within \ (Pruned \cup Links)
      BY <1>1, <1>3, <2>2
    <3>2. f \in Files /\ (repository => Visible(f))
      BY <3>1 DEF Cached, Others, Visible
    <3>3. QED BY <1>1, <3>1, <3>2 DEF Warranted, Owed
  <2>3. QED BY <2>1, <2>2
<1>4. Listed'
  BY <1>2, ListingFrame DEF Listed
<1>5. QED BY <1>3, <1>4, ListingFrame

LEMMA ResolveSelects ==
    ASSUME IInv, Resolve
    PROVE  NothingMissed' /\ NothingElse'
<1>1. /\ Listed /\ pc = "existing"
      /\ \A f \in candidates : f \in Files /\ Warranted(f)
  BY DEF Resolve, IInv, Types
<1>2. UNCHANGED <<repo, asked, headObject, baseObject, history>>
  BY DEF Resolve
<1>3. selected' = {Canonical(f) : f \in
          {f \in candidates : Exists(f) /\ (flags # {} => InBounds(f))}} \ request.excluded
  BY DEF Resolve
<1>4. \A f \in Files : /\ Left(f)' <=> Left(f)
                       /\ Exists(f)' <=> Exists(f)
                       /\ Owed(f)' <=> Owed(f)
                       /\ Warranted(f)' <=> Warranted(f)
                       /\ InBounds(f)' <=> InBounds(f)
  BY <1>2 DEF repo, asked, history, Left, Exists, Owed, Warranted, Staged, Dirty, Visible,
     Committed, Tree, Mode, InBounds
<1>5. NothingMissed'
  BY <1>1, <1>2, <1>3, <1>4 DEF NothingMissed, Listed, asked
<1>6. NothingElse'
  <2>1. SUFFICES ASSUME NEW g \in selected'
                 PROVE  \E f \in Files : Canonical(f) = g /\ Warranted(f)'
    BY DEF NothingElse, Warranted
  <2>2. PICK f \in candidates : Canonical(f) = g
    BY <1>3, <2>1
  <2>3. QED BY <1>1, <1>4, <2>2
<1>7. QED BY <1>5, <1>6

LEMMA InvocationKeeps ==
    ASSUME IInv, Invocation
    PROVE  /\ pc' \in {"others", "existing"} => Listed' /\ (\A f \in candidates : Warranted(f))'
           /\ NothingMissed' /\ NothingElse'
<1>1. CASE Diff \/ ListOthers \/ Expand
  <2>1. pc' # "done"
    BY <1>1 DEF Diff, ListOthers, Expand, Goto
  <2>2. Listed' /\ (\A f \in candidates : Warranted(f))'
    BY <1>1, DiffLists, OthersLists, ExpandLists DEF IInv
  <2>3. QED BY <2>1, <2>2 DEF NothingMissed, NothingElse
<1>2. CASE Resolve
  BY <1>2, ResolveSelects DEF Resolve, Goto
<1>3. CASE ~(Diff \/ ListOthers \/ Expand \/ Resolve)
  <2>1. pc' \notin {"others", "existing", "done"}
    BY <1>3 DEF Invocation, Validate, RefuseArguments, ResolveAuthority, NoAuthority,
       ResolvePaths, RefusePaths, Fail, Goto
  <2>2. QED BY <2>1 DEF NothingMissed, NothingElse
<1>4. QED BY <1>1, <1>2, <1>3

THEOREM Selection == Spec => []IInv
<1>1. IInv /\ [Next]_vars => IInv'
  <2> SUFFICES ASSUME IInv, [Next]_vars PROVE IInv'
    OBVIOUS
  <2>1. Types' /\ Route'
    BY StepTypes, StepRoute DEF IInv
  <2>2. /\ pc' \in {"others", "existing"} => Listed' /\ (\A f \in candidates : Warranted(f))'
        /\ NothingMissed' /\ NothingElse'
    BY <2>1, DevelopersKeep, InvocationKeeps DEF Next
  <2>3. QED BY <2>1, <2>2 DEF IInv
<1>2. QED BY InitIInv, <1>1, PTL DEF Spec

\* A file developers leave alone during the invocation is analyzed when its mode
\* asks for it, wherever HEAD goes meanwhile and whatever else they edit
\* (_resolve_scope compares everything with the commit it resolved once).
THEOREM CurrentWorkSelected == Spec => []NothingMissed
<1>1. IInv => NothingMissed
  BY DEF IInv
<1>2. QED BY Selection, <1>1, PTL

\* What is analyzed was asked for: it differs from the commit retained, or lies
\* under a path given, or a developer had a hand in it (git_files,
\* git_base_files, expand_paths, existing_files).
THEOREM NothingElseSelected == Spec => []NothingElse
<1>1. IInv => NothingElse
  BY DEF IInv
<1>2. QED BY Selection, <1>1, PTL
=============================================================================
