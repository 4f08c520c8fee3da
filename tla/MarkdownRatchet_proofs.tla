----------------------- MODULE MarkdownRatchet_proofs -----------------------
(***************************************************************************)
(* Proofs about MarkdownRatchet for any documents, policies and            *)
(* invocations: its types, that an undisturbed write leaves exactly the    *)
(* allowances analysis needs, and that no write that no other write        *)
(* overlapped raises one.                                                  *)
(***************************************************************************)
EXTENDS MarkdownRatchet, TLAPS

\* A missing baseline is not a table of allowances.
LEMMA NoBaselineIsNoTable == NoBaseline \notin Tables
BY MarkdownAssumption DEF NoBaseline, Tables

LEMMA EmptyIsTable == Empty \in Tables
BY MarkdownAssumption DEF Empty, Tables

LEMMA InitTypes == Init => TypeOK
BY MarkdownAssumption, EmptyIsTable DEF Init, TypeOK, Gone

\* Every step of the program and of the developers keeps the types.
LEMMA StepTypes ==
    ASSUME TypeOK, [Next]_vars
    PROVE  TypeOK'
<1> USE MarkdownAssumption, NoBaselineIsNoTable, EmptyIsTable
<1> USE DEF TypeOK, working, loaded, Finish, Refuse, Disturb, Overtake, Settle, Edit
<1>1. ASSUME NEW p \in Writers,
             \/ RefuseStart(p) \/ LoseCommit(p)
             \/ \E d \in Docs : Vanished(p, d) \/ Grow(p, d)
      PROVE  TypeOK'
  BY <1>1 DEF RefuseStart, LoseCommit, Vanished, Grow
<1>2. ASSUME NEW p \in Writers, NEW scope \in SUBSET Docs, Begin(p, scope)
      PROVE  TypeOK'
  BY <1>2 DEF Begin, Startable
<1>3. ASSUME NEW p \in Writers, NEW d \in Docs,
             Adopt(p, d) \/ Drop(p, d) \/ Lower(p, d)
      PROVE  TypeOK'
  <2>1. PICK n \in 0..MaxLines : Settle(p, d, n)
    BY <1>3 DEF Adopt, Drop, Lower, Unmeasured, Gone
  <2>2. proposed' \in [Writers -> Tables]
    BY <2>1 DEF Tables
  <2>3. QED BY <2>1, <2>2
<1>4. ASSUME NEW p \in Writers, Commit(p)
      PROVE  TypeOK'
  BY <1>4 DEF Commit
<1>5. CASE Developer
  <2>1. Edit
    BY <1>5 DEF Developer, EditDocument, EditPolicy, DeleteBaseline
  <2>2. /\ lines' \in [Docs -> Gone..MaxLines] /\ config' \in Policies
        /\ baseline' \in Tables \cup {NoBaseline}
    BY <1>5 DEF Developer, EditDocument, EditPolicy, DeleteBaseline
  <2>3. edits' \in 0..MaxEdits
    BY <2>1
  <2>4. quiet' \in [Writers -> BOOLEAN]
    BY <2>1
  <2>5. QED BY <2>1, <2>2, <2>3, <2>4
<1>6. CASE UNCHANGED vars
  BY <1>6 DEF vars
<1>7. QED
  BY <1>1, <1>2, <1>3, <1>4, <1>5, <1>6 DEF Next, Invocation

\* Types are kept, for any documents, policies and invocations.
THEOREM TypeCorrect == Spec => []TypeOK
BY InitTypes, StepTypes, PTL DEF Spec

---------------------------------------------------------------------------
(* Writes that nothing disturbed                                           *)

\* The allowance the table has for d is the one analysis needs now.
Fits(p, d, table) ==
    /\ table[d] # 0 => table[d] = lines[d] /\ lines[d] > config.reviewAt
    /\ p \in Creators /\ d \notin config.excluded /\ lines[d] > config.reviewAt
          => table[d] = lines[d]

\* An undisturbed writer judges by the present policy and sizes.
UpToDate(p) ==
    /\ pc[p] = "measure" =>
          /\ policy[p] = config
          /\ todo[p] \subseteq bounds[p]
          /\ \A d \in bounds[p] \ todo[p] : Fits(p, d, proposed[p])
    /\ pc[p] = "done" =>
          \A d \in bounds[p] \cap DOMAIN baseline : Fits(p, d, baseline)

Quiet == \A p \in Writers : quiet[p] => UpToDate(p)

LEMMA InitQuiet == Init => Quiet
BY DEF Init, Quiet, UpToDate

\* Nobody else's steps keep a writer quiet unless they change nothing it uses.
LEMMA QuietKept ==
    ASSUME TypeOK, Quiet, NEW p \in Writers,
           quiet'[p] => /\ quiet[p] /\ (pc[p] # "start" => UNCHANGED <<lines, config, baseline>>)
                        /\ pc'[p] = pc[p] /\ policy'[p] = policy[p]
                        /\ bounds'[p] = bounds[p] /\ todo'[p] = todo[p]
                        /\ proposed'[p] = proposed[p]
    PROVE  quiet'[p] => UpToDate(p)'
BY DEF Quiet, UpToDate, Fits

LEMMA RefuseQuiet ==
    ASSUME TypeOK, Quiet, NEW q \in Writers, Refuse(q)
    PROVE  Quiet'
<1> SUFFICES ASSUME NEW p \in Writers PROVE quiet'[p] => UpToDate(p)'
  BY DEF Quiet
<1>1. CASE p = q
  BY <1>1 DEF Refuse, Finish, TypeOK, UpToDate
<1>2. CASE p # q
  BY <1>2, QuietKept DEF Refuse, Finish, TypeOK, working, loaded
<1>3. QED BY <1>1, <1>2

LEMMA BeginQuiet ==
    ASSUME TypeOK, Quiet, NEW q \in Writers, NEW scope \in SUBSET Docs, Begin(q, scope)
    PROVE  Quiet'
<1> SUFFICES ASSUME NEW p \in Writers PROVE quiet'[p] => UpToDate(p)'
  BY DEF Quiet
<1>1. CASE p = q
  <2>1. /\ pc'[p] = "measure" /\ policy'[p] = config /\ config' = config
        /\ bounds'[p] = scope /\ lines' = lines
    BY <1>1 DEF Begin, Finish, TypeOK, working
  <2>2. CASE p \in Creators
    <3>1. /\ proposed'[p] = Empty
          /\ todo'[p] = {d \in scope \ config.excluded : lines[d] # Gone}
      BY <1>1, <2>2 DEF Begin, TypeOK
    <3>2. ASSUME NEW d \in scope \ todo'[p] PROVE Fits(p, d, proposed[p])'
      BY <2>1, <3>1, <3>2, MarkdownAssumption DEF Fits, Empty, Gone, TypeOK
    <3>3. QED BY <2>1, <3>1, <3>2 DEF UpToDate
  <2>3. CASE p \notin Creators
    <3>1. /\ proposed'[p] = baseline
          /\ todo'[p] = {d \in scope : baseline[d] # 0}
      BY <1>1, <2>3 DEF Begin, TypeOK
    <3>2. ASSUME NEW d \in scope \ todo'[p] PROVE Fits(p, d, proposed[p])'
      BY <2>1, <2>3, <3>1 DEF Fits
    <3>3. QED BY <2>1, <3>1, <3>2 DEF UpToDate
  <2>4. QED BY <2>2, <2>3
<1>2. CASE p # q
  BY <1>2, QuietKept DEF Begin, Finish, TypeOK, working
<1>3. QED BY <1>1, <1>2

\* A settled document fits, since policy and sizes are the present ones.
LEMMA SettleQuiet ==
    ASSUME TypeOK, Quiet, NEW q \in Writers, NEW e \in Docs,
           Adopt(q, e) \/ Drop(q, e) \/ Lower(q, e)
    PROVE  Quiet'
<1> SUFFICES ASSUME NEW p \in Writers PROVE quiet'[p] => UpToDate(p)'
  BY DEF Quiet
<1>0. PICK n : Settle(q, e, n)
  BY DEF Adopt, Drop, Lower
<1>1. CASE p = q
  <2>1. /\ pc' = pc /\ policy' = policy /\ bounds' = bounds /\ quiet' = quiet
        /\ UNCHANGED <<lines, config, baseline>> /\ pc[p] = "measure"
    BY <1>0, <1>1 DEF Settle, working, loaded, Adopt, Drop, Lower, Visiting
  <2>2. /\ todo'[p] = todo[p] \ {e}
        /\ \A d \in Docs \ {e} : proposed'[p][d] = proposed[p][d]
    BY <1>0, <1>1 DEF Settle, TypeOK, Tables
  <2>3. ASSUME quiet[p] PROVE UpToDate(p)'
    <3>1. /\ policy[p] = config /\ todo[p] \subseteq bounds[p]
          /\ \A d \in bounds[p] \ todo[p] : Fits(p, d, proposed[p])
      BY <2>1, <2>3 DEF Quiet, UpToDate
    <3>2. Fits(p, e, proposed[p])'
      <4>1. \A m : Settle(q, e, m) => proposed'[p][e] = m
        BY <1>1 DEF Settle, TypeOK, Tables
      <4>2. config \in Policies /\ lines[e] \in Gone..MaxLines /\ config.reviewAt \in Nat
        BY MarkdownAssumption DEF TypeOK
      <4>3. CASE Adopt(q, e)
        BY <1>1, <2>1, <3>1, <4>1, <4>2, <4>3 DEF Adopt, Needed, Fits
      <4>4. CASE Drop(q, e)
        BY <1>1, <2>1, <3>1, <4>1, <4>2, <4>4, MarkdownAssumption
           DEF Drop, Unmeasured, Fits, Gone
      <4>5. CASE Lower(q, e)
        BY <1>1, <2>1, <3>1, <4>1, <4>2, <4>5, MarkdownAssumption
           DEF Lower, Needed, Fits
      <4>6. QED BY <4>3, <4>4, <4>5
    <3>3. bounds[p] \subseteq Docs
      BY DEF TypeOK
    <3>4. ASSUME NEW d \in bounds[p] \ (todo[p] \ {e}) PROVE Fits(p, d, proposed[p])'
      <4>1. CASE d = e
        BY <3>2, <4>1
      <4>2. CASE d # e
        BY <2>1, <2>2, <3>1, <3>3, <4>2 DEF Fits
      <4>3. QED BY <4>1, <4>2
    <3>5. QED BY <2>1, <2>2, <3>1, <3>4 DEF UpToDate
  <2>4. QED BY <2>1, <2>3
<1>2. CASE p # q
  BY <1>0, <1>2, QuietKept DEF Settle, TypeOK, working, loaded
<1>3. QED BY <1>1, <1>2

LEMMA CommitQuiet ==
    ASSUME TypeOK, Quiet, NEW q \in Writers, Commit(q)
    PROVE  Quiet'
<1> SUFFICES ASSUME NEW p \in Writers PROVE quiet'[p] => UpToDate(p)'
  BY DEF Quiet
<1>1. CASE p = q
  <2>1. /\ pc[p] = "measure" /\ pc'[p] = "done" /\ todo[p] = {} /\ bounds' = bounds
        /\ baseline' = proposed[p] /\ UNCHANGED <<lines, config>>
    BY <1>1 DEF Commit, Finish, TypeOK, working, loaded
  <2>2. quiet'[p] => quiet[p]
    BY <1>1 DEF Commit, Overtake, Disturb, TypeOK
  <2>3. QED BY <2>1, <2>2 DEF Quiet, UpToDate, Fits
<1>2. CASE p # q
  <2>1. quiet'[p] => quiet[p] /\ (pc[p] # "start" => baseline' = baseline)
    BY <1>2 DEF Commit, Overtake, Disturb, Begun, TypeOK
  <2>2. QED BY <1>2, <2>1, QuietKept DEF Commit, Finish, TypeOK, working, loaded
<1>3. QED BY <1>1, <1>2

\* Whatever developers change disturbs every invocation that has begun.
LEMMA DeveloperQuiet ==
    ASSUME TypeOK, Quiet, Developer
    PROVE  Quiet'
<1> SUFFICES ASSUME NEW p \in Writers PROVE quiet'[p] => UpToDate(p)'
  BY DEF Quiet
<1>1. Edit
  BY DEF Developer, EditDocument, EditPolicy, DeleteBaseline
<1>2. UNCHANGED <<pc, policy, bounds, todo, proposed>>
  BY <1>1 DEF Edit, loaded
<1>3. quiet'[p] => quiet[p] /\ pc[p] = "start"
  BY <1>1 DEF Edit, Disturb, Begun, TypeOK
<1>4. QED BY <1>2, <1>3, QuietKept

LEMMA StepQuiet ==
    ASSUME TypeOK, Quiet, [Next]_vars
    PROVE  Quiet'
<1>1. CASE UNCHANGED vars
  <2>1. ASSUME NEW p \in Writers PROVE quiet'[p] => UpToDate(p)'
    BY <1>1, QuietKept DEF vars, working, loaded
  <2>2. QED BY <2>1 DEF Quiet
<1>2. CASE Developer
  BY <1>2, DeveloperQuiet
<1>3. ASSUME NEW p \in Writers, Invocation(p) PROVE Quiet'
  <2>1. \/ Refuse(p)
        \/ \E scope \in SUBSET Docs : Begin(p, scope)
        \/ \E d \in Docs : Adopt(p, d) \/ Drop(p, d) \/ Lower(p, d)
        \/ Commit(p)
    BY <1>3 DEF Invocation, RefuseStart, Vanished, Grow, LoseCommit
  <2>2. QED BY <2>1, RefuseQuiet, BeginQuiet, SettleQuiet, CommitQuiet
<1> HIDE DEF TypeOK, Quiet
<1>4. QED BY <1>1, <1>2, <1>3 DEF Next

LEMMA QuietInvariance == Spec => [](TypeOK /\ Quiet)
BY InitQuiet, StepQuiet, TypeCorrect, PTL DEF Spec

LEMMA FittingVerdict ==
    ASSUME TypeOK, NEW p \in Writers, NEW d \in Docs, Fits(p, d, baseline)
    PROVE  /\ baseline[d] # 0 => baseline[d] = lines[d] /\ Now(d).ratchetStatus = "within"
           /\ p \in Creators /\ d \notin config.excluded => Now(d).state = "pass"
<1>1. lines[d] \in Int /\ config.reviewAt \in Nat
  BY MarkdownAssumption DEF TypeOK, Gone
<1>2. QED BY <1>1 DEF Fits, Now, JudgeDocument, Verdict

\* A write that nothing disturbed leaves in its bounds exactly the allowances
\* that analysis needs at the present sizes, and after an adoption no document
\* of the scope is under review (create, update).
THEOREM AllowancesNeeded == Spec => []AllowancesFit
<1>1. TypeOK /\ Quiet => AllowancesFit
  BY FittingVerdict DEF AllowancesFit, Quiet, UpToDate, TypeOK
<1>2. QED BY <1>1, QuietInvariance, PTL

---------------------------------------------------------------------------
(* Writes that no other write overlapped                                   *)

\* What an intact writer holds is what is stored, lowered.
Working(p) ==
    /\ p \in Updaters => /\ baseline \in {entries[p], NoBaseline}
                         /\ \A d \in Docs : proposed[p][d] <= entries[p][d]

Intact == \A p \in Writers : pc[p] = "measure" /\ intact[p] => Working(p)

LEMMA InitIntact == Init => Intact
BY DEF Init, Intact

LEMMA StepIntact ==
    ASSUME TypeOK, Intact, [Next]_vars
    PROVE  Intact'
<1> USE MarkdownAssumption, NoBaselineIsNoTable
<1> USE DEF TypeOK, Intact, Working, Tables, Writers, working, loaded,
            Finish, Refuse, Disturb, Overtake, Begun, Settle, Edit, Gone
<1>1. ASSUME NEW p \in Writers,
             \/ RefuseStart(p) \/ LoseCommit(p)
             \/ \E d \in Docs : Vanished(p, d) \/ Grow(p, d)
      PROVE  Intact'
  BY <1>1 DEF RefuseStart, LoseCommit, Vanished, Grow
<1>2. ASSUME NEW p \in Writers, NEW scope \in SUBSET Docs, Begin(p, scope)
      PROVE  Intact'
  BY <1>2 DEF Begin, Startable
<1>3. ASSUME NEW p \in Writers, NEW d \in Docs, Adopt(p, d) \/ Drop(p, d) \/ Lower(p, d)
      PROVE  Intact'
  BY <1>3 DEF Adopt, Drop, Lower, Unmeasured
<1>4. ASSUME NEW p \in Writers, Commit(p)
      PROVE  Intact'
  BY <1>4 DEF Commit
<1>5. CASE Developer
  BY <1>5 DEF Developer, EditDocument, EditPolicy, DeleteBaseline
<1>6. CASE UNCHANGED vars
  BY <1>6 DEF vars
<1>7. QED
  BY <1>1, <1>2, <1>3, <1>4, <1>5, <1>6 DEF Next, Invocation

LEMMA IntactInvariance == Spec => [](TypeOK /\ Intact)
BY InitIntact, StepIntact, TypeCorrect, PTL DEF Spec

\* A write that no other write overlapped raises no allowance, whatever
\* developers do meanwhile (update).
THEOREM AllowancesNeverRise == Spec => NeverRaised
<1>1. ASSUME TypeOK, Intact, [Next]_vars, NEW p \in Writers, Rewrites(p), NEW d \in Docs
      PROVE  baseline'[d] <= baseline[d]
  <2>1. baseline \in Tables /\ baseline[d] \in Int
    BY <1>1, MarkdownAssumption DEF TypeOK, Rewrites, Stored, Tables
  <2>2. CASE baseline' = baseline
    BY <2>1, <2>2
  <2>3. CASE baseline' # baseline
    <3>1. Commit(p) /\ p \in Updaters
      <4>1. PICK q \in Writers : Commit(q)
        BY <1>1, <2>3 DEF Rewrites, Next, Invocation, RefuseStart, Begin, Adopt, Vanished,
           Drop, Lower, Grow, LoseCommit, Refuse, Settle, Developer, EditDocument,
           EditPolicy, DeleteBaseline, Edit, Stored, working, vars
      <4>2. q = p
        BY <1>1, <4>1 DEF Commit, Finish, Rewrites, TypeOK
      <4>3. QED BY <1>1, <4>1, <4>2 DEF Commit, Writable, Rewrites, Stored, Writers
    <3>2. QED BY <1>1, <2>1, <3>1, NoBaselineIsNoTable
             DEF Commit, Intact, Working, Rewrites, Stored
  <2>4. QED BY <2>2, <2>3
<1>2. TypeOK /\ Intact /\ [Next]_vars
        => [\A p \in Writers : Rewrites(p) =>
              \A d \in Docs : baseline'[d] <= baseline[d]]_vars
  BY <1>1
<1>3. QED BY <1>2, IntactInvariance, PTL DEF Spec, NeverRaised
=============================================================================
