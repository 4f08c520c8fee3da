------------------------- MODULE LocRatchet_proofs -------------------------
(***************************************************************************)
(* Proofs about LocRatchet for any files, policies and invocations: its    *)
(* types, that no allowance is invented, that no write that no other write *)
(* overlapped raises an allowance, whatever developers edit, and that one  *)
(* that nothing disturbed leaves exactly what analysis needs.              *)
(***************************************************************************)
EXTENDS LocRatchet, TLAPS

\* An allowance about to be stored was measured, or stored, before.
Evidence ==
    /\ \A f \in Files : size[f] \in seen[f]
    /\ \A p \in Writers, f \in Files :
          proposed[p][f] # 0 => proposed[p][f] \in seen[f]

IInv == TypeOK /\ AllowanceMeasured /\ Evidence

\* A missing baseline is not a table of allowances.
LEMMA NoBaselineIsNoTable == NoBaseline \notin Tables
BY RatchetAssumption DEF NoBaseline, Tables

\* The invariant holds initially.
LEMMA InitIInv == Init => IInv
BY RatchetAssumption
   DEF Init, IInv, TypeOK, AllowanceMeasured, Evidence, Stored, Tables, NoBaseline,
       Gone, Writers

\* Every step of the program and of the developers preserves the invariant.
LEMMA StepIInv ==
    ASSUME IInv, [Next]_vars
    PROVE  IInv'
<1> USE RatchetAssumption, NoBaselineIsNoTable
<1> USE DEF IInv, TypeOK, AllowanceMeasured, Evidence, Stored, Tables, Writers,
            working, local, Finish, Disturb, Overtake, Begun, Start, Edit, Gone
<1>1. ASSUME NEW p \in Writers,
             \/ RefuseCreate(p) \/ LoseCreate(p) \/ RefuseUpdate(p)
             \/ CommitUnchanged(p) \/ LoseUpdate(p)
             \/ \E f \in Files : AbortCreate(p, f) \/ AbortUpdate(p, f)
      PROVE  IInv'
  BY <1>1 DEF RefuseCreate, LoseCreate, RefuseUpdate, CommitUnchanged, LoseUpdate,
              AbortCreate, AbortUpdate
<1>2. ASSUME NEW p \in Creators, NEW scope \in SUBSET Files, BeginCreate(p, scope)
      PROVE  IInv'
  BY <1>2 DEF BeginCreate
<1>3. ASSUME NEW p \in Creators, NEW f \in Files, MeasureNew(p, f)
      PROVE  IInv'
  BY <1>3 DEF MeasureNew
<1>4. ASSUME NEW p \in Creators, CommitCreate(p)
      PROVE  IInv'
  BY <1>4 DEF CommitCreate
<1>5. ASSUME NEW p \in Updaters, NEW scope \in SUBSET Files, BeginUpdate(p, scope)
      PROVE  IInv'
  BY <1>5 DEF BeginUpdate, Updatable
<1>6. ASSUME NEW p \in Updaters, NEW f \in Files, MeasureEntry(p, f)
      PROVE  IInv'
  BY <1>6 DEF MeasureEntry, Unmeasured
<1>7. ASSUME NEW p \in Updaters, CommitUpdate(p)
      PROVE  IInv'
  BY <1>7 DEF CommitUpdate
<1>8. ASSUME NEW f \in Files, NEW n \in Gone..MaxLoc, EditFile(f, n)
      PROVE  IInv'
  BY <1>8 DEF EditFile
<1>9. ASSUME NEW c \in Configs, EditPolicy(c)
      PROVE  IInv'
  BY <1>9 DEF EditPolicy
<1>10. CASE DeleteBaseline
  BY <1>10 DEF DeleteBaseline
<1>11. CASE UNCHANGED vars
  BY <1>11 DEF vars
<1>12. QED
  BY <1>1, <1>2, <1>3, <1>4, <1>5, <1>6, <1>7, <1>8, <1>9, <1>10, <1>11
     DEF Next, Create, Update, Developer

\* The inductive invariant: types, and what an intact writer works from.
THEOREM Invariance == Spec => []IInv
BY InitIInv, StepIInv, PTL DEF Spec

\* Types are kept, for any files, policies and invocations.
THEOREM TypeCorrect == Spec => []TypeOK
<1>1. IInv => TypeOK BY DEF IInv
<1>2. QED BY <1>1, Invariance, PTL

\* Every stored allowance is a size the file really had, also when writers and
\* developers overlap.
THEOREM NoInventedAllowance == Spec => []AllowanceMeasured
<1>1. IInv => AllowanceMeasured BY DEF IInv
<1>2. QED BY <1>1, Invariance, PTL

---------------------------------------------------------------------------
(* Writes that no other write overlapped.                                  *)

\* What an intact update holds is still what is stored, and only sinks.
Working(p) ==
    /\ baseline \in {entries[p], NoBaseline}
    /\ todo[p] \subseteq bounds[p]
    /\ \A f \in Files : proposed[p][f] <= entries[p][f]
    /\ \A f \in Files \ bounds[p] : proposed[p][f] = entries[p][f]

Intact == \A p \in Updaters : pc[p] = "measure" /\ intact[p] => Working(p)

\* No update has begun.
LEMMA InitIntact == Init => Intact
BY DEF Init, Intact, Writers

\* Only another write separates an update from what it loaded.
LEMMA StepIntact ==
    ASSUME TypeOK, Intact, [Next]_vars
    PROVE  Intact'
<1> USE RatchetAssumption, NoBaselineIsNoTable
<1> USE DEF TypeOK, Intact, Working, Tables, Writers, working, local,
            Finish, Disturb, Overtake, Begun, Start, Edit, Gone
<1>1. ASSUME NEW p \in Writers,
             \/ RefuseCreate(p) \/ LoseCreate(p) \/ RefuseUpdate(p)
             \/ CommitUnchanged(p) \/ LoseUpdate(p)
             \/ \E f \in Files : AbortCreate(p, f) \/ AbortUpdate(p, f)
      PROVE  Intact'
  BY <1>1 DEF RefuseCreate, LoseCreate, RefuseUpdate, CommitUnchanged, LoseUpdate,
              AbortCreate, AbortUpdate
<1>2. ASSUME NEW p \in Creators, NEW scope \in SUBSET Files, BeginCreate(p, scope)
      PROVE  Intact'
  BY <1>2 DEF BeginCreate
<1>3. ASSUME NEW p \in Creators, NEW f \in Files, MeasureNew(p, f)
      PROVE  Intact'
  BY <1>3 DEF MeasureNew
<1>4. ASSUME NEW p \in Creators, CommitCreate(p)
      PROVE  Intact'
  BY <1>4 DEF CommitCreate
<1>5. ASSUME NEW p \in Updaters, NEW scope \in SUBSET Files, BeginUpdate(p, scope)
      PROVE  Intact'
  BY <1>5 DEF BeginUpdate, Updatable
<1>6. ASSUME NEW p \in Updaters, NEW f \in Files, MeasureEntry(p, f)
      PROVE  Intact'
  BY <1>6 DEF MeasureEntry, Unmeasured
<1>7. ASSUME NEW p \in Updaters, CommitUpdate(p)
      PROVE  Intact'
  BY <1>7 DEF CommitUpdate
<1>8. CASE Developer
  BY <1>8 DEF Developer, EditFile, EditPolicy, DeleteBaseline
<1>9. CASE UNCHANGED vars
  BY <1>9 DEF vars
<1>10. QED
  BY <1>1, <1>2, <1>3, <1>4, <1>5, <1>6, <1>7, <1>8, <1>9
     DEF Next, Create, Update

\* The inductive invariant of intact writes.
LEMMA IntactInvariance == Spec => [](TypeOK /\ Intact)
BY InitIntact, StepIntact, TypeCorrect, PTL DEF Spec

\* Over a stored table an intact step writes what it holds, or nothing.
LEMMA RewritesMove ==
    ASSUME TypeOK, Intact, [Next]_vars, NEW p \in Writers, Rewrites(p)
    PROVE  \/ UNCHANGED <<baseline, config>>
           \/ /\ p \in Updaters /\ config' = config
              /\ baseline = entries[p] /\ baseline' = proposed[p] /\ Working(p)
<1> USE DEF working, local, Finish, Edit, Stored, Rewrites, TypeOK, Writers
<1>1. ASSUME NEW q \in Creators, Create(q)
      PROVE  UNCHANGED <<baseline, config>>
  BY <1>1 DEF Create, RefuseCreate, BeginCreate, MeasureNew, AbortCreate,
              CommitCreate, LoseCreate
<1>2. ASSUME NEW q \in Updaters, Update(q), ~CommitUpdate(q)
      PROVE  UNCHANGED <<baseline, config>>
  BY <1>2 DEF Update, RefuseUpdate, BeginUpdate, MeasureEntry, AbortUpdate,
              CommitUnchanged, LoseUpdate
<1>3. ASSUME NEW q \in Updaters, CommitUpdate(q)
      PROVE  /\ p = q /\ config' = config
             /\ baseline = entries[p] /\ baseline' = proposed[p] /\ Working(p)
  BY <1>3 DEF CommitUpdate, Intact, Working
<1>4. CASE Developer
  BY <1>4 DEF Developer, EditFile, EditPolicy, DeleteBaseline
<1>5. CASE UNCHANGED vars
  BY <1>5 DEF vars
<1>6. QED BY <1>1, <1>2, <1>3, <1>4, <1>5 DEF Next

\* A write that no other write overlapped only tightens the ratchet.
THEOREM RatchetNeverRises == Spec => NeverRaised
<1>1. ASSUME TypeOK, Intact, [Next]_vars, NEW p \in Writers, Rewrites(p), NEW f \in Files
      PROVE  baseline'[f] <= baseline[f]
  <2>1. baseline \in Tables
    BY <1>1 DEF TypeOK, Rewrites, Stored
  <2>2. baseline[f] \in Int
    BY <2>1, RatchetAssumption DEF Tables
  <2>3. QED BY <1>1, <2>2, RewritesMove DEF Working
<1>2. TypeOK /\ Intact /\ [Next]_vars
        => [\A p \in Writers : Rewrites(p) =>
              \A f \in Files : baseline'[f] <= baseline[f]]_vars
  BY <1>1
<1>3. QED BY <1>2, IntactInvariance, PTL DEF Spec, NeverRaised

\* ... and leaves the entries outside its scope as they were.
THEOREM UpdatesStayInScope == Spec => UpdateKeepsOutside
<1>1. ASSUME TypeOK, Intact, [Next]_vars, NEW p \in Updaters, Rewrites(p),
             NEW f \in Files \ bounds[p]
      PROVE  baseline'[f] = baseline[f]
  BY <1>1, RewritesMove DEF Working, Writers
<1>2. TypeOK /\ Intact /\ [Next]_vars
        => [\A p \in Updaters : Rewrites(p) =>
              \A f \in Files \ bounds[p] : baseline'[f] = baseline[f]]_vars
  BY <1>1
<1>3. QED BY <1>2, IntactInvariance, PTL DEF Spec, UpdateKeepsOutside

\* A lower allowance, or none, does not acquit a size above failAt.
LEMMA LowerAllowanceAcquitsNothing ==
    ASSUME NEW f, NEW n \in Nat, NEW c, NEW high \in Nat, NEW low \in Nat,
           low <= high,
           n > EffectiveThresholds(f, c).failAt,
           Evaluate(f, n, c, high).state = "fail"
    PROVE  Evaluate(f, n, c, low).state = "fail"
BY DEF Evaluate, Finding

\* A write that no other write overlapped acquits no size above failAt that
\* analysis refused before.
THEOREM RefusalsStand == Spec => RefusalIsFinal
<1> DEFINE Stands(f, n) ==
        n > EffectiveThresholds(f, config).failAt
        /\ Evaluate(f, n, config, baseline[f]).state = "fail"
           => Evaluate(f, n, config, baseline'[f]).state = "fail"
<1>1. ASSUME TypeOK, Intact, [Next]_vars, NEW p \in Writers, Rewrites(p),
             NEW f \in Files, NEW n \in 0..MaxLoc
      PROVE  Stands(f, n)
  <2>1. CASE UNCHANGED baseline
    BY <2>1
  <2>2. CASE /\ p \in Updaters
             /\ baseline = entries[p] /\ baseline' = proposed[p] /\ Working(p)
    <3>1. baseline[f] \in Nat /\ baseline'[f] \in Nat /\ baseline'[f] <= baseline[f]
      BY <1>1, <2>2, RatchetAssumption DEF TypeOK, Tables, Working
    <3>2. n \in Nat
      BY RatchetAssumption
    <3>3. QED BY <3>1, <3>2, LowerAllowanceAcquitsNothing
  <2>3. QED BY <1>1, <2>1, <2>2, RewritesMove
<1>2. TypeOK /\ Intact /\ [Next]_vars
        => [\A p \in Writers : Rewrites(p) =>
              \A f \in Files, n \in 0..MaxLoc :
                 /\ n > EffectiveThresholds(f, config).failAt
                 /\ Evaluate(f, n, config, baseline[f]).state = "fail"
                 => Evaluate(f, n, config, baseline'[f]).state = "fail"]_vars
  BY <1>1
<1>3. QED BY <1>2, IntactInvariance, PTL DEF Spec, RefusalIsFinal

---------------------------------------------------------------------------
(* Writes that nothing disturbed.                                          *)

LEMMA ThresholdsOrdered ==
    ASSUME NEW c \in Configs, NEW f \in Files
    PROVE  /\ EffectiveThresholds(f, c).warnAt \in Nat
           /\ EffectiveThresholds(f, c).failAt \in Nat
           /\ EffectiveThresholds(f, c).warnAt < EffectiveThresholds(f, c).failAt
           /\ Threshold(f, c) \in Nat
BY RatchetAssumption DEF LocPolicy, Threshold

\* The allowance the table has for f is the one analysis needs now.
Fits(p, f, table) ==
    /\ table[f] # 0 => /\ table[f] = size[f]
                       /\ f \notin config.excluded \cup config.allowedLarge
                       /\ size[f] > Threshold(f, config)
    /\ p \in Creators /\ Legacy(f, config) => table[f] = size[f]

Exempted(table) == \A f \in config.allowedLarge : table[f] = 0

\* An undisturbed writer judges by the present policy and sizes.
UpToDate(p) ==
    /\ pc[p] = "start" /\ p \in Creators => \A f \in Files : proposed[p][f] = 0
    /\ pc[p] = "measure" =>
          /\ policy[p] = config
          /\ todo[p] \subseteq bounds[p]
          /\ p \in Updaters => todo[p] \cap config.allowedLarge = {}
          /\ \A f \in bounds[p] \ todo[p] : Fits(p, f, proposed[p])
          /\ Exempted(proposed[p])
    /\ pc[p] = "done" =>
          /\ \A f \in bounds[p] : Fits(p, f, baseline)
          /\ Exempted(baseline)

Quiet == \A p \in Writers : quiet[p] => UpToDate(p)

LEMMA InitQuiet == Init => Quiet
BY DEF Init, Quiet, UpToDate, Writers

\* Steps of others that leave a writer quiet change nothing it uses.
LEMMA QuietKept ==
    ASSUME Quiet, NEW p \in Writers,
           quiet'[p] => /\ quiet[p]
                        /\ pc[p] # "start" => UNCHANGED <<size, config, baseline>>
                        /\ pc'[p] = pc[p] /\ policy'[p] = policy[p]
                        /\ bounds'[p] = bounds[p] /\ todo'[p] = todo[p]
                        /\ proposed'[p] = proposed[p]
    PROVE  quiet'[p] => UpToDate(p)'
BY DEF Quiet, UpToDate, Fits, Exempted, Legacy

LEMMA FailQuiet ==
    ASSUME TypeOK, Quiet, NEW q \in Writers, Finish(q, "failed"),
           UNCHANGED <<working, baseline, local, quiet>>
    PROVE  Quiet'
<1>1. ASSUME NEW p \in Writers PROVE quiet'[p] => UpToDate(p)'
  <2>1. CASE p = q
    BY <2>1 DEF Finish, TypeOK, UpToDate
  <2>2. CASE p # q
    BY <2>2, QuietKept DEF Finish, TypeOK, working, local
  <2>3. QED BY <2>1, <2>2
<1>2. QED BY <1>1 DEF Quiet

LEMMA BeginQuiet ==
    ASSUME TypeOK, Quiet, NEW q \in Writers, NEW scope \in SUBSET Files,
           \/ q \in Creators /\ BeginCreate(q, scope)
           \/ q \in Updaters /\ BeginUpdate(q, scope)
    PROVE  Quiet'
<1> SUFFICES ASSUME NEW p \in Writers PROVE quiet'[p] => UpToDate(p)'
  BY DEF Quiet
<1>1. CASE p = q
  <2>1. /\ pc[p] = "start" /\ pc'[p] = "measure"
        /\ policy'[p] = config /\ bounds'[p] = scope
        /\ UNCHANGED <<size, config, quiet>>
    BY <1>1 DEF BeginCreate, BeginUpdate, Start, Finish, TypeOK, working
  <2>2. config \in Configs /\ config.allowedLarge \subseteq Files
    BY RatchetAssumption DEF TypeOK, LocPolicy
  <2>3. CASE q \in Creators /\ BeginCreate(q, scope)
    <3>1. /\ proposed' = proposed
          /\ todo'[p] = {f \in scope : size[f] # Gone}
          /\ p \in Creators /\ p \notin Updaters
      BY <1>1, <2>3, RatchetAssumption DEF BeginCreate, TypeOK
    <3>2. quiet[p] => \A f \in Files : proposed[p][f] = 0
      BY <2>1, <3>1 DEF Quiet, UpToDate
    <3>3. ASSUME quiet[p], NEW f \in scope \ todo'[p] PROVE Fits(p, f, proposed[p])'
      <4>1. f \in Files /\ ~(Gone > Threshold(f, config)) /\ size[f] = Gone
        BY <2>2, <3>1, <3>3, ThresholdsOrdered DEF Gone
      <4>2. QED BY <2>1, <3>1, <3>2, <3>3, <4>1 DEF Fits, Legacy
    <3>4. QED BY <2>1, <2>2, <3>1, <3>2, <3>3 DEF UpToDate, Exempted
  <2>4. CASE q \in Updaters /\ BeginUpdate(q, scope)
    <3>1. /\ proposed'[p] = baseline
          /\ todo'[p] = {f \in scope : baseline[f] # 0}
          /\ \A f \in config.allowedLarge : baseline[f] = 0
          /\ p \in Updaters /\ p \notin Creators
      BY <1>1, <2>4, RatchetAssumption DEF BeginUpdate, Updatable, TypeOK
    <3>2. ASSUME NEW f \in scope \ todo'[p] PROVE Fits(p, f, proposed[p])'
      BY <2>1, <3>1 DEF Fits
    <3>3. QED BY <2>1, <3>1, <3>2 DEF UpToDate, Exempted
  <2>5. QED BY <2>3, <2>4
<1>2. CASE p # q
  BY <1>2, QuietKept DEF BeginCreate, BeginUpdate, Finish, TypeOK, working
<1>3. QED BY <1>1, <1>2

\* A measured file fits, since policy and sizes are the present ones.
LEMMA MeasureQuiet ==
    ASSUME TypeOK, Quiet, NEW q \in Writers, NEW e \in Files,
           \/ q \in Creators /\ MeasureNew(q, e)
           \/ q \in Updaters /\ MeasureEntry(q, e)
    PROVE  Quiet'
<1> SUFFICES ASSUME NEW p \in Writers PROVE quiet'[p] => UpToDate(p)'
  BY DEF Quiet
<1>1. CASE p = q
  <2>1. /\ pc' = pc /\ policy' = policy /\ bounds' = bounds /\ quiet' = quiet
        /\ UNCHANGED <<size, config, baseline>>
        /\ pc[p] = "measure" /\ e \in todo[p]
        /\ todo'[p] = todo[p] \ {e}
        /\ \A f \in Files \ {e} : proposed'[p][f] = proposed[p][f]
    BY <1>1 DEF MeasureNew, MeasureEntry, working, TypeOK, Tables
  <2>2. SUFFICES ASSUME quiet[p] PROVE UpToDate(p)'
    BY <2>1
  <2>3. /\ policy[p] = config /\ todo[p] \subseteq bounds[p]
        /\ p \in Updaters => todo[p] \cap config.allowedLarge = {}
        /\ \A f \in bounds[p] \ todo[p] : Fits(p, f, proposed[p])
        /\ Exempted(proposed[p])
    BY <2>1, <2>2 DEF Quiet, UpToDate
  <2>4. /\ config \in Configs /\ config.allowedLarge \subseteq Files
        /\ bounds[p] \subseteq Files /\ size[e] \in Int /\ Threshold(e, config) \in Int
    BY RatchetAssumption, ThresholdsOrdered DEF TypeOK, LocPolicy, Gone
  <2>5. \/ /\ p \in Creators
           /\ proposed'[p][e] = IF Legacy(e, config) THEN size[e] ELSE 0
        \/ /\ p \in Updaters /\ p \notin Creators
           /\ proposed'[p][e] = IF Unmeasured(e, config) \/ size[e] <= Threshold(e, config)
                                THEN 0 ELSE size[e]
    BY <1>1, <2>3, RatchetAssumption DEF MeasureNew, MeasureEntry, TypeOK, Tables
  <2>6. Fits(p, e, proposed[p])'
    BY <2>1, <2>3, <2>4, <2>5 DEF Fits, Legacy, Unmeasured
  <2>7. ASSUME NEW f \in bounds[p] \ (todo[p] \ {e}) PROVE Fits(p, f, proposed[p])'
    <3>1. CASE f = e
      BY <2>6, <3>1
    <3>2. CASE f # e
      BY <2>1, <2>3, <2>4, <3>2 DEF Fits, Legacy
    <3>3. QED BY <3>1, <3>2
  <2>8. Exempted(proposed[p])'
    <3>1. e \in config.allowedLarge => proposed'[p][e] = 0
      BY <2>1, <2>3, <2>5 DEF Legacy
    <3>2. QED BY <2>1, <2>3, <2>4, <3>1 DEF Exempted
  <2>9. QED BY <2>1, <2>3, <2>7, <2>8 DEF UpToDate
<1>2. CASE p # q
  BY <1>2, QuietKept DEF MeasureNew, MeasureEntry, TypeOK, working
<1>3. QED BY <1>1, <1>2

LEMMA CommitQuiet ==
    ASSUME TypeOK, Quiet, NEW q \in Writers,
           CommitCreate(q) \/ CommitUpdate(q) \/ CommitUnchanged(q)
    PROVE  Quiet'
<1> SUFFICES ASSUME NEW p \in Writers PROVE quiet'[p] => UpToDate(p)'
  BY DEF Quiet
<1> USE DEF CommitCreate, CommitUpdate, CommitUnchanged, Finish, working, local
<1>1. CASE p = q
  <2>1. /\ pc[p] = "measure" /\ pc'[p] = "done" /\ todo[p] = {} /\ bounds' = bounds
        /\ baseline' = proposed[p] /\ UNCHANGED <<size, config>>
    BY <1>1 DEF TypeOK
  <2>2. quiet'[p] => quiet[p]
    BY <1>1 DEF Overtake, Disturb, TypeOK
  <2>3. QED BY <2>1, <2>2 DEF Quiet, UpToDate, Fits, Legacy, Exempted
<1>2. CASE p # q
  <2>1. quiet'[p] => quiet[p] /\ (pc[p] # "start" => baseline' = baseline)
    BY <1>2 DEF Overtake, Disturb, Begun, TypeOK
  <2>2. QED BY <1>2, <2>1, QuietKept DEF TypeOK
<1>3. QED BY <1>1, <1>2

\* Whatever developers change disturbs every invocation that has begun.
LEMMA DeveloperQuiet ==
    ASSUME TypeOK, Quiet, Developer
    PROVE  Quiet'
<1>1. ASSUME NEW p \in Writers PROVE quiet'[p] => UpToDate(p)'
  <2>1. /\ Edit
        /\ UNCHANGED <<pc, policy, bounds, todo, proposed>>
    BY DEF Developer, EditFile, EditPolicy, DeleteBaseline, local
  <2>2. quiet'[p] => quiet[p] /\ pc[p] = "start"
    BY <2>1 DEF Edit, Disturb, Begun, TypeOK
  <2>3. QED BY <2>1, <2>2, QuietKept
<1>2. QED BY <1>1 DEF Quiet

LEMMA StepQuiet ==
    ASSUME TypeOK, Quiet, [Next]_vars
    PROVE  Quiet'
<1>1. CASE UNCHANGED vars
  <2>1. ASSUME NEW p \in Writers PROVE quiet'[p] => UpToDate(p)'
    BY <1>1, QuietKept DEF vars, working, local
  <2>2. QED BY <2>1 DEF Quiet
<1>2. ASSUME NEW p \in Creators, Create(p) PROVE Quiet'
  <2>1. p \in Writers
    BY DEF Writers
  <2>2. CASE RefuseCreate(p) \/ LoseCreate(p) \/ \E f \in Files : AbortCreate(p, f)
    BY <2>1, <2>2, FailQuiet DEF RefuseCreate, LoseCreate, AbortCreate
  <2>3. QED BY <1>2, <2>1, <2>2, BeginQuiet, MeasureQuiet, CommitQuiet DEF Create
<1>3. ASSUME NEW p \in Updaters, Update(p) PROVE Quiet'
  <2>1. p \in Writers
    BY DEF Writers
  <2>2. CASE RefuseUpdate(p) \/ LoseUpdate(p) \/ \E f \in Files : AbortUpdate(p, f)
    BY <2>1, <2>2, FailQuiet DEF RefuseUpdate, LoseUpdate, AbortUpdate
  <2>3. QED BY <1>3, <2>1, <2>2, BeginQuiet, MeasureQuiet, CommitQuiet DEF Update
<1>4. CASE Developer
  BY <1>4, DeveloperQuiet
<1> HIDE DEF TypeOK, Quiet
<1>5. QED BY <1>1, <1>2, <1>3, <1>4 DEF Next

LEMMA QuietInvariance == Spec => [](TypeOK /\ Quiet)
BY InitQuiet, StepQuiet, TypeCorrect, PTL DEF Spec

\* An update that nothing disturbed leaves no slack: each entry in its bounds
\* allows exactly the present size, and analysis needs it (update).
THEOREM UpdatesAreTight == Spec => []UpdateIsTight
<1>1. ASSUME TypeOK, Quiet, NEW p \in Updaters, pc[p] = "done", quiet[p],
             NEW f \in bounds[p], baseline[f] # 0
      PROVE  /\ baseline[f] = size[f]
             /\ f \notin config.excluded
             /\ Now(f).ratchetStatus = "within"
  <2>1. Fits(p, f, baseline) /\ f \in Files
    BY <1>1 DEF Quiet, UpToDate, Writers, TypeOK
  <2>2. /\ size[f] \in Int /\ config.ratchetAt \in {"fail", "review"}
        /\ EffectiveThresholds(f, config).warnAt \in Nat
        /\ EffectiveThresholds(f, config).failAt \in Nat
    BY <1>1, <2>1, RatchetAssumption, ThresholdsOrdered DEF TypeOK, LocPolicy, Gone
  <2>3. QED BY <1>1, <2>1, <2>2 DEF Fits, Now, Evaluate, Finding, Threshold
<1>2. TypeOK /\ Quiet => UpdateIsTight
  BY <1>1 DEF UpdateIsTight
<1>3. QED BY <1>2, QuietInvariance, PTL

\* Adoption works: after a create that nothing disturbed analysis fails no file
\* of the scope, and no entry overlaps allowedLargeFiles (create, evaluate).
THEOREM CreationAdopts == Spec => []CreateAdoptsScope
<1>1. ASSUME TypeOK, Quiet, NEW p \in Creators, pc[p] = "done", quiet[p],
             NEW f \in bounds[p] \ config.excluded, size[f] # Gone
      PROVE  Now(f).state # "fail"
  <2>1. Fits(p, f, baseline) /\ f \in Files
    BY <1>1 DEF Quiet, UpToDate, Writers, TypeOK
  <2>2. /\ size[f] \in Int /\ config.ratchetAt \in {"fail", "review"}
        /\ EffectiveThresholds(f, config).warnAt \in Nat
        /\ EffectiveThresholds(f, config).failAt \in Nat
        /\ EffectiveThresholds(f, config).warnAt < EffectiveThresholds(f, config).failAt
    BY <1>1, <2>1, RatchetAssumption, ThresholdsOrdered DEF TypeOK, LocPolicy, Gone
  <2>3. QED BY <1>1, <2>1, <2>2 DEF Fits, Legacy, Now, Evaluate, Finding, Threshold
<1>2. ASSUME Quiet, NEW p \in Creators, pc[p] = "done", quiet[p]
      PROVE  \A f \in config.allowedLarge : baseline[f] = 0
  BY <1>2 DEF Quiet, UpToDate, Exempted, Writers
<1>3. TypeOK /\ Quiet => CreateAdoptsScope
  BY <1>1, <1>2 DEF CreateAdoptsScope
<1>4. QED BY <1>3, QuietInvariance, PTL
=============================================================================
