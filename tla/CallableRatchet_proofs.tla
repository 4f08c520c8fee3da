----------------------- MODULE CallableRatchet_proofs -----------------------
(***************************************************************************)
(* Proofs about CallableRatchet for any files, callables, policies and     *)
(* invocations: its types, that no ceiling is invented, that a write that  *)
(* no other write overlapped adds a ceiling only by an acceptance, and     *)
(* that one that nothing disturbed does exactly what it is for.            *)
(***************************************************************************)
EXTENDS CallableRatchet, TLAPS

\* The absent baseline is not confused with a table.
LEMMA NoBaselineIsNoTable == NoBaseline \notin Tables
BY CallableAssumption DEF NoBaseline, Tables

\* A key names a selector and a guard, a selector a file.
LEMMA KeyParts ==
    ASSUME NEW k \in Keys
    PROVE  k[1] \in Selectors /\ k[2] \in Guards /\ FileOf(k) \in Files
BY DEF Keys, Selectors, FileOf

\* The table without ceilings is a table.
LEMMA NoEntriesIsTable == NoEntries \in Tables
BY CallableAssumption DEF NoEntries, Tables

\* A declaration that is neither missing nor ambiguous has measures.
LEMMA UniqueIsMeasured ==
    ASSUME NEW d \in Declared, Unique(d), NEW g \in Guards
    PROVE  d[g] \in 1..MaxMeasure
BY CallableAssumption DEF Declared, Unique, Measures

\* What a writer works from is a table, also without a baseline.
LEMMA LoadedIsTable ==
    ASSUME TypeOK, NEW p \in Writers
    PROVE  Loaded(p) \in Tables
BY NoEntriesIsTable DEF TypeOK, Loaded

---------------------------------------------------------------------------
\* Types hold initially.
LEMMA InitTypeOK == Init => TypeOK
<1> SUFFICES ASSUME Init PROVE TypeOK
  OBVIOUS
<1> USE CallableAssumption, NoEntriesIsTable
<1>1. seen \in [Keys -> SUBSET (1..MaxMeasure)]
  BY KeyParts, UniqueIsMeasured DEF Init
<1>2. target \in [Writers -> Keys]
  BY DEF Init
<1>3. facts \in [Writers -> [Selectors -> Declared]]
  BY DEF Init, Declared
<1>4. QED BY <1>1, <1>2, <1>3 DEF Init, TypeOK

\* What update() proposes is a table again.
LEMMA MaintainIsTable ==
    ASSUME TypeOK, NEW p \in Writers, entries[p] # NoBaseline
    PROVE  [k \in Keys |-> Maintain(p, k)] \in Tables
<1> SUFFICES ASSUME NEW k \in Keys PROVE Maintain(p, k) \in 0..MaxMeasure
  BY DEF Tables
<1>1. entries[p][k] \in 0..MaxMeasure /\ 0 \in 0..MaxMeasure
  BY CallableAssumption DEF TypeOK, Tables
<1>2. Unique(facts[p][k[1]]) => Measured(p, k) \in 0..MaxMeasure
  BY KeyParts, UniqueIsMeasured DEF TypeOK, Measured
<1>3. QED BY <1>1, <1>2 DEF Maintain

\* The ways an invocation ends without a write.
Fails(p) ==
    \/ \E f \in Files : EvidenceMissing(p, f)
    \/ EvidenceUnusable(p) \/ LoseWrite(p) \/ RefuseAccept(p) \/ RefuseUpdate(p)

\* Every way of failing ends the invocation and changes nothing else.
LEMMA FailsFinishes ==
    ASSUME NEW p, Fails(p)
    PROVE  Fail(p)
BY DEF Fails, EvidenceMissing, EvidenceUnusable, LoseWrite, RefuseAccept, RefuseUpdate

\* Every step is one of these.
Steps ==
    \/ \E p \in Writers, k \in Keys, scope \in SUBSET Files, stale \in BOOLEAN :
          Begin(p, k, scope, stale)
    \/ \E p \in Writers, f \in Files : AnalyzeFile(p, f)
    \/ \E p \in Writers : Fails(p) \/ WriteNothing(p)
    \/ \E p \in Writers : Write(p)
    \/ \E p \in Accepters : Accept(p)
    \/ \E p \in Updaters : Update(p)
    \/ Developer
    \/ UNCHANGED vars

\* Every step is one of the named ones.
LEMMA StepCases == TypeOK /\ [Next]_vars => Steps
<1> SUFFICES ASSUME TypeOK, [Next]_vars PROVE Steps
  OBVIOUS
<1>1. ASSUME NEW p \in Writers, Invocation(p)
      PROVE  Steps
  BY <1>1 DEF Invocation, Steps, Fails
<1>2. ASSUME NEW p \in Accepters, Accepting(p)
      PROVE  Steps
  <2>1. p \in Writers
    BY DEF Writers
  <2>2. ASSUME NEW k \in Keys, Begin(p, k, {FileOf(k)}, FALSE)
        PROVE  Steps
    BY <2>1, <2>2, KeyParts DEF Steps
  <2>3. RefuseAccept(p) => Steps
    BY <2>1 DEF Steps, Fails
  <2>4. Accept(p) => Steps
    BY DEF Steps
  <2>5. QED BY <1>1, <1>2, <2>1, <2>2, <2>3, <2>4 DEF Accepting
<1>3. ASSUME NEW p \in Updaters, Updating(p)
      PROVE  Steps
  <2>1. p \in Writers /\ target[p] \in Keys
    BY DEF Writers, TypeOK
  <2>2. ASSUME NEW scope \in SUBSET Files, NEW stale \in BOOLEAN,
               Begin(p, target[p], scope, stale)
        PROVE  Steps
    BY <2>1, <2>2 DEF Steps
  <2>3. RefuseUpdate(p) \/ WriteNothing(p) => Steps
    BY <2>1 DEF Steps, Fails
  <2>4. Update(p) => Steps
    BY DEF Steps
  <2>5. QED BY <1>1, <1>3, <2>1, <2>2, <2>3, <2>4 DEF Updating
<1>4. QED BY <1>2, <1>3 DEF Next, Steps

\* Every step keeps the types.
LEMMA StepTypeOK ==
    ASSUME TypeOK, [Next]_vars
    PROVE  TypeOK'
<1> USE CallableAssumption
<1> USE DEF TypeOK, working, request, evidence, history, Finish, Fail, Disturb, Overtake, Begun, Edit
<1>1. ASSUME NEW p \in Writers, NEW k \in Keys, NEW scope \in SUBSET Files,
             NEW stale \in BOOLEAN, Begin(p, k, scope, stale)
      PROVE  TypeOK'
  BY <1>1 DEF Begin
<1>2. ASSUME NEW p \in Writers, NEW f \in Files, AnalyzeFile(p, f)
      PROVE  TypeOK'
  BY <1>2 DEF AnalyzeFile
<1>3. ASSUME NEW p \in Writers, Fails(p) \/ WriteNothing(p)
      PROVE  TypeOK'
  <2>1. Fail(p) \/ WriteNothing(p)
    BY <1>3, FailsFinishes
  <2>2. QED BY <2>1 DEF WriteNothing
<1>4. ASSUME NEW p \in Writers, Write(p)
      PROVE  TypeOK'
  BY <1>4 DEF Write
<1>5. ASSUME NEW p \in Accepters, Accept(p)
      PROVE  TypeOK'
  <2>1. p \in Writers
    BY DEF Writers
  <2>2. facts[p][target[p][1]][target[p][2]] \in 0..MaxMeasure
    BY <1>5, <2>1, KeyParts, UniqueIsMeasured DEF Accept, Acceptable
  <2>3. proposed'[p] \in Tables
    BY <1>5, <2>1, <2>2, LoadedIsTable DEF Accept, Tables
  <2>4. QED BY <1>5, <2>1, <2>3 DEF Accept
<1>6. ASSUME NEW p \in Updaters, Update(p)
      PROVE  TypeOK'
  <2>1. p \in Writers
    BY DEF Writers
  <2>2. proposed'[p] \in Tables
    BY <1>6, <2>1, MaintainIsTable DEF Update, Updatable
  <2>3. QED BY <1>6, <2>1, <2>2 DEF Update
<1>7. ASSUME NEW s \in Selectors, NEW d \in Declared, EditCallable(s, d)
      PROVE  TypeOK'
  <2>1. seen' \in [Keys -> SUBSET (1..MaxMeasure)]
    BY <1>7, KeyParts, UniqueIsMeasured DEF EditCallable, See
  <2>2. QED BY <1>7, <2>1 DEF EditCallable
<1>8. ASSUME NEW f \in Files, ToggleSyntax(f)
      PROVE  TypeOK'
  BY <1>8 DEF ToggleSyntax
<1>9. ASSUME NEW f \in Files, DeleteFile(f)
      PROVE  TypeOK'
  BY <1>9 DEF DeleteFile, Declared
<1>12. ASSUME NEW c \in Configs, EditPolicy(c)
      PROVE  TypeOK'
  BY <1>12 DEF EditPolicy
<1>13. CASE DeleteBaseline
  BY <1>13 DEF DeleteBaseline
<1>10. CASE UNCHANGED vars
  BY <1>10 DEF vars
<1>14. CASE Developer
  BY <1>7, <1>8, <1>9, <1>12, <1>13, <1>14 DEF Developer
<1>15. Steps
  BY StepCases
<1> HIDE CallableAssumption DEF TypeOK, working, request, evidence, history
<1>16. QED
  BY <1>1, <1>2, <1>3, <1>4, <1>5, <1>6, <1>10, <1>14, <1>15 DEF Steps

\* Types are kept, for any files, callables, policies and invocations.
THEOREM TypeCorrect == Spec => []TypeOK
BY InitTypeOK, StepTypeOK, PTL DEF Spec

---------------------------------------------------------------------------
\* A measure in the code, in the evidence or about to be stored was seen.
Seen(k, n) == n \in seen[k]

Evidence ==
    /\ \A k \in Keys : Unique(code[k[1]]) => Seen(k, code[k[1]][k[2]])
    /\ \A p \in Writers, k \in Keys :
          /\ Unique(facts[p][k[1]]) => Seen(k, Measured(p, k))
          /\ Loaded(p)[k] # 0 => Seen(k, Loaded(p)[k])
          /\ proposed[p][k] # 0 => Seen(k, proposed[p][k])

SInv == TypeOK /\ CeilingMeasured /\ Evidence

\* The evidence invariant holds initially.
LEMMA InitSInv == Init => SInv
<1> SUFFICES ASSUME Init PROVE SInv
  OBVIOUS
<1>1. \A p \in Writers, k \in Keys :
         /\ ~Unique(facts[p][k[1]])
         /\ Loaded(p)[k] = 0 /\ proposed[p][k] = 0
  BY KeyParts DEF Init, Unique, Loaded, NoEntries
<1>2. QED BY <1>1, InitTypeOK DEF Init, SInv, CeilingMeasured, Evidence, Stored, Seen

\* Every step keeps the evidence invariant.
LEMMA StepSInv ==
    ASSUME SInv, [Next]_vars
    PROVE  SInv'
<1> USE CallableAssumption, NoBaselineIsNoTable
<1>0. TypeOK /\ TypeOK'
  BY StepTypeOK DEF SInv
<1> USE <1>0
<1> USE DEF SInv, CeilingMeasured, Evidence, Stored, Seen, Loaded, Measured,
            working, request, evidence, history, Finish, Fail, Disturb, Overtake, Begun, Edit
<1>1. ASSUME NEW p \in Writers, NEW k \in Keys, NEW scope \in SUBSET Files,
             NEW stale \in BOOLEAN, Begin(p, k, scope, stale)
      PROVE  SInv'
  BY <1>1 DEF Begin, TypeOK, NoEntries
<1>2. ASSUME NEW p \in Writers, NEW f \in Files, AnalyzeFile(p, f)
      PROVE  SInv'
  <2>1. \A k \in Keys : facts'[p][k[1]] \in {code[k[1]], facts[p][k[1]]}
    BY <1>2, KeyParts DEF AnalyzeFile, TypeOK
  <2>2. QED BY <1>2, <2>1 DEF AnalyzeFile, TypeOK
<1>3. ASSUME NEW p \in Writers, Fails(p) \/ WriteNothing(p)
      PROVE  SInv'
  <2>1. Fail(p) \/ WriteNothing(p)
    BY <1>3, FailsFinishes
  <2>2. QED BY <2>1 DEF WriteNothing
<1>4. ASSUME NEW p \in Writers, Write(p)
      PROVE  SInv'
  BY <1>4 DEF Write
<1>5. ASSUME NEW p \in Accepters, Accept(p)
      PROVE  SInv'
  <2>1. p \in Writers /\ target[p] \in Keys
    BY DEF Writers, TypeOK
  <2>2. \A k \in Keys : proposed'[p][k] = IF k = target[p] THEN Measured(p, k)
                                                          ELSE Loaded(p)[k]
    BY <1>5, <2>1, LoadedIsTable DEF Accept, TypeOK, Tables
  <2>3. \A k \in Keys : proposed'[p][k] # 0 => Seen(k, proposed'[p][k])
    BY <1>5, <2>1, <2>2 DEF Accept, Acceptable
  <2>4. QED BY <1>5, <2>1, <2>3 DEF Accept, TypeOK
<1>6. ASSUME NEW p \in Updaters, Update(p)
      PROVE  SInv'
  <2>1. p \in Writers
    BY DEF Writers
  <2>2. \A k \in Keys :
           \/ proposed'[p][k] \in {0, entries[p][k]}
           \/ /\ Unique(facts[p][k[1]])
              /\ proposed'[p][k] = Measured(p, k)
    BY <1>6, <2>1 DEF Update, TypeOK, Maintain
  <2>3. \A k \in Keys : proposed'[p][k] # 0 => Seen(k, proposed'[p][k])
    BY <1>6, <2>1, <2>2 DEF Update, Updatable
  <2>4. QED BY <1>6, <2>1, <2>3 DEF Update, TypeOK
<1>7. ASSUME NEW s \in Selectors, NEW d \in Declared, EditCallable(s, d)
      PROVE  SInv'
  <2>1. \A k \in Keys : seen[k] \subseteq seen'[k]
    BY <1>7 DEF EditCallable, See
  <2>2. \A k \in Keys : Unique(code'[k[1]]) => code'[k[1]][k[2]] \in seen'[k]
    BY <1>7 DEF EditCallable, See
  <2>3. QED BY <1>7, <2>1, <2>2 DEF EditCallable
<1>8. ASSUME NEW f \in Files, ToggleSyntax(f) \/ DeleteFile(f)
      PROVE  SInv'
  <2>1. \A k \in Keys : code'[k[1]] \in {code[k[1]], Absent}
    BY <1>8, KeyParts DEF ToggleSyntax, DeleteFile
  <2>2. QED BY <1>8, <2>1 DEF ToggleSyntax, DeleteFile, Unique
<1>9. CASE (\E c \in Configs : EditPolicy(c)) \/ DeleteBaseline
  BY <1>9 DEF EditPolicy, DeleteBaseline
<1>10. CASE UNCHANGED vars
  BY <1>10 DEF vars
<1>11. CASE Developer
  BY <1>7, <1>8, <1>9, <1>11 DEF Developer
<1>12. Steps
  BY StepCases
<1>13. QED
  BY <1>1, <1>2, <1>3, <1>4, <1>5, <1>6, <1>10, <1>11, <1>12 DEF Steps

\* Every stored ceiling is a measure the callable really had, also when
\* writers and developers overlap.
THEOREM NoInventedCeiling == Spec => []CeilingMeasured
<1>1. SInv => CeilingMeasured BY DEF SInv
<1>2. QED BY <1>1, InitSInv, StepSInv, PTL DEF Spec

---------------------------------------------------------------------------
(* Writes that no other write overlapped.                                  *)

Running == {p \in Writers : pc[p] \in {"analyze", "commit"}}

\* An intact writer's load is still what is stored, or the baseline is deleted;
\* an accepter adds its target and an updater only lowers.
Working(p) ==
    /\ baseline \in {entries[p], NoBaseline}
    /\ pc[p] = "commit" /\ p \in Accepters =>
          /\ Loaded(p)[target[p]] = 0
          /\ \A k \in Keys \ {target[p]} : proposed[p][k] = Loaded(p)[k]
    /\ pc[p] = "commit" /\ p \in Updaters =>
          \A k \in Keys : proposed[p][k] <= Loaded(p)[k]

Intact == \A p \in Running : intact[p] => Working(p)

\* No write has begun.
LEMMA InitIntact == Init => Intact
BY DEF Init, Intact, Running

\* Only another write separates a writer from what it loaded.
LEMMA StepIntact ==
    ASSUME TypeOK, Intact, [Next]_vars
    PROVE  Intact'
<1> USE CallableAssumption, NoBaselineIsNoTable
<1> USE DEF Intact, Running, Working, Loaded,
            working, request, evidence, history, Finish, Fail, Disturb, Overtake, Begun, Edit
<1>1. ASSUME NEW p \in Writers, NEW k \in Keys, NEW scope \in SUBSET Files,
             NEW stale \in BOOLEAN, Begin(p, k, scope, stale)
      PROVE  Intact'
  BY <1>1 DEF Begin, TypeOK
<1>2. ASSUME NEW p \in Writers, NEW f \in Files, AnalyzeFile(p, f)
      PROVE  Intact'
  BY <1>2 DEF AnalyzeFile, TypeOK
<1>3. ASSUME NEW p \in Writers, Fails(p) \/ WriteNothing(p)
      PROVE  Intact'
  <2>1. Fail(p) \/ WriteNothing(p)
    BY <1>3, FailsFinishes
  <2>2. /\ Running' = Running \ {p}
        /\ UNCHANGED <<baseline, entries, target, proposed, intact>>
        /\ \A q \in Writers \ {p} : pc'[q] = pc[q]
    BY <2>1 DEF WriteNothing, TypeOK
  <2>3. QED BY <2>2
<1>4. ASSUME NEW p \in Writers, Write(p)
      PROVE  Intact'
  BY <1>4 DEF Write, TypeOK
<1>5. ASSUME NEW p \in Accepters, Accept(p)
      PROVE  Intact'
  <2>1. p \in Writers /\ p \notin Updaters /\ target[p] \in Keys
    BY DEF Writers, TypeOK
  <2>2. \A k \in Keys \ {target[p]} : proposed'[p][k] = Loaded(p)[k]
    BY <1>5, <2>1, LoadedIsTable DEF Accept, TypeOK, Tables
  <2>3. QED BY <1>5, <2>1, <2>2 DEF Accept, Usable, Ready, Acceptable, TypeOK
<1>6. ASSUME NEW p \in Updaters, Update(p)
      PROVE  Intact'
  <2>1. p \in Writers /\ p \notin Accepters
    BY DEF Writers
  <2>2. ASSUME NEW k \in Keys
        PROVE  proposed'[p][k] <= entries[p][k]
    <3>1. proposed'[p][k] = Maintain(p, k) /\ ~Grown(p, k)
      BY <1>6, <2>1 DEF Update, Updatable, TypeOK
    <3>2. entries[p][k] \in Nat
      BY <1>6, <2>1 DEF Update, Updatable, TypeOK, Tables
    <3>3. Unique(facts[p][k[1]]) =>
             /\ Measured(p, k) \in Nat
             /\ policy[p].reviewAt[k[2]] \in Nat
      BY <2>1, KeyParts, UniqueIsMeasured DEF TypeOK, Measured, Policy
    <3>4. QED BY <3>1, <3>2, <3>3 DEF Maintain, Grown
  <2>3. QED BY <1>6, <2>1, <2>2 DEF Update, Updatable, Usable, Ready, TypeOK
<1>7. CASE Developer
  <2>1. /\ UNCHANGED <<pc, entries, target, proposed, intact>>
        /\ baseline' \in {baseline, NoBaseline}
    BY <1>7 DEF Developer, EditCallable, ToggleSyntax, DeleteFile, EditPolicy,
                DeleteBaseline
  <2>2. QED BY <2>1
<1>8. CASE UNCHANGED vars
  BY <1>8 DEF vars
<1>9. Steps
  BY StepCases
<1> HIDE DEF Intact, Working, Running
<1>10. QED
  BY <1>1, <1>2, <1>3, <1>4, <1>5, <1>6, <1>7, <1>8, <1>9 DEF Steps

\* The inductive invariant of intact writes.
LEMMA IntactInvariance == Spec => [](TypeOK /\ Intact)
BY InitIntact, StepIntact, TypeCorrect, PTL DEF Spec

\* Over a stored table an intact step writes what it holds, or nothing.
LEMMA RewritesMove ==
    ASSUME TypeOK, Intact, [Next]_vars, NEW p \in Writers, Rewrites(p)
    PROVE  \/ UNCHANGED baseline
           \/ /\ pc[p] = "commit" /\ Working(p)
              /\ baseline = entries[p] /\ baseline' = proposed[p]
<1> USE DEF working, request, evidence, history, Finish, Fail, Edit, Stored, Rewrites
<1>1. ASSUME NEW q \in Writers, Write(q)
      PROVE  /\ pc[p] = "commit" /\ Working(p)
             /\ baseline = entries[p] /\ baseline' = proposed[p]
  <2>1. p = q
    BY <1>1 DEF Write, TypeOK
  <2>2. QED BY <1>1, <2>1 DEF Write, Intact, Running, Working
<1>2. ASSUME NEW q \in Accepters, Accepting(q), ~Write(q)
      PROVE  UNCHANGED baseline
  BY <1>2 DEF Accepting, Invocation, Begin, AnalyzeFile, EvidenceMissing,
              EvidenceUnusable, LoseWrite, RefuseAccept, Accept
<1>3. ASSUME NEW q \in Updaters, Updating(q), ~Write(q)
      PROVE  UNCHANGED baseline
  BY <1>3 DEF Updating, Invocation, Begin, AnalyzeFile, EvidenceMissing,
              EvidenceUnusable, LoseWrite, RefuseUpdate, Update, WriteNothing
<1>4. CASE Developer
  BY <1>4 DEF Developer, EditCallable, ToggleSyntax, DeleteFile, EditPolicy,
              DeleteBaseline
<1>5. CASE UNCHANGED vars
  BY <1>5 DEF vars
<1>6. QED BY <1>1, <1>2, <1>3, <1>4, <1>5 DEF Next, Writers

\* Unless another write overlapped it, a write raises a ceiling only from
\* nothing and only by an acceptance of exactly that callable.
THEOREM OnlyAcceptanceAdds == Spec => CeilingNeverRaised
<1> DEFINE Added(p, k) ==
        /\ baseline[k] = 0
        /\ p \in Accepters /\ target[p] = k
        /\ \A j \in Keys \ {k} : baseline'[j] = baseline[j]
<1>1. ASSUME TypeOK, Intact, [Next]_vars, NEW p \in Writers, Rewrites(p),
             NEW k \in Keys, baseline'[k] > baseline[k]
      PROVE  Added(p, k)
  <2>1. baseline \in Tables /\ baseline[k] \in Int
    BY <1>1 DEF TypeOK, Rewrites, Stored, Tables
  <2>2. baseline' # baseline
    BY <1>1, <2>1
  <2>3. /\ pc[p] = "commit" /\ Working(p)
        /\ baseline = entries[p] /\ baseline' = proposed[p]
    BY <1>1, <2>2, RewritesMove
  <2>4. Loaded(p) = baseline
    BY <1>1, <2>3 DEF Loaded, Rewrites, Stored
  <2>5. p \in Accepters
    <3>1. p \in Updaters => baseline'[k] <= baseline[k]
      BY <2>3, <2>4 DEF Working
    <3>2. baseline'[k] \in Int
      BY <2>3, <1>1 DEF TypeOK, Tables
    <3>3. QED BY <3>1, <3>2, <2>1, <1>1 DEF Writers
  <2>6. k = target[p]
    BY <1>1, <2>1, <2>3, <2>4, <2>5 DEF Working
  <2>7. QED BY <2>3, <2>4, <2>5, <2>6 DEF Working
<1>2. TypeOK /\ Intact /\ [Next]_vars
        => [\A p \in Writers : Rewrites(p) =>
              \A k \in Keys : baseline'[k] > baseline[k] =>
                 /\ baseline[k] = 0
                 /\ p \in Accepters /\ target[p] = k
                 /\ \A j \in Keys \ {k} : baseline'[j] = baseline[j]]_vars
  BY <1>1
<1>3. QED BY <1>2, IntactInvariance, PTL DEF Spec, CeilingNeverRaised

---------------------------------------------------------------------------
(* Writes that nothing disturbed.                                          *)

\* A deleted file declares nothing.
GoneIsEmpty == \A s \in Selectors : status[s[1]] = "gone" => code[s] = Absent

LEMMA InitGone == Init => GoneIsEmpty
BY DEF Init, GoneIsEmpty, Selectors

LEMMA StepGone ==
    ASSUME TypeOK, GoneIsEmpty, [Next]_vars
    PROVE  GoneIsEmpty'
<1> USE DEF GoneIsEmpty
<1>1. CASE UNCHANGED <<code, status>>
  BY <1>1
<1>2. ASSUME NEW s \in Selectors, NEW d \in Declared, EditCallable(s, d)
      PROVE  GoneIsEmpty'
  BY <1>2 DEF EditCallable, TypeOK
<1>3. ASSUME NEW f \in Files, ToggleSyntax(f) \/ DeleteFile(f)
      PROVE  GoneIsEmpty'
  BY <1>3 DEF ToggleSyntax, DeleteFile, TypeOK, Selectors
<1>4. ASSUME ~Developer
      PROVE  UNCHANGED <<code, status>>
  BY <1>4, StepCases, FailsFinishes
     DEF Steps, Fail, Begin, AnalyzeFile, Accept, Update, Write, WriteNothing, working,
         vars, Writers
<1>5. (\E c \in Configs : EditPolicy(c)) \/ DeleteBaseline => UNCHANGED <<code, status>>
  BY DEF EditPolicy, DeleteBaseline, working
<1>6. QED BY <1>1, <1>2, <1>3, <1>4, <1>5 DEF Developer

\* A writer's evidence is what its analyzed files declare, judged by the
\* present policy.
Informed(p) ==
    /\ policy[p] = config
    /\ analyzed[p] \cup todo[p] = {f \in bounds[p] \ config.excluded : status[f] # "gone"}
    /\ \A s \in Selectors : facts[p][s] = IF s[1] \in analyzed[p] THEN code[s] ELSE Absent

\* What is proposed is what was to be made of the evidence.
Decided(p) ==
    /\ todo[p] = {} /\ ~Ambiguous(p)
    /\ p \in Accepters => /\ Acceptable(p, target[p])
                          /\ proposed[p][target[p]] = Measured(p, target[p])
    /\ p \in Updaters => /\ entries[p] # NoBaseline
                         /\ \A k \in Keys : proposed[p][k] = Maintain(p, k)

UpToDate(p) ==
    /\ pc[p] = "start" => /\ analyzed[p] = {}
                          /\ \A s \in Selectors : facts[p][s] = Absent
    /\ pc[p] = "analyze" => Informed(p) /\ baseline = entries[p]
    /\ pc[p] = "commit" => Informed(p) /\ Decided(p) /\ baseline = entries[p]
    /\ pc[p] = "done" => Informed(p) /\ Decided(p) /\ baseline = proposed[p]

Quiet == \A p \in Writers : quiet[p] => UpToDate(p)

LEMMA InitQuiet == Init => Quiet
BY DEF Init, Quiet, UpToDate

\* What p was asked, found and proposes.
Own(p) == <<policy[p], target[p], bounds[p], prune[p], entries[p], todo[p], facts[p],
            analyzed[p], proposed[p]>>

LEMMA InformedKept ==
    ASSUME NEW p \in Writers, Own(p)' = Own(p), UNCHANGED working
    PROVE  Informed(p)' <=> Informed(p)
BY DEF Informed, Own, working

LEMMA DecidedKept ==
    ASSUME NEW p \in Writers, Own(p)' = Own(p), UNCHANGED working
    PROVE  Decided(p)' <=> Decided(p)
<1> USE DEF Own, working
<1>1. Loaded(p)' = Loaded(p) /\ \A k : Measured(p, k)' = Measured(p, k)
  BY DEF Loaded, Measured
<1>2. Ambiguous(p)' <=> Ambiguous(p)
  BY <1>1 DEF Ambiguous
<1>3. \A k : Acceptable(p, k)' <=> Acceptable(p, k)
  BY <1>1 DEF Acceptable
<1>4. \A k \in Keys : Maintain(p, k)' = Maintain(p, k)
  BY <1>1 DEF Maintain, Maintained, Stale
<1>5. QED BY <1>1, <1>2, <1>3, <1>4 DEF Decided

\* Steps of others that leave a writer quiet change nothing it uses.
LEMMA QuietKept ==
    ASSUME Quiet, NEW p \in Writers,
           quiet'[p] => /\ quiet[p] /\ pc'[p] = pc[p] /\ Own(p)' = Own(p)
                        /\ pc[p] # "start" => UNCHANGED <<working, baseline>>
    PROVE  quiet'[p] => UpToDate(p)'
<1> SUFFICES ASSUME quiet'[p] PROVE UpToDate(p)'
  OBVIOUS
<1>1. UpToDate(p) /\ pc'[p] = pc[p] /\ Own(p)' = Own(p)
  BY DEF Quiet
<1>2. CASE pc[p] = "start"
  BY <1>1, <1>2 DEF UpToDate, Own
<1>3. CASE pc[p] # "start"
  <2>1. (Informed(p)' <=> Informed(p)) /\ (Decided(p)' <=> Decided(p)) /\ baseline' = baseline
    BY <1>1, <1>3, InformedKept, DecidedKept
  <2>2. QED BY <1>1, <1>3, <2>1 DEF UpToDate, Own
<1>4. QED BY <1>2, <1>3

LEMMA BeginQuiet ==
    ASSUME TypeOK, Quiet, NEW q \in Writers, NEW k \in Keys, NEW scope \in SUBSET Files,
           NEW stale \in BOOLEAN, Begin(q, k, scope, stale)
    PROVE  Quiet'
<1> SUFFICES ASSUME NEW p \in Writers PROVE quiet'[p] => UpToDate(p)'
  BY DEF Quiet
<1> USE DEF Begin, Finish, working, TypeOK
<1>1. CASE p = q
  <2>1. /\ pc[p] = "start" /\ pc'[p] = "analyze" /\ policy'[p] = config
        /\ bounds'[p] = scope /\ entries'[p] = baseline /\ baseline' = baseline
        /\ todo'[p] = {f \in scope \ config.excluded : status[f] # "gone"}
        /\ UNCHANGED <<working, facts, analyzed, quiet>>
    BY <1>1
  <2>2. quiet[p] => analyzed[p] = {} /\ \A s \in Selectors : facts[p][s] = Absent
    BY <2>1 DEF Quiet, UpToDate
  <2>3. QED BY <2>1, <2>2 DEF UpToDate, Informed
<1>2. CASE p # q
  BY <1>2, QuietKept DEF Own
<1>3. QED BY <1>1, <1>2

LEMMA AnalyzeQuiet ==
    ASSUME TypeOK, Quiet, NEW q \in Writers, NEW f \in Files, AnalyzeFile(q, f)
    PROVE  Quiet'
<1> SUFFICES ASSUME NEW p \in Writers PROVE quiet'[p] => UpToDate(p)'
  BY DEF Quiet
<1> USE DEF AnalyzeFile, working, request, TypeOK
<1>1. CASE p = q
  <2>1. /\ pc[p] = "analyze" /\ pc' = pc /\ UNCHANGED <<policy, bounds, entries, baseline, quiet>>
        /\ UNCHANGED <<code, status, config>>
        /\ f \in todo[p] /\ todo'[p] = todo[p] \ {f} /\ analyzed'[p] = analyzed[p] \cup {f}
        /\ \A s \in Selectors : facts'[p][s] = IF s[1] = f THEN code[s] ELSE facts[p][s]
    BY <1>1
  <2>2. quiet[p] => Informed(p) /\ baseline = entries[p]
    BY <2>1 DEF Quiet, UpToDate
  <2>3. QED BY <2>1, <2>2 DEF UpToDate, Informed
<1>2. CASE p # q
  BY <1>2, QuietKept DEF Own
<1>3. QED BY <1>1, <1>2

\* A failed invocation and one that writes nothing change nothing.
LEMMA EndQuiet ==
    ASSUME TypeOK, Quiet, NEW q \in Writers, Fail(q) \/ WriteNothing(q)
    PROVE  Quiet'
<1> SUFFICES ASSUME NEW p \in Writers PROVE quiet'[p] => UpToDate(p)'
  BY DEF Quiet
<1> USE DEF Fail, WriteNothing, Finish, working, request, evidence
<1>1. CASE p = q
  <2>1. Own(p)' = Own(p) /\ UNCHANGED <<working, baseline, quiet>>
    BY DEF Own
  <2>2. \/ pc'[p] = "failed"
        \/ pc'[p] = "done" /\ pc[p] = "commit" /\ proposed[p] = entries[p]
    BY <1>1 DEF TypeOK
  <2>3. (Informed(p)' <=> Informed(p)) /\ (Decided(p)' <=> Decided(p))
    BY <2>1, InformedKept, DecidedKept
  <2>4. QED BY <2>1, <2>2, <2>3 DEF Quiet, UpToDate, Own
<1>2. CASE p # q
  BY <1>2, QuietKept DEF Own, TypeOK
<1>3. QED BY <1>1, <1>2

LEMMA DecideQuiet ==
    ASSUME TypeOK, Quiet, NEW q \in Writers,
           \/ q \in Accepters /\ Accept(q)
           \/ q \in Updaters /\ Update(q)
    PROVE  Quiet'
<1> SUFFICES ASSUME NEW p \in Writers PROVE quiet'[p] => UpToDate(p)'
  BY DEF Quiet
<1> USE DEF Accept, Update, Finish, working, request, evidence
<1>1. CASE p = q
  <2>1. /\ pc[p] = "analyze" /\ pc'[p] = "commit" /\ Usable(p)
        /\ UNCHANGED <<working, request, evidence, baseline, quiet>>
    BY <1>1 DEF TypeOK, Usable, Ready
  <2>2. /\ todo'[p] = {} /\ ~Ambiguous(p)'
    BY <2>1 DEF Usable, Ready, Ambiguous, Loaded
  <2>3. ASSUME q \in Accepters
        PROVE  /\ q \notin Updaters /\ Acceptable(q, target[q])'
               /\ proposed'[q][target'[q]] = Measured(q, target[q])'
    <3>1. q \notin Updaters /\ target[q] \in Keys
      BY <2>3, CallableAssumption DEF TypeOK
    <3>2. Acceptable(q, target[q])'
      BY <2>1, <2>3, <3>1 DEF Acceptable, Loaded
    <3>3. proposed'[q] = [Loaded(q) EXCEPT ![target[q]] = Measured(q, target[q])]
      BY <2>3, <3>1 DEF TypeOK, Measured
    <3>4. proposed'[q][target[q]] = Measured(q, target[q])
      BY <3>1, <3>3, LoadedIsTable DEF Tables
    <3>5. QED BY <2>1, <3>1, <3>2, <3>4 DEF Measured
  <2>4. ASSUME q \in Updaters
        PROVE  /\ q \notin Accepters /\ entries'[q] # NoBaseline
               /\ \A k \in Keys : proposed'[q][k] = Maintain(q, k)'
    <3>1. q \notin Accepters /\ entries[q] # NoBaseline
      BY <2>4, CallableAssumption DEF Updatable
    <3>2. \A k \in Keys : proposed'[q][k] = Maintain(q, k)
      BY <3>1, <2>4 DEF TypeOK
    <3>3. \A k \in Keys : Maintain(q, k)' = Maintain(q, k)
      BY <2>1 DEF Maintain, Maintained, Stale, Measured
    <3>4. QED BY <2>1, <3>1, <3>2, <3>3
  <2>5. Decided(p)'
    BY <1>1, <2>2, <2>3, <2>4 DEF Decided
  <2>6. Informed(p)' <=> Informed(p)
    BY <2>1 DEF Informed
  <2>7. QED BY <2>1, <2>5, <2>6 DEF Quiet, UpToDate
<1>2. CASE p # q
  BY <1>2, QuietKept DEF Own, TypeOK
<1>3. QED BY <1>1, <1>2

LEMMA WriteQuiet ==
    ASSUME TypeOK, Quiet, NEW q \in Writers, Write(q)
    PROVE  Quiet'
<1> SUFFICES ASSUME NEW p \in Writers PROVE quiet'[p] => UpToDate(p)'
  BY DEF Quiet
<1> USE DEF Write, Overtake, Disturb, Begun, Finish, request, evidence, TypeOK
<1>1. CASE p = q
  <2>1. /\ pc[p] = "commit" /\ pc'[p] = "done" /\ baseline' = proposed[p]
        /\ Own(p)' = Own(p) /\ UNCHANGED working /\ quiet'[p] = quiet[p]
    BY <1>1 DEF Own
  <2>2. (Informed(p)' <=> Informed(p)) /\ (Decided(p)' <=> Decided(p))
    BY <2>1, InformedKept, DecidedKept
  <2>3. QED BY <2>1, <2>2 DEF Quiet, UpToDate, Own
<1>2. CASE p # q
  <2>1. quiet'[p] => quiet[p] /\ pc[p] = "start"
    BY <1>2
  <2>2. pc'[p] = pc[p] /\ Own(p)' = Own(p)
    BY <1>2 DEF Own
  <2>3. QED BY <2>1, <2>2, QuietKept
<1>3. QED BY <1>1, <1>2

\* Whatever developers change disturbs every invocation that has begun.
LEMMA DeveloperQuiet ==
    ASSUME TypeOK, Quiet, Developer
    PROVE  Quiet'
<1>1. ASSUME NEW p \in Writers PROVE quiet'[p] => UpToDate(p)'
  <2>1. Edit /\ UNCHANGED <<pc, request, evidence, proposed>>
    BY DEF Developer, EditCallable, ToggleSyntax, DeleteFile, EditPolicy, DeleteBaseline
  <2>2. quiet'[p] => quiet[p] /\ pc[p] = "start"
    BY <2>1 DEF Edit, Disturb, Begun, TypeOK
  <2>3. pc'[p] = pc[p] /\ Own(p)' = Own(p)
    BY <2>1 DEF Own, request, evidence
  <2>4. QED BY <2>2, <2>3, QuietKept
<1>2. QED BY <1>1 DEF Quiet

LEMMA StepQuiet ==
    ASSUME TypeOK, Quiet, [Next]_vars
    PROVE  Quiet'
<1>1. CASE UNCHANGED vars
  <2>1. ASSUME NEW p \in Writers PROVE quiet'[p] => UpToDate(p)'
    BY <1>1, QuietKept DEF vars, Own, request, evidence
  <2>2. QED BY <2>1 DEF Quiet
<1>2. ASSUME NEW p \in Writers, NEW k \in Keys, NEW scope \in SUBSET Files,
             NEW stale \in BOOLEAN, Begin(p, k, scope, stale)
      PROVE  Quiet'
  BY <1>2, BeginQuiet
<1>3. ASSUME NEW p \in Writers, NEW f \in Files, AnalyzeFile(p, f)
      PROVE  Quiet'
  BY <1>3, AnalyzeQuiet
<1>4. ASSUME NEW p \in Writers, Fails(p) \/ WriteNothing(p)
      PROVE  Quiet'
  BY <1>4, FailsFinishes, EndQuiet
<1>5. ASSUME NEW p \in Writers, Write(p)
      PROVE  Quiet'
  BY <1>5, WriteQuiet
<1>6. ASSUME NEW p \in Accepters, Accept(p)
      PROVE  Quiet'
  <2>1. p \in Writers
    BY DEF Writers
  <2> HIDE DEF TypeOK, Quiet
  <2>2. QED BY <1>6, <2>1, DecideQuiet
<1>7. ASSUME NEW p \in Updaters, Update(p)
      PROVE  Quiet'
  <2>1. p \in Writers
    BY DEF Writers
  <2> HIDE DEF TypeOK, Quiet
  <2>2. QED BY <1>7, <2>1, DecideQuiet
<1>8. CASE Developer
  BY <1>8, DeveloperQuiet
<1>9. Steps
  BY StepCases
<1> HIDE DEF TypeOK, Quiet
<1>10. QED
  BY <1>1, <1>2, <1>3, <1>4, <1>5, <1>6, <1>7, <1>8, <1>9 DEF Steps

LEMMA QuietInvariance == Spec => [](TypeOK /\ GoneIsEmpty /\ Quiet)
BY InitGone, InitQuiet, StepGone, StepQuiet, TypeCorrect, PTL DEF Spec

\* What a finished, undisturbed write was decided on is what the code says now.
LEMMA EvidenceStands ==
    ASSUME TypeOK, GoneIsEmpty, NEW p \in Writers, Informed(p), todo[p] = {}, NEW k \in Keys
    PROVE  /\ FileOf(k) \in analyzed[p] =>
                 facts[p][k[1]] = code[k[1]] /\ FileOf(k) \in bounds[p] \ config.excluded
           /\ FileOf(k) \notin analyzed[p] => facts[p][k[1]] = Absent
           /\ FileOf(k) \in bounds[p] \ config.excluded /\ code[k[1]] # Absent
                 => FileOf(k) \in analyzed[p]
           /\ status[FileOf(k)] = "gone" => code[k[1]] = Absent
           /\ k[2] \in Guards
           /\ Unique(facts[p][k[1]]) => FileOf(k) \in analyzed[p] /\ Measured(p, k) \in Nat \ {0}
           /\ config.reviewAt[k[2]] \in Nat
<1>1. k[1] \in Selectors /\ k[2] \in Guards /\ FileOf(k) \in Files /\ FileOf(k) = k[1][1]
  BY KeyParts DEF FileOf
<1>2. facts[p][k[1]] = IF FileOf(k) \in analyzed[p] THEN code[k[1]] ELSE Absent
  BY <1>1 DEF Informed
<1>3. analyzed[p] = {f \in bounds[p] \ config.excluded : status[f] # "gone"}
  BY DEF Informed
<1>4. status[FileOf(k)] = "gone" => code[k[1]] = Absent
  BY <1>1 DEF GoneIsEmpty
<1>5. Unique(facts[p][k[1]]) => FileOf(k) \in analyzed[p]
  BY <1>2 DEF Unique
<1>6. Unique(facts[p][k[1]]) => Measured(p, k) \in Nat \ {0}
  BY <1>1, UniqueIsMeasured, CallableAssumption DEF TypeOK, Measured
<1>7. config.reviewAt[k[2]] \in Nat
  BY <1>1, CallableAssumption DEF TypeOK, Policy
<1>8. FileOf(k) \in bounds[p] \ config.excluded /\ code[k[1]] # Absent
        => FileOf(k) \in analyzed[p]
  BY <1>1, <1>3, <1>4
<1>9. QED BY <1>1, <1>2, <1>3, <1>4, <1>5, <1>6, <1>7, <1>8

\* Maintenance that nothing disturbed leaves no slack: a surviving ceiling of a
\* callable still declared allows exactly its measure, and it is needed (update).
THEOREM MaintenanceIsTight == Spec => []UpdateIsTight
<1>1. ASSUME TypeOK, GoneIsEmpty, Quiet, NEW p \in Updaters, pc[p] = "done", quiet[p],
             NEW k \in Keys, baseline[k] # 0, FileOf(k) \in bounds[p] \ config.excluded,
             k[2] \in config.enabled, code[k[1]] # Absent
      PROVE  /\ Unique(code[k[1]])
             /\ baseline[k] = code[k[1]][k[2]]
             /\ baseline[k] > config.reviewAt[k[2]]
  <2>1. /\ p \in Writers /\ Informed(p) /\ Decided(p) /\ baseline = proposed[p]
        /\ policy[p] = config
    BY <1>1 DEF Quiet, UpToDate, Writers, Informed
  <2>2. facts[p][k[1]] = code[k[1]]
    BY <1>1, <2>1, EvidenceStands DEF Decided
  <2>3. baseline[k] = Maintain(p, k) /\ entries[p] # NoBaseline /\ ~Ambiguous(p)
    BY <1>1, <2>1 DEF Decided
  <2>4. entries[p][k] # 0
    BY <1>1, <2>3 DEF Maintain, Maintained
  <2>5. Unique(code[k[1]])
    BY <1>1, <2>1, <2>2, <2>3, <2>4 DEF Ambiguous, Loaded, Unique
  <2>6. Measured(p, k) \in Nat /\ config.reviewAt[k[2]] \in Nat
    BY <1>1, <2>1, <2>2, <2>5, EvidenceStands DEF Decided
  <2>7. QED BY <1>1, <2>1, <2>2, <2>3, <2>4, <2>5, <2>6 DEF Maintain, Maintained, Measured
<1>2. TypeOK /\ GoneIsEmpty /\ Quiet => UpdateIsTight
  BY <1>1 DEF UpdateIsTight
<1>3. QED BY <1>2, QuietInvariance, PTL

\* Maintenance that nothing disturbed removes the ceiling of a callable it has
\* no measure of only when asked to prune, and never because of a file that is
\* there but was not analyzed (update).
THEOREM RemovalsHaveEvidence == Spec => []RemovalNeedsEvidence
<1>1. ASSUME TypeOK, GoneIsEmpty, Quiet, NEW p \in Updaters, pc[p] = "done", quiet[p],
             NEW k \in Keys, entries[p][k] # 0, baseline[k] = 0
      PROVE  /\ FileOf(k) \in bounds[p] /\ k[2] \in config.enabled
             /\ \/ code[k[1]] = Absent /\ prune[p]
                \/ Unique(code[k[1]]) /\ code[k[1]][k[2]] <= config.reviewAt[k[2]]
             /\ status[FileOf(k)] # "gone" => FileOf(k) \notin config.excluded
  <2>1. /\ p \in Writers /\ Informed(p) /\ Decided(p) /\ todo[p] = {}
        /\ policy[p] = config /\ Maintain(p, k) = 0
    BY <1>1 DEF Quiet, UpToDate, Writers, Informed, Decided
  <2>2. Maintained(p, k)
    BY <1>1, <2>1 DEF Maintain
  <2>3. CASE Unique(facts[p][k[1]])
    <3>1. /\ FileOf(k) \in analyzed[p] /\ Measured(p, k) # 0
          /\ facts[p][k[1]] = code[k[1]] /\ FileOf(k) \notin config.excluded
      BY <1>1, <2>1, <2>3, EvidenceStands
    <3>2. Measured(p, k) <= config.reviewAt[k[2]]
      BY <2>1, <2>2, <2>3, <3>1 DEF Maintain
    <3>3. QED BY <2>1, <2>2, <2>3, <3>1, <3>2 DEF Maintained, Measured
  <2>4. CASE ~Unique(facts[p][k[1]])
    <3>1. Stale(p, k) /\ prune[p]
      BY <1>1, <2>1, <2>2, <2>4 DEF Maintain
    <3>2. /\ code[k[1]] = Absent
          /\ status[FileOf(k)] # "gone" => FileOf(k) \notin config.excluded
      BY <1>1, <2>1, <3>1, EvidenceStands DEF Stale
    <3>3. QED BY <2>1, <2>2, <3>1, <3>2 DEF Maintained
  <2>5. QED BY <2>3, <2>4
<1>2. TypeOK /\ GoneIsEmpty /\ Quiet => RemovalNeedsEvidence
  BY <1>1 DEF RemovalNeedsEvidence
<1>3. QED BY <1>2, QuietInvariance, PTL

\* An acceptance that nothing disturbed does what it is for: the callable
\* passes at its ceiling, and one line more would be reviewed again (accept).
THEOREM AcceptancesHold == Spec => []AcceptanceHolds
<1>1. ASSUME TypeOK, GoneIsEmpty, Quiet, NEW p \in Accepters, pc[p] = "done", quiet[p],
             NEW k, k = target[p]
      PROVE  /\ Unique(code[k[1]])
             /\ JudgeCallable(code[k[1]][k[2]], config.reviewAt[k[2]], baseline[k])
                    = Verdict("pass", "withinAllowance")
             /\ JudgeCallable(code[k[1]][k[2]] + 1, config.reviewAt[k[2]], baseline[k])
                    = Verdict("review", "grown")
  <2>1. /\ p \in Writers /\ Informed(p) /\ Acceptable(p, k) /\ baseline[k] = Measured(p, k)
        /\ policy[p] = config /\ todo[p] = {} /\ k \in Keys
    BY <1>1 DEF Quiet, UpToDate, Writers, Informed, Decided, TypeOK
  <2>2. /\ facts[p][k[1]] = code[k[1]] /\ Measured(p, k) \in Nat \ {0}
        /\ config.reviewAt[k[2]] \in Nat
    BY <1>1, <2>1, EvidenceStands DEF Acceptable
  <2>3. /\ Unique(code[k[1]]) /\ Measured(p, k) = code[k[1]][k[2]]
        /\ Measured(p, k) > config.reviewAt[k[2]]
    BY <2>1, <2>2 DEF Acceptable, Measured
  <2>4. QED BY <2>1, <2>2, <2>3 DEF JudgeCallable, Verdict
<1>2. TypeOK /\ GoneIsEmpty /\ Quiet => AcceptanceHolds
  BY <1>1 DEF AcceptanceHolds
<1>3. QED BY <1>2, QuietInvariance, PTL
=============================================================================
