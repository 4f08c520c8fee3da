----------------------------- MODULE Main_proofs -----------------------------
(***************************************************************************)
(* Proofs about main() of code_guard.py, for any values of the constants.  *)
(* The mode it picks (CommandLine): nothing asked for is ignored, doctor   *)
(* is truthful, the version file seals an exported skill and files of      *)
(* others are kept.  The analysis (AnalysisRun): no allowance comes        *)
(* through a link, exit 0 accounts for every file, and missing evidence is *)
(* never outvoted.                                                         *)
(***************************************************************************)
EXTENDS AnalysisRun, CommandLine, FiniteSetTheorems, TLAPS

---------------------------------------------------------------------------
(* --export-skill                                                          *)

Contents == Versions \cup {Absent, "empty", "foreign"}
ExportSteps == {"check", "locate", "open", "fill", "done", "failed"}

ExportTypes ==
    /\ installed \in Versions \cup {Absent}
    /\ payload \subseteq Range(Payload)
    /\ kind \in {"missing", "file", "directory"}
    /\ target \in [Names -> Contents]
    /\ step \in [Exporters -> ExportSteps]
    /\ index \in [Exporters -> 0..Len(Written)]
    /\ writers \subseteq Exporters /\ IsFiniteSet(writers)
    /\ upgraded \in BOOLEAN

\* How far an exporter has come.
Progress(p) ==
    /\ step[p] \in {"check", "locate"} => p \notin writers
    /\ step[p] \in {"open", "fill"} => index[p] < Len(Written)
    /\ step[p] \in {"fill", "done"} \/ index[p] > 0 => p \in writers
    /\ step[p] = "done" => index[p] = Len(Written)

\* What is not there yet when an exporter starts is there late.
Watched ==
    /\ kind # "directory" => \A f \in Names : target[f] = Absent
    /\ (\E p \in Exporters : Running(p)) =>
          /\ kind = "directory"
          /\ \A f \in Names : target[f] = "foreign" => f \in late

\* What the only writer has written.
Held(p) ==
    /\ \A i, j \in 1..index[p] : target[Written[i]] = target[Written[j]]
    /\ \A i \in 1..index[p] : target[Written[i]] \in Versions
    /\ Running(p) => \A i \in 1..index[p] : target[Written[i]] = installed
    /\ target[Marker] \in Versions => index[p] = Len(Written)

SealInv ==
    /\ \A p \in Exporters : Progress(p)
    /\ writers = {} => target[Marker] \notin Versions
    /\ \A p \in Exporters : writers = {p} /\ ~upgraded /\ late = {} => Held(p)

ExportInv == ExportTypes /\ Watched /\ SealInv

LEMMA WrittenFacts ==
    /\ Written \in Seq(Names) /\ Len(Written) \in Nat /\ Len(Written) > 0
    /\ DOMAIN Written = 1..Len(Written)
    /\ \A i \in 1..Len(Written) : Written[i] \in Names
    /\ \A i \in 1..Len(Written) : Written[i] = Marker <=> i = Len(Written)
    /\ \A i, j \in 1..Len(Written) : Written[i] = Written[j] => i = j
    /\ \A f \in Range(Payload) : \E i \in 1..Len(Written) : Written[i] = f
<1>1. /\ Payload \in Seq(Names) /\ Marker \in Names
      /\ Len(Payload) \in Nat /\ DOMAIN Payload = 1..Len(Payload)
      /\ \A i \in 1..Len(Payload) : Payload[i] \in Range(Payload)
      /\ \A f \in Range(Payload) : \E i \in 1..Len(Payload) : Payload[i] = f
  BY ExportAssumption DEF Names, Range
<1>2. /\ Written \in Seq(Names) /\ Len(Written) = Len(Payload) + 1
      /\ Written[Len(Payload) + 1] = Marker
      /\ \A i \in 1..Len(Payload) : Written[i] = Payload[i]
  BY <1>1 DEF Written
<1>3. \A i \in 1..Len(Written) : i = Len(Written) \/ i \in 1..Len(Payload)
  BY <1>1, <1>2
<1>4. \A i, j \in 1..Len(Payload) : Payload[i] = Payload[j] => i = j
  BY <1>1, ExportAssumption
<1>5. \A i \in 1..Len(Payload) : Payload[i] # Marker
  BY <1>1, ExportAssumption
<1>6. \A i, j \in 1..Len(Written) : Written[i] = Written[j] => i = j
  BY <1>1, <1>2, <1>3, <1>4, <1>5
<1>7. \A f \in Range(Payload) : \E i \in 1..Len(Written) : Written[i] = f
  <2>1. SUFFICES ASSUME NEW f \in Range(Payload)
                 PROVE  \E i \in 1..Len(Written) : Written[i] = f
    OBVIOUS
  <2>2. PICK i \in 1..Len(Payload) : Payload[i] = f
    BY <1>1
  <2>3. QED BY <1>1, <1>2, <2>2
<1>8. \A i \in 1..Len(Written) : Written[i] \in Names /\ (Written[i] = Marker <=> i = Len(Written))
  BY <1>1, <1>2, <1>3, <1>5
<1>9. Len(Written) \in Nat /\ Len(Written) > 0 /\ DOMAIN Written = 1..Len(Written)
  BY <1>1, <1>2
<1>10. QED
  BY <1>2, <1>6, <1>7, <1>8, <1>9

LEMMA LengthFact == Len(Written) \in Nat /\ Len(Written) > 0
BY WrittenFacts

LEMMA ItemFacts ==
    ASSUME ExportTypes, NEW p \in Exporters, index[p] < Len(Written)
    PROVE  /\ index[p] \in Nat /\ index[p] + 1 \in 1..Len(Written)
           /\ Item(p) = Written[index[p] + 1] /\ Item(p) \in Names
           /\ \A i \in 1..index[p] : Written[i] # Item(p)
           /\ Item(p) = Marker => index[p] + 1 = Len(Written)
<1>1. index[p] \in 0..Len(Written) /\ Len(Written) \in Nat
  BY WrittenFacts DEF ExportTypes
<1>2. index[p] \in Nat /\ index[p] + 1 \in 1..Len(Written)
  BY <1>1
<1>3. Item(p) = Written[index[p] + 1]
  BY DEF Item
<1>4. \A i \in 1..index[p] : i \in 1..Len(Written) /\ i # index[p] + 1
  BY <1>1
<1>5. QED
  BY <1>2, <1>3, <1>4, WrittenFacts

\* What an upgrade leaves there.
Offered(version, files) == version \in Versions \cup {Absent} /\ files \subseteq Range(Payload)

ExportStepOrOther ==
    \/ \E p \in Exporters : Export(p)
    \/ \E version, files : Offered(version, files) /\ Install(version, files)
    \/ \E f \in Names : PutFile(f)
    \/ UNCHANGED exportVars

LEMMA InitExport == ExportInit => ExportInv
<1> SUFFICES ASSUME ExportInit PROVE ExportInv
  OBVIOUS
<1>1. ExportTypes
  <2>1. installed \in Versions \cup {Absent} /\ payload \subseteq Range(Payload)
    BY ExportAssumption DEF ExportInit
  <2>2. 0 \in 0..Len(Written)
    BY LengthFact
  <2>3. index \in [Exporters -> 0..Len(Written)]
    BY <2>2 DEF ExportInit
  <2>4. target \in [Names -> Contents] /\ step \in [Exporters -> ExportSteps]
    BY DEF ExportInit, Contents, ExportSteps
  <2>5. IsFiniteSet(writers)
    BY FS_EmptySet DEF ExportInit
  <2>6. QED
    BY <2>1, <2>3, <2>4, <2>5 DEF ExportInit, ExportTypes
<1>2. Watched
  BY DEF ExportInit, Watched, Running
<1>3. Marker \in Names
  BY DEF Names
<1>4. SealInv
  <2>1. target[Marker] \notin Versions
    BY <1>3, ExportAssumption DEF ExportInit
  <2>2. \A p \in Exporters : step[p] = "check" /\ index[p] = 0 /\ p \notin writers
    BY DEF ExportInit
  <2>3. \A p \in Exporters : Progress(p)
    BY <2>2 DEF Progress
  <2>4. QED BY <2>1, <2>2, <2>3 DEF SealInv
<1>5. QED BY <1>1, <1>2, <1>4 DEF ExportInv

LEMMA StepTypesExport ==
    ASSUME ExportInv, ExportStepOrOther
    PROVE  ExportTypes'
<1> USE DEF ExportInv, ExportTypes, Contents, ExportSteps
<1>1. ASSUME NEW p \in Exporters, Export(p)
      PROVE  ExportTypes'
  <2>1. CASE CheckTarget(p) \/ RefuseTarget(p) \/ Locate(p) \/ PayloadMissing(p)
             \/ Unavailable(p) \/ Stop(p)
    BY <2>1 DEF CheckTarget, RefuseTarget, Locate, PayloadMissing, Unavailable, Stop,
       Abandon, GoOn, package, directory, exportHistory
  <2>2. CASE Open(p)
    <3>1. IsFiniteSet(writers')
      BY <2>2, FS_AddElement DEF Open
    <3>2. QED BY <2>2, <3>1 DEF Open, GoOn, package
  <2>3. CASE Fill(p)
    <3>1. index[p] \in 0..Len(Written) /\ Len(Written) \in Nat
      BY WrittenFacts
    <3>2. index' = [index EXCEPT ![p] = index[p] + 1]
      BY <2>3 DEF Fill
    <3>3. index[p] + 1 \in 0..Len(Written)
      BY <2>3, <3>1 DEF Fill, SealInv, Progress
    <3>4. QED BY <2>3, <3>2, <3>3 DEF Fill, GoOn, package, exportHistory
  <2>4. QED BY <1>1, <2>1, <2>2, <2>3 DEF Export
<1>2. ASSUME NEW version, NEW files, Offered(version, files), Install(version, files)
      PROVE  ExportTypes'
  BY <1>2 DEF Offered, Install, directory, progress
<1>3. ASSUME NEW f \in Names, PutFile(f)
      PROVE  ExportTypes'
  BY <1>3 DEF PutFile, package, progress
<1>4. CASE UNCHANGED exportVars
  BY <1>4 DEF exportVars, package, directory, progress, exportHistory
<1>5. QED BY <1>1, <1>2, <1>3, <1>4 DEF ExportStepOrOther

LEMMA StepWatched ==
    ASSUME ExportTypes, Watched, ExportStepOrOther
    PROVE  Watched'
<1> USE DEF ExportTypes, Watched, Running
<1>1. ASSUME NEW p \in Exporters, Export(p)
      PROVE  Watched'
  <2>1. CASE CheckTarget(p)
    BY <2>1, ExportAssumption DEF CheckTarget, GoOn, package, exportHistory, Usable
  <2>2. CASE RefuseTarget(p) \/ PayloadMissing(p) \/ Unavailable(p) \/ Stop(p)
    BY <2>2 DEF RefuseTarget, PayloadMissing, Unavailable, Stop, Abandon, GoOn, directory,
       exportHistory
  <2>3. CASE Locate(p)
    BY <2>3 DEF Locate, GoOn, directory, exportHistory
  <2>4. CASE Open(p)
    BY <2>4 DEF Open, GoOn
  <2>5. CASE Fill(p)
    BY <2>5, ExportAssumption DEF Fill, GoOn, exportHistory
  <2>6. QED BY <1>1, <2>1, <2>2, <2>3, <2>4, <2>5 DEF Export
<1>2. ASSUME NEW version, NEW files, Offered(version, files), Install(version, files)
      PROVE  Watched'
  BY <1>2 DEF Install, directory, progress
<1>3. ASSUME NEW f \in Names, PutFile(f)
      PROVE  Watched'
  BY <1>3 DEF PutFile, progress
<1>4. CASE UNCHANGED exportVars
  BY <1>4 DEF exportVars, package, directory, progress, exportHistory
<1>5. QED BY <1>1, <1>2, <1>3, <1>4 DEF ExportStepOrOther

\* A step of one exporter leaves the others where they are.
LEMMA OneMoves ==
    ASSUME ExportTypes, NEW p \in Exporters, Export(p), NEW q \in Exporters, q # p
    PROVE  step'[q] = step[q] /\ index'[q] = index[q]
BY DEF ExportTypes, Export, CheckTarget, RefuseTarget, Locate, PayloadMissing, Open, Unavailable,
   Fill, Stop, Abandon, GoOn

LEMMA ExportProgresses ==
    ASSUME ExportInv, NEW p \in Exporters, Export(p)
    PROVE  \A q \in Exporters : Progress(q)'
<1> USE DEF ExportInv, ExportTypes, SealInv, Progress
<1>1. \A q \in Exporters : index[q] \in 0..Len(Written) /\ Len(Written) \in Nat
  BY LengthFact
<1>2. writers' \in {writers, writers \cup {p}}
  BY DEF Export, CheckTarget, RefuseTarget, Locate, PayloadMissing, Open, Unavailable, Fill, Stop,
     Abandon, exportHistory
<1>3. Progress(p)'
  <2>1. CASE CheckTarget(p) \/ Locate(p)
    BY <1>1, <2>1, LengthFact DEF CheckTarget, Locate, GoOn, exportHistory
  <2>2. CASE RefuseTarget(p) \/ PayloadMissing(p) \/ Unavailable(p) \/ Stop(p)
    BY <2>2 DEF RefuseTarget, PayloadMissing, Unavailable, Stop, Abandon, GoOn, exportHistory
  <2>3. CASE Open(p)
    BY <2>3 DEF Open, GoOn
  <2>4. CASE Fill(p)
    <3>1. index'[p] = index[p] + 1 /\ writers' = writers /\ p \in writers
      BY <2>4 DEF Fill, exportHistory
    <3>2. step'[p] = IF index[p] + 1 = Len(Written) THEN "done" ELSE "open"
      BY <2>4 DEF Fill, GoOn
    <3>3. index[p] < Len(Written)
      BY <2>4 DEF Fill
    <3>4. QED BY <1>1, <3>1, <3>2, <3>3
  <2>5. QED BY <2>1, <2>2, <2>3, <2>4 DEF Export
<1>4. ASSUME NEW q \in Exporters, q # p
      PROVE  Progress(q)'
  <2>1. step'[q] = step[q] /\ index'[q] = index[q] /\ (q \in writers' <=> q \in writers)
    BY <1>2, <1>4, OneMoves
  <2>2. Progress(q)
    OBVIOUS
  <2>3. QED BY <2>1, <2>2
<1>5. QED BY <1>3, <1>4

\* The files of the only writer stay what they are, whoever else does what.
LEMMA HeldKept ==
    ASSUME ExportInv, NEW p \in Exporters, Held(p),
           index'[p] = index[p], Running(p)' => Running(p) /\ installed' = installed,
           \A f \in Names : target'[f] # target[f] =>
               /\ target[f] = Absent \/ \A i \in 1..index[p] : Written[i] # f
               /\ target'[f] \notin Versions
    PROVE  Held(p)'
<1>1. index[p] \in 0..Len(Written) /\ Len(Written) \in Nat /\ Marker \in Names
  BY WrittenFacts DEF ExportInv, ExportTypes, Names
<1>2. ASSUME NEW i \in 1..index[p]
      PROVE  target'[Written[i]] = target[Written[i]]
  <2>1. i \in 1..Len(Written)
    BY <1>1
  <2>2. Written[i] \in Names
    BY <2>1, WrittenFacts
  <2>3. target[Written[i]] \in Versions
    BY DEF Held
  <2>4. target[Written[i]] # Absent
    BY <2>3, ExportAssumption
  <2>5. QED BY <2>2, <2>4
<1>3. target'[Marker] \in Versions => target[Marker] \in Versions
  BY <1>1
<1>4. QED BY <1>2, <1>3 DEF Held

\* Whatever is stored in Names by a step of p that is its alone to make.
LEMMA HoldsOn ==
    ASSUME ExportInv, NEW p \in Exporters, Export(p),
           writers' = {p}, ~upgraded', late' = {}
    PROVE  Held(p)'
<1>1. /\ upgraded' = upgraded /\ late' = late
      /\ writers \in {{}, {p}}
  BY DEF Export, CheckTarget, RefuseTarget, Locate, PayloadMissing, Open, Unavailable, Fill, Stop,
     Abandon, exportHistory, ExportInv, ExportTypes
<1>2. CASE writers = {}
  <2>1. Open(p)
    BY <1>2 DEF Export, CheckTarget, RefuseTarget, Locate, PayloadMissing, Unavailable, Fill,
       Stop, Abandon, exportHistory
  <2>2. index[p] = 0 /\ index' = index /\ target[Marker] \notin Versions
    BY <1>2, <2>1 DEF Open, ExportInv, SealInv, Progress, ExportTypes
  <2>3. target'[Marker] \notin Versions
    BY <2>1, <2>2, ExportAssumption DEF Open, ExportInv, ExportTypes, Names
  <2>4. QED BY <2>2, <2>3 DEF Held
<1>3. CASE writers = {p}
  <2>1. Held(p)
    BY <1>1, <1>3 DEF ExportInv, SealInv
  <2>2. CASE ~Open(p) /\ ~Fill(p)
    <3>1. step[p] \notin {"check", "locate"}
      BY <1>3 DEF ExportInv, SealInv, Progress
    <3>2. RefuseTarget(p) \/ Unavailable(p) \/ PayloadMissing(p) \/ Stop(p)
      BY <2>2, <3>1 DEF Export, CheckTarget, Locate
    <3>3. UNCHANGED <<index, target, installed>> /\ ~Running(p)'
      BY <3>2 DEF RefuseTarget, PayloadMissing, Unavailable, Stop, Abandon, GoOn, Running,
         ExportInv, ExportTypes, package, directory
    <3>4. QED BY <2>1, <3>3, HeldKept
  <2>3. CASE Open(p)
    <3>1. index[p] < Len(Written)
      BY <2>3 DEF Open, ExportInv, SealInv, Progress
    <3>2. \A i \in 1..index[p] : Written[i] # Item(p)
      BY <3>1, ItemFacts DEF ExportInv
    <3>3. "empty" \notin Versions
      BY ExportAssumption
    <3>4. \A f \in Names : target'[f] # target[f] => f = Item(p) /\ target'[f] = "empty"
      BY <2>3 DEF Open, ExportInv, ExportTypes
    <3>5. index' = index /\ installed' = installed /\ Running(p)
      BY <2>3 DEF Open, package, Running
    <3>6. QED BY <2>1, <3>2, <3>3, <3>4, <3>5, HeldKept
  <2>4. CASE Fill(p)
    <3>1. index[p] < Len(Written)
      BY <2>4 DEF Fill, ExportInv, SealInv, Progress
    <3>2. /\ index[p] \in Nat /\ index[p] + 1 \in 1..Len(Written)
          /\ Item(p) = Written[index[p] + 1] /\ Item(p) \in Names
          /\ \A i \in 1..index[p] : Written[i] # Item(p)
          /\ Item(p) = Marker => index[p] + 1 = Len(Written)
      BY <3>1, ItemFacts DEF ExportInv
    <3>3. /\ installed \in Versions /\ installed' = installed
          /\ index'[p] = index[p] + 1
          /\ target' = [target EXCEPT ![Item(p)] = installed]
      BY <2>4 DEF Fill, package, ExportInv, ExportTypes
    <3>4. \A i \in 1..index[p] : target[Written[i]] = installed /\ Written[i] \in Names
      <4>1. \A i \in 1..index[p] : i \in 1..Len(Written)
        BY <3>2
      <4>2. QED BY <2>1, <2>4, <4>1, WrittenFacts DEF Held, Running, Fill
    <3>5. \A i \in 1..index[p] + 1 : target'[Written[i]] = installed
      BY <3>2, <3>3, <3>4 DEF ExportInv, ExportTypes
    <3>6. target'[Marker] \in Versions => index[p] + 1 = Len(Written)
      <4>1. CASE Item(p) = Marker
        BY <3>2, <4>1
      <4>2. CASE Item(p) # Marker
        <5>1. target'[Marker] = target[Marker]
          BY <3>3, <4>2
        <5>2. index[p] # Len(Written)
          BY <3>1
        <5>3. QED BY <2>1, <5>1, <5>2 DEF Held
      <4>3. QED BY <4>1, <4>2
    <3>7. QED BY <3>3, <3>5, <3>6 DEF Held
  <2>5. QED BY <2>2, <2>3, <2>4
<1>4. QED BY <1>1, <1>2, <1>3

LEMMA StepSeal ==
    ASSUME ExportInv, ExportTypes', Watched', ExportStepOrOther
    PROVE  SealInv'
<1>1. ASSUME NEW p \in Exporters, Export(p)
      PROVE  SealInv'
  <2>1. \A q \in Exporters : Progress(q)'
    BY <1>1, ExportProgresses
  <2>2. writers' = {} => target'[Marker] \notin Versions
    BY <1>1 DEF Export, CheckTarget, RefuseTarget, Locate, PayloadMissing, Open, Unavailable, Fill,
       Stop, Abandon, exportHistory, directory, ExportInv, SealInv, Progress
  <2>3. ASSUME NEW q \in Exporters, writers' = {q}, ~upgraded', late' = {}
        PROVE  Held(q)'
    <3>1. CASE q = p
      BY <1>1, <2>3, <3>1, HoldsOn
    <3>2. CASE q # p
      <4>1. writers = {q} /\ ~upgraded /\ late = {} /\ p \notin writers'
        BY <1>1, <2>3, <3>2 DEF Export, CheckTarget, RefuseTarget, Locate, PayloadMissing, Open,
           Unavailable, Fill, Stop, Abandon, exportHistory, ExportInv, SealInv, Progress
      <4>2. UNCHANGED <<package, target>>
        BY <1>1, <2>3, <4>1 DEF Export, CheckTarget, RefuseTarget, Locate, PayloadMissing, Open,
           Unavailable, Fill, Stop, Abandon, package, directory, exportHistory, ExportInv, SealInv,
           Progress
      <4>3. step'[q] = step[q] /\ index'[q] = index[q]
        BY <1>1, <3>2, OneMoves DEF ExportInv
      <4>4. Held(q)
        BY <4>1 DEF ExportInv, SealInv
      <4>5. QED BY <4>2, <4>3, <4>4 DEF Held, Running, package
    <3>3. QED BY <3>1, <3>2
  <2>4. QED BY <2>1, <2>2, <2>3 DEF SealInv
<1>2. ASSUME NEW version, NEW files, Offered(version, files), Install(version, files)
      PROVE  SealInv'
  <2>1. UNCHANGED <<kind, target, step, index, writers, late>>
    BY <1>2 DEF Install, directory, progress
  <2>2. ASSUME NEW q \in Exporters, writers' = {q}, ~upgraded', late' = {}
        PROVE  Held(q)'
    <3>1. Held(q) /\ ~Running(q)
      BY <1>2, <2>1, <2>2 DEF Install, ExportInv, SealInv
    <3>2. QED BY <2>1, <3>1 DEF Held, Running
  <2>3. QED BY <2>1, <2>2 DEF ExportInv, SealInv, Progress
<1>3. ASSUME NEW f \in Names, PutFile(f)
      PROVE  SealInv'
  <2>1. /\ UNCHANGED <<installed, step, index, writers, upgraded>>
        /\ target[f] = Absent /\ target' = [target EXCEPT ![f] = "foreign"]
    BY <1>3 DEF PutFile, package, progress
  <2>2. "foreign" \notin Versions
    BY ExportAssumption
  <2>3. target'[Marker] \in Versions => target[Marker] \in Versions
    BY <2>1, <2>2 DEF ExportInv, ExportTypes, Names
  <2>4. ASSUME NEW q \in Exporters, writers' = {q}, ~upgraded', late' = {}
        PROVE  Held(q)'
    <3>1. Held(q)
      BY <1>3, <2>1, <2>4 DEF PutFile, ExportInv, SealInv
    <3>2. \A g \in Names : target'[g] # target[g] => target[g] = Absent /\ target'[g] = "foreign"
      BY <2>1 DEF ExportInv, ExportTypes
    <3>3. QED BY <2>1, <2>2, <3>1, <3>2, HeldKept DEF Running
  <2>5. QED BY <2>1, <2>3, <2>4 DEF ExportInv, SealInv, Progress
<1>4. CASE UNCHANGED exportVars
  BY <1>4 DEF exportVars, package, directory, progress, exportHistory, ExportInv, SealInv,
     Progress, Held, Running
<1>5. QED BY <1>1, <1>2, <1>3, <1>4 DEF ExportStepOrOther

---------------------------------------------------------------------------
(* The mode                                                                *)

Phases == {"parse", "baseline", "doctor", "check", "version", "management", "export", "end"}

CommandTypes ==
    /\ given \subseteq Options /\ paths \in Paths /\ faults \subseteq Faults
    /\ phase \in Phases
    /\ found \in Versions \cup {Absent}
    /\ report \in Seq({"ok", "unavailable"})
    /\ moved \in BOOLEAN

\* What the modes already passed over have ruled out.
Sieved ==
    /\ phase \notin {"parse", "end"} => "help" \notin given
    /\ phase \in {"doctor", "check", "version", "management", "export"} =>
          given \cap (Writes \cup {"reason", "prune"}) = {}
    /\ phase = "check" => /\ paths = "doctor" /\ given \cap (Modes \cup Shared) = {}
                          /\ "workingDirectory" \notin faults
    /\ phase \in {"version", "management", "export"} => paths \notin FirstToken
    /\ phase \in {"management", "export"} => "version" \notin given
    /\ phase = "export" => /\ paths = "none" /\ Managing = {"exportSkill"}
                           /\ given \cap (Shared \cup {"json"}) = {}
    /\ phase # "end" => did = "none"
    /\ phase \notin {"check", "end"} => report = <<>> /\ found = Absent

\* A check's part of the installation is in order as it is now.
InOrder(check) ==
    /\ check \in {"distribution", "entryPoint"} => installed # Absent
    /\ check = "entryPoint" => "launcher" \notin faults
    /\ check = "skill" => Complete
    /\ check \notin faults

\* What doctor has found so far is how things still are.
Diagnosed ==
    phase = "check" /\ ~moved =>
        /\ Len(report) <= Len(Checks)
        /\ Len(report) > 0 => found = installed
        /\ \A i \in 1..Len(report) : report[i] = "ok" <=> InOrder(Checks[i])

CommandInv ==
    /\ ExportInv
    /\ CommandTypes
    /\ Sieved
    /\ Diagnosed
    /\ NothingIgnored
    /\ DoctorTruthful

LEMMA WritesFinite ==
    ASSUME NEW S
    PROVE  IsFiniteSet(S \cap Writes) /\ IsFiniteSet({"skillPath", "exportSkill"} \cap S)
<1>1. IsFiniteSet({}) /\ IsFiniteSet({"skillPath"})
  BY FS_EmptySet, FS_Singleton
<1>2. IsFiniteSet({"skillPath"} \cup {"exportSkill"})
  BY <1>1, FS_AddElement
<1>3. ASSUME NEW T, NEW x, NEW y, T = {x, y}
      PROVE  IsFiniteSet(T)
  <2>1. IsFiniteSet({x})
    BY FS_Singleton
  <2>2. IsFiniteSet({x} \cup {y})
    BY <2>1, FS_AddElement
  <2>3. T = {x} \cup {y}
    BY <1>3
  <2>4. QED BY <2>2, <2>3
<1>4. IsFiniteSet(LocWrites) /\ IsFiniteSet(MarkdownWrites) /\ IsFiniteSet(CallableWrites)
  BY <1>3 DEF LocWrites, MarkdownWrites, CallableWrites
<1>5. IsFiniteSet(Writes)
  BY <1>4, FS_Union DEF Writes
<1>6. IsFiniteSet({"skillPath", "exportSkill"})
  BY <1>3
<1>7. QED BY <1>5, <1>6, FS_Subset

LEMMA InitCommand == CommandInit => CommandInv
<1> SUFFICES ASSUME CommandInit PROVE CommandInv
  OBVIOUS
<1>1. ExportInv
  BY InitExport DEF CommandInit
<1>2. CommandTypes
  <2>1. given \subseteq Options /\ paths \in Paths /\ faults \subseteq Faults
    BY DEF CommandInit
  <2>2. report = <<>> /\ found = Absent /\ phase = "parse" /\ moved = FALSE
    BY DEF CommandInit
  <2>3. <<>> \in Seq({"ok", "unavailable"})
    OBVIOUS
  <2>4. QED BY <2>1, <2>2, <2>3 DEF CommandTypes, Phases
<1>3. QED
  BY <1>1, <1>2 DEF CommandInit, CommandInv, Sieved, Diagnosed, NothingIgnored, DoctorTruthful

\* Steps that only move on to the next mode, or refuse.
LEMMA RefusalKeeps ==
    ASSUME CommandInv, phase # "end", Refuse
    PROVE  CommandInv'
<1>1. UNCHANGED exportVars /\ UNCHANGED <<given, paths, faults, found, report, moved>>
      /\ phase' = "end" /\ did' = "error"
  BY DEF Refuse, End
<1>2. ExportInv'
  BY <1>1, StepTypesExport, StepWatched, StepSeal DEF CommandInv, ExportInv, ExportStepOrOther
<1>3. QED
  BY <1>1, <1>2 DEF CommandInv, CommandTypes, Phases, Sieved, Diagnosed, NothingIgnored,
     DoctorTruthful, Managing

LEMMA ExportKept ==
    ASSUME ExportInv, ExportStepOrOther
    PROVE  ExportInv'
BY StepTypesExport, StepWatched, StepSeal DEF ExportInv

LEMMA ParseKeeps ==
    ASSUME CommandInv, ParseArguments
    PROVE  CommandInv'
<1>1. CASE Refuse
  BY <1>1, RefusalKeeps DEF ParseArguments
<1>2. CASE "help" \notin given /\ Consider("baseline")
  <2>1. ExportInv'
    BY <1>2, ExportKept DEF Consider, CommandInv, ExportStepOrOther
  <2>2. QED
    BY <1>2, <2>1 DEF Consider, ParseArguments, CommandInv, CommandTypes, Phases, Sieved, Diagnosed,
       NothingIgnored, DoctorTruthful
<1>3. CASE "version" \notin given /\ End("help", 0)
  <2>1. ExportInv'
    BY <1>3, ExportKept DEF End, CommandInv, ExportStepOrOther
  <2>2. QED
    BY <1>3, <2>1 DEF End, CommandInv, CommandTypes, Phases, Sieved, Diagnosed, NothingIgnored,
       DoctorTruthful, Managing
<1>4. QED BY <1>1, <1>2, <1>3 DEF ParseArguments

LEMMA BaselineKeeps ==
    ASSUME CommandInv, BaselineMode
    PROVE  CommandInv'
<1>1. CASE Refuse
  BY <1>1, RefusalKeeps DEF BaselineMode
<1>2. CASE ~Unattached /\ given \cap Writes = {} /\ Consider("doctor")
  <2>1. ExportInv'
    BY <1>2, ExportKept DEF Consider, CommandInv, ExportStepOrOther
  <2>2. given \cap (Writes \cup {"reason", "prune"}) = {}
    BY <1>2 DEF Unattached, Writes, CallableWrites
  <2>3. QED
    BY <1>2, <2>1, <2>2 DEF Consider, BaselineMode, CommandInv, CommandTypes, Phases, Sieved,
       Diagnosed, NothingIgnored, DoctorTruthful
<1>3. ASSUME NEW code \in {0, 3}, ~Unattached, given \cap Writes # {}, ~NotForWriting,
             ~NotForCallables, End(CHOOSE w \in Writes : w \in given, code), phase = "baseline"
      PROVE  CommandInv'
  <2>1. PICK w \in Writes : given \cap Writes = {w}
    BY <1>3, WritesFinite, FS_Singleton DEF NotForWriting
  <2>2. did' = w /\ phase' = "end" /\ UNCHANGED <<exportVars, given, paths, faults, found, report, moved>>
    BY <1>3, <2>1 DEF End
  <2>3. ExportInv'
    BY <2>2, ExportKept DEF CommandInv, ExportStepOrOther
  <2>4. ASSUME NEW option \in given
        PROVE  ReadsOption(w, option)
    <3>1. option \in {w, "config", "loc", "scopeExclude", "reason", "prune"}
      BY <1>3, <2>1, <2>4 DEF NotForWriting, CommandInv, CommandTypes, Sieved, Options
    <3>2. option = "loc" => w \in LocWrites
      BY <1>3, <2>1 DEF NotForWriting, Writes
    <3>3. (option = "reason" => w = "accept") /\ (option = "prune" => w = "updateCallable")
      BY <1>3, <2>1 DEF Unattached, Writes, CallableWrites
    <3>4. QED BY <3>1, <3>2, <3>3 DEF ReadsOption, Walks
  <2>5. NothingIgnored'
    <3>1. paths # "doctor" /\ w \in Walks
      BY <1>3, <2>1 DEF NotForWriting, DoctorPaths, FirstToken, Walks
    <3>2. \A option \in given' : ReadsOption(did', option)
      BY <2>2, <2>4
    <3>3. QED BY <2>2, <3>1, <3>2 DEF NothingIgnored, ReadsOption
  <2>6. w # "doctor"
    BY DEF Writes, LocWrites, MarkdownWrites, CallableWrites
  <2>7. QED
    BY <2>2, <2>3, <2>5, <2>6 DEF CommandInv, CommandTypes, Phases, Sieved, Diagnosed,
       DoctorTruthful, Managing
<1>4. QED BY <1>1, <1>2, <1>3 DEF BaselineMode

LEMMA DoctorKeeps ==
    ASSUME CommandInv, DoctorMode
    PROVE  CommandInv'
<1>1. CASE Refuse
  BY <1>1, RefusalKeeps DEF DoctorMode
<1>2. CASE paths \notin FirstToken /\ Consider("version")
  <2>1. ExportInv'
    BY <1>2, ExportKept DEF Consider, CommandInv, ExportStepOrOther
  <2>2. QED
    BY <1>2, <2>1 DEF Consider, DoctorMode, CommandInv, CommandTypes, Phases, Sieved,
       Diagnosed, NothingIgnored, DoctorTruthful
<1>3. CASE /\ paths = "doctor" /\ given \cap (Modes \cup Shared) = {}
           /\ "workingDirectory" \notin faults /\ Consider("check")
  <2>1. ExportInv'
    BY <1>3, ExportKept DEF Consider, CommandInv, ExportStepOrOther
  <2>2. report = <<>>
    BY DEF CommandInv, DoctorMode, Sieved
  <2>3. Diagnosed'
    BY <1>3, <2>2 DEF Consider, Diagnosed, Checks
  <2>4. QED
    BY <1>3, <2>1, <2>3 DEF Consider, DoctorMode, CommandInv, CommandTypes, Phases, Sieved,
       NothingIgnored, DoctorTruthful
<1>4. QED BY <1>1, <1>2, <1>3 DEF DoctorMode

LEMMA ChecksAre == Len(Checks) = 7 /\ DOMAIN Checks = 1..7 /\ Checks[1] = "distribution"
BY DEF Checks

LEMMA OnlyFirst == \A i \in 2..7 : Checks[i] # "distribution"
BY DEF Checks

LEMMA SafeCheckKeeps ==
    ASSUME CommandInv, SafeCheck
    PROVE  CommandInv'
<1> DEFINE n == Len(report) + 1
<1>1. /\ phase = "check" /\ Len(report) < 7
      /\ report' = Append(report, IF Sound(Checks[n]) THEN "ok" ELSE "unavailable")
      /\ found' = IF Checks[n] = "distribution" THEN installed ELSE found
      /\ UNCHANGED <<exportVars, given, paths, faults, phase, did, returned, moved>>
  BY ChecksAre DEF SafeCheck
<1>2. ExportInv'
  BY <1>1, ExportKept DEF CommandInv, ExportStepOrOther
<1>3. /\ Len(report) \in Nat /\ report' \in Seq({"ok", "unavailable"})
      /\ Len(report') = n /\ n \in 1..7
      /\ report'[n] = IF Sound(Checks[n]) THEN "ok" ELSE "unavailable"
      /\ \A i \in 1..Len(report) : report'[i] = report[i]
  BY <1>1 DEF CommandInv, CommandTypes
<1>4. CommandTypes'
  BY <1>1, <1>3 DEF CommandInv, CommandTypes, ExportInv, ExportTypes
<1>5. Diagnosed'
  <2>1. SUFFICES ASSUME ~moved
                 PROVE  /\ found' = installed
                        /\ \A i \in 1..n : report'[i] = "ok" <=> InOrder(Checks[i])
    BY <1>1, <1>3, ChecksAre DEF Diagnosed, InOrder, exportVars, package, Complete
  <2>2. /\ Len(report) > 0 => found = installed
        /\ \A i \in 1..Len(report) : report[i] = "ok" <=> InOrder(Checks[i])
    BY <1>1, <2>1 DEF CommandInv, Diagnosed
  <2>3. found' = installed
    BY <1>1, <1>3, <2>2, ChecksAre
  <2>4. Sound(Checks[n]) <=> InOrder(Checks[n])
    <3>1. CASE n = 1
      BY <3>1, ChecksAre DEF Sound, InOrder
    <3>2. CASE n # 1
      BY <1>3, <2>2, <3>2, OnlyFirst DEF Sound, InOrder
    <3>3. QED BY <3>1, <3>2
  <2>5. \A i \in 1..n : i = n \/ i \in 1..Len(report)
    BY <1>3
  <2>6. QED BY <1>3, <2>2, <2>3, <2>4, <2>5
<1>6. QED
  BY <1>1, <1>2, <1>4, <1>5 DEF CommandInv, Sieved, NothingIgnored, DoctorTruthful

LEMMA DoctorReportKeeps ==
    ASSUME CommandInv, DoctorReport
    PROVE  CommandInv'
<1>1. /\ phase = "check" /\ Len(report) = 7 /\ phase' = "end" /\ did' = "doctor"
      /\ returned' = IF \A i \in Required : report[i] = "ok" THEN 0 ELSE 1
      /\ UNCHANGED <<exportVars, given, paths, faults, found, report, moved>>
  BY ChecksAre DEF DoctorReport, Reported, End
<1>2. ExportInv'
  BY <1>1, ExportKept DEF CommandInv, ExportStepOrOther
<1>3. NothingIgnored'
  <2>1. /\ given \subseteq Options /\ paths = "doctor" /\ given \cap (Modes \cup Shared) = {}
        /\ given \cap (Writes \cup {"reason", "prune"}) = {} /\ "help" \notin given
    BY <1>1 DEF CommandInv, CommandTypes, Sieved
  <2>2. \A option \in given : option = "json"
    BY <2>1 DEF Options, Modes, Shared, Reporting
  <2>3. QED BY <1>1, <2>1, <2>2 DEF NothingIgnored, ReadsOption
<1>4. DoctorTruthful'
  <2>1. SUFFICES ASSUME ~moved
                 PROVE  (\A i \in Required : report[i] = "ok") <=> Complete /\ faults \subseteq {"git"}
    BY <1>1, ChecksAre DEF DoctorTruthful, exportVars, package, Complete
  <2>2. \A i \in 1..7 : report[i] = "ok" <=> InOrder(Checks[i])
    BY <1>1, <2>1 DEF CommandInv, Diagnosed
  <2>3. Required = {1, 2, 3, 4, 5, 7}
    BY ChecksAre DEF Required, Checks
  <2>4. (\A i \in Required : report[i] = "ok") <=>
            \A check \in {"distribution", "python", "entryPoint", "skill", "configuration",
                          "providers"} : InOrder(check)
    BY <2>2, <2>3 DEF Checks
  <2>5. faults \subseteq Faults /\ "workingDirectory" \notin faults
    BY <1>1 DEF CommandInv, CommandTypes, Sieved
  <2>6. QED BY <2>4, <2>5 DEF InOrder, Faults, Complete
<1>5. QED
  BY <1>1, <1>2, <1>3, <1>4 DEF CommandInv, CommandTypes, Phases, Sieved, Diagnosed, Managing

LEMMA VersionKeeps ==
    ASSUME CommandInv, VersionMode
    PROVE  CommandInv'
<1>1. CASE Refuse
  BY <1>1, RefusalKeeps DEF VersionMode
<1>2. CASE "version" \notin given /\ Consider("management")
  <2>1. ExportInv'
    BY <1>2, ExportKept DEF Consider, CommandInv, ExportStepOrOther
  <2>2. QED
    BY <1>2, <2>1 DEF Consider, VersionMode, CommandInv, CommandTypes, Phases, Sieved,
       Diagnosed, NothingIgnored, DoctorTruthful
<1>3. ASSUME NEW code, End("version", code), paths = "none", phase = "version",
             given \cap (Shared \cup {"skillPath", "exportSkill"}) = {}
      PROVE  CommandInv'
  <2>1. ExportInv'
    BY <1>3, ExportKept DEF End, CommandInv, ExportStepOrOther
  <2>2. \A option \in given : option \in {"version", "json"}
    BY <1>3 DEF CommandInv, CommandTypes, Sieved, Options, Modes, Shared, Reporting
  <2>3. NothingIgnored'
    BY <1>3, <2>2 DEF End, NothingIgnored, ReadsOption
  <2>4. QED
    BY <1>3, <2>1, <2>3 DEF End, CommandInv, CommandTypes, Phases, Sieved, Diagnosed,
       DoctorTruthful, Managing
<1>4. QED BY <1>1, <1>2, <1>3 DEF VersionMode

LEMMA ManagementKeeps ==
    ASSUME CommandInv, ManagementMode
    PROVE  CommandInv'
<1>1. CASE Refuse
  BY <1>1, RefusalKeeps DEF ManagementMode
<1>2. /\ phase = "management" /\ given \subseteq Options /\ paths \in Paths \ FirstToken
      /\ given \cap (Writes \cup {"reason", "prune", "version", "help"}) = {}
  BY DEF ManagementMode, CommandInv, CommandTypes, Sieved
<1>3. ASSUME NEW code, Managing = {}, End("analysis", code)
      PROVE  CommandInv'
  <2>1. ExportInv'
    BY <1>3, ExportKept DEF End, CommandInv, ExportStepOrOther
  <2>2. \A option \in given : option \in Reporting \cup {"git", "config", "loc", "scopeExclude"}
    BY <1>2, <1>3 DEF Options, Modes, Managing
  <2>3. NothingIgnored'
    BY <1>2, <1>3, <2>2 DEF End, NothingIgnored, ReadsOption, Walks, FirstToken
  <2>4. QED
    BY <1>2, <1>3, <2>1, <2>3 DEF End, CommandInv, CommandTypes, Phases, Sieved, Diagnosed,
       DoctorTruthful
<1>4. ASSUME Managing # {}, Cardinality(Managing) # 2, paths = "none",
             given \cap (Shared \cup {"json"}) = {}
      PROVE  \A option \in given : Managing = {option}
  <2>1. {"skillPath", "exportSkill"} \notin SUBSET given
    <3>1. SUFFICES ASSUME {"skillPath", "exportSkill"} \subseteq given
                   PROVE  Cardinality(Managing) = 2
      BY <1>4
    <3>2. Managing = {"skillPath"} \cup {"exportSkill"}
      BY <3>1 DEF Managing
    <3>3. IsFiniteSet({"skillPath"}) /\ Cardinality({"skillPath"}) = 1
      BY FS_Singleton
    <3>4. QED BY <3>2, <3>3, FS_AddElement
  <2>2. \A option \in given : option \in {"skillPath", "exportSkill"}
    BY <1>2, <1>4 DEF Options, Modes, Shared, Reporting
  <2>3. QED BY <2>1, <2>2 DEF Managing
<1>5. ASSUME NEW code, Managing # {}, "skillPath" \in given, End("skillPath", code),
             Cardinality(Managing) # 2, paths = "none", given \cap (Shared \cup {"json"}) = {}
      PROVE  CommandInv'
  <2>1. ExportInv'
    BY <1>5, ExportKept DEF End, CommandInv, ExportStepOrOther
  <2>2. \A option \in given : option = "skillPath"
    BY <1>4, <1>5
  <2>3. NothingIgnored'
    BY <1>5, <2>2 DEF End, NothingIgnored, ReadsOption
  <2>4. QED
    BY <1>2, <1>5, <2>1, <2>3 DEF End, CommandInv, CommandTypes, Phases, Sieved, Diagnosed,
       DoctorTruthful
<1>6. ASSUME Managing # {}, "skillPath" \notin given, Consider("export"),
             Cardinality(Managing) # 2, paths = "none", given \cap (Shared \cup {"json"}) = {}
      PROVE  CommandInv'
  <2>1. ExportInv'
    BY <1>6, ExportKept DEF Consider, CommandInv, ExportStepOrOther
  <2>2. Managing = {"exportSkill"}
    BY <1>6 DEF Managing
  <2>3. QED
    BY <1>2, <1>6, <2>1, <2>2 DEF Consider, CommandInv, CommandTypes, Phases, Sieved, Diagnosed,
       NothingIgnored, DoctorTruthful, Managing
<1>7. QED BY <1>1, <1>3, <1>5, <1>6 DEF ManagementMode

\* The export itself, by this invocation or another
LEMMA ExportingKeeps ==
    ASSUME CommandInv, ExportStepOrOther, UNCHANGED commandVars, phase \in {"check", "export"},
           phase = "check" => moved' \/ UNCHANGED <<installed, payload>>
    PROVE  CommandInv'
<1>1. ExportInv'
  BY ExportKept DEF CommandInv
<1>2. UNCHANGED <<given, paths, faults, phase, did, found, report, returned, moved>>
  BY DEF commandVars
<1>3. Diagnosed'
  BY <1>2 DEF CommandInv, Diagnosed, InOrder, Complete
<1>4. Sieved'
  BY <1>2 DEF CommandInv, Sieved, Managing
<1>5. NothingIgnored' /\ DoctorTruthful'
  BY <1>2 DEF CommandInv, Sieved, NothingIgnored, DoctorTruthful
<1>6. QED
  BY <1>1, <1>2, <1>3, <1>4, <1>5 DEF CommandInv, CommandTypes

LEMMA ExportsAlone == ASSUME NEW p, Export(p) PROVE UNCHANGED package
BY DEF Export, CheckTarget, RefuseTarget, Locate, PayloadMissing, Open, Unavailable, Fill, Stop,
   Abandon

LEMMA ExportStepKeeps == ASSUME CommandInv, ExportStep PROVE CommandInv'
<1>1. ExportStepOrOther
  BY CommandAssumption DEF ExportStep, ExportStepOrOther
<1>2. QED BY <1>1, ExportingKeeps DEF ExportStep

LEMMA ExportEndKeeps ==
    ASSUME CommandInv, ExportEnd
    PROVE  CommandInv'
<1>1. PICK code : End("exportSkill", code)
  BY DEF ExportEnd
<1>2. phase = "export"
  BY DEF ExportEnd
<1>3. ExportInv'
  BY <1>1, ExportKept DEF End, CommandInv, ExportStepOrOther
<1>4. paths = "none" /\ \A option \in given : option = "exportSkill"
  BY <1>2 DEF CommandInv, CommandTypes, Sieved, Managing, Options, Modes, Shared, Reporting
<1>5. NothingIgnored'
  BY <1>1, <1>4 DEF End, NothingIgnored, ReadsOption
<1>6. QED
  BY <1>1, <1>2, <1>3, <1>5 DEF End, CommandInv, CommandTypes, Phases, Sieved, Diagnosed,
     DoctorTruthful

LEMMA WorldKeeps == ASSUME CommandInv, World PROVE CommandInv'
<1>1. phase \in {"check", "export"}
  BY DEF World
<1>2. ASSUME NEW p \in Exporters \ {Me}, OtherExport(p)
      PROVE  CommandInv'
  <2>1. ExportStepOrOther /\ UNCHANGED package /\ UNCHANGED commandVars
    BY <1>2, ExportsAlone DEF OtherExport, ExportStepOrOther
  <2>2. QED BY <1>1, <2>1, ExportingKeeps DEF package
<1>3. ASSUME NEW p \in Packages, Upgrade(p[1], p[2])
      PROVE  CommandInv'
  <2>1. Offered(p[1], p[2])
    BY ExportAssumption DEF Offered
  <2>2. ExportInv'
    BY <1>3, <2>1, ExportKept DEF Upgrade, CommandInv, ExportStepOrOther
  <2>3. /\ UNCHANGED <<given, paths, faults, phase, did, found, report, returned>>
        /\ moved' = TRUE
    BY <1>3 DEF Upgrade
  <2>4. Sieved'
    BY <2>3 DEF CommandInv, Sieved, Managing
  <2>5. QED
    BY <2>2, <2>3, <2>4 DEF CommandInv, CommandTypes, Diagnosed, NothingIgnored, DoctorTruthful
<1>4. ASSUME NEW f \in Names, Put(f)
      PROVE  CommandInv'
  <2>1. ExportStepOrOther /\ UNCHANGED package /\ UNCHANGED commandVars
    BY <1>4 DEF Put, PutFile, ExportStepOrOther
  <2>2. QED BY <1>1, <2>1, ExportingKeeps DEF package
<1>5. QED BY <1>2, <1>3, <1>4 DEF World

LEMMA IdleKeeps == ASSUME CommandInv, UNCHANGED mainVars PROVE CommandInv'
<1>1. ExportInv'
  BY ExportKept DEF mainVars, CommandInv, ExportStepOrOther
<1>2. /\ UNCHANGED <<given, paths, faults, phase, did, found, report, returned, moved>>
      /\ UNCHANGED <<installed, payload>>
  BY DEF mainVars, commandVars, exportVars, package
<1>3. CommandTypes' /\ Sieved'
  BY <1>2 DEF CommandInv, CommandTypes, Sieved, Managing
<1>4. Diagnosed' /\ NothingIgnored' /\ DoctorTruthful'
  BY <1>2 DEF CommandInv, Diagnosed, InOrder, Complete, NothingIgnored, DoctorTruthful
<1>5. QED BY <1>1, <1>3, <1>4 DEF CommandInv

LEMMA StepCommandInv == CommandInv /\ [CommandNext]_mainVars => CommandInv'
<1> SUFFICES ASSUME CommandInv, [CommandNext]_mainVars PROVE CommandInv'
  OBVIOUS
<1>1. CASE Main
  BY <1>1, ParseKeeps, BaselineKeeps, DoctorKeeps, SafeCheckKeeps, DoctorReportKeeps, VersionKeeps,
     ManagementKeeps, ExportStepKeeps, ExportEndKeeps DEF Main
<1>2. CASE World
  BY <1>2, WorldKeeps
<1>3. CASE UNCHANGED mainVars
  BY <1>3, IdleKeeps
<1>4. QED BY <1>1, <1>2, <1>3 DEF CommandNext

LEMMA CommandInvariance == CommandSpec => []CommandInv
BY InitCommand, StepCommandInv, PTL DEF CommandSpec

\* Whichever mode runs, it reads every option and path given: two modes are
\* never asked for and one run (main() of code_guard.py, _baseline_mode() to
\* _management_mode()).
THEOREM NothingIsIgnored == CommandSpec => []NothingIgnored
<1>1. CommandInv => NothingIgnored
  BY DEF CommandInv
<1>2. QED BY CommandInvariance, <1>1, PTL

\* What doctor's exit code says of the skill and of everything else it requires
\* is so, unless the package changed meanwhile, and no check ends the report
\* (_doctor_mode() and gather_report()).
THEOREM DoctorIsTruthful == CommandSpec => []DoctorTruthful
<1>1. CommandInv => DoctorTruthful
  BY DEF CommandInv
<1>2. QED BY CommandInvariance, <1>1, PTL

LEMMA SealFollows == ExportInv => MarkerSeals
<1> SUFFICES ASSUME ExportInv, target[Marker] \in Versions,
                    Cardinality(writers) = 1, ~upgraded, late = {},
                    NEW f \in Range(Payload)
             PROVE  target[f] = target[Marker]
  BY DEF MarkerSeals
<1>1. PICK p : writers = {p}
  BY FS_Singleton DEF ExportInv, ExportTypes
<1>2. p \in Exporters /\ Held(p)
  BY <1>1 DEF ExportInv, ExportTypes, SealInv
<1>3. index[p] = Len(Written)
  BY <1>2 DEF Held
<1>4. PICK i \in 1..Len(Written) : Written[i] = f
  BY WrittenFacts
<1>5. Written[Len(Written)] = Marker /\ Len(Written) \in 1..Len(Written)
  <2>1. Len(Written) \in 1..Len(Written)
    BY LengthFact
  <2>2. QED BY <2>1, WrittenFacts
<1>6. QED BY <1>2, <1>3, <1>4, <1>5 DEF Held

\* The version file seals the export: a directory only one invocation wrote to
\* names a version only if it holds every file of that version whole, also when
\* the invocation was killed (export_skill() of skill_distribution.py).
THEOREM MarkerVouches == CommandSpec => []MarkerSeals
<1>1. CommandInv => MarkerSeals
  BY SealFollows DEF CommandInv
<1>2. QED BY CommandInvariance, <1>1, PTL

LEMMA OnlyLate ==
    ASSUME ExportTypes, Watched, NEW p \in Exporters, Export(p), NEW f \in Names,
           target[f] = "foreign", target'[f] # "foreign"
    PROVE  f \in late
<1>1. Open(p) \/ Fill(p)
  BY DEF Export, CheckTarget, RefuseTarget, Locate, PayloadMissing, Unavailable, Stop, Abandon,
     directory
<1>2. Running(p)
  BY <1>1 DEF Open, Fill, Running
<1>3. QED BY <1>2 DEF Watched

\* A file somebody else put into the target is overwritten only if it appeared
\* while an export was under way: export_skill() of skill_distribution.py takes
\* an empty, caller-owned directory and nothing else.
THEOREM ForeignIsKept == CommandSpec => ForeignKept
<1>1. CommandInv /\ [CommandNext]_mainVars =>
         [\A f \in Names :
             target[f] = "foreign" /\ target'[f] # "foreign" => f \in late]_exportVars
  <2>1. SUFFICES ASSUME CommandInv, [CommandNext]_mainVars, NEW f \in Names,
                        target[f] = "foreign", target'[f] # "foreign"
                 PROVE  f \in late
    OBVIOUS
  <2>2. ExportTypes /\ Watched
    BY <2>1 DEF CommandInv, ExportInv
  <2>3. ASSUME NEW p \in Exporters, Export(p)
        PROVE  f \in late
    BY <2>1, <2>2, <2>3, OnlyLate
  <2>4. CASE UNCHANGED target
    BY <2>1, <2>4
  <2>5. CASE World
    <3>1. ASSUME NEW g \in Names, Put(g)
          PROVE  UNCHANGED target \/ target[f] = Absent \/ target'[f] = "foreign"
      BY <2>1, <2>2, <3>1 DEF Put, PutFile, ExportTypes
    <3>2. ASSUME NEW q \in Packages, Upgrade(q[1], q[2])
          PROVE  UNCHANGED target
      BY <3>2 DEF Upgrade, Install, directory
    <3>3. target[f] # Absent
      BY <2>1, ExportAssumption
    <3>4. QED BY <2>1, <2>3, <2>4, <2>5, <3>1, <3>2, <3>3 DEF World, OtherExport
  <2>6. CASE Main
    <3>1. CASE ExportStep
      BY <2>3, <3>1, CommandAssumption DEF ExportStep
    <3>2. CASE ~ExportStep
      BY <2>4, <2>6, <3>2 DEF Main, ParseArguments, BaselineMode, DoctorMode, SafeCheck, DoctorReport,
         VersionMode, ManagementMode, ExportEnd, Refuse, Consider, End, exportVars, directory
    <3>3. QED BY <3>1, <3>2
  <2>7. CASE UNCHANGED mainVars
    BY <2>4, <2>7 DEF mainVars, exportVars, directory
  <2>8. QED BY <2>1, <2>5, <2>6, <2>7 DEF CommandNext
<1>2. QED BY CommandInvariance, <1>1, PTL DEF CommandSpec, ForeignKept

---------------------------------------------------------------------------
(* The analysis                                                            *)

Looking == {ProbeOf[s] : s \in Stores} \cup {LoadOf[s] : s \in Stores} \cup {"check"}
Measuring == {ReadOf[g] : g \in Stores} \cup {"report"}

\* Types of what an invocation keeps, and what it has not got yet
Types ==
    /\ size \in [Files -> Gone..MaxSize]
    /\ store \in [Stores -> Tables \cup {None}]
    /\ links \in SUBSET Files
    /\ allowances \in [Stores -> Tables \cup {None}]
    /\ todo \in SUBSET (Stores \X Files)
    /\ pc \in {"select", "end"} \cup Looking \cup Measuring
    /\ pc # "end" => exit = -1
    /\ pc \in {"select"} \cup Looking => measured = {} /\ unavailable = {} /\ todo = {}

\* A reading is still to come, was made, or showed a file without syntax facts.
Covered ==
    \A r \in Reads :
        \/ r \in todo
        \/ \E n \in 0..MaxSize : <<r[1], r[2], n>> \in measured
        \/ r[1] = "callable" /\ r[2] \in unavailable

\* The guards come one after the other, and the report after the last.
Order ==
    /\ pc \in {"read callable", "read document", "report"} => \A r \in todo : r[1] # "loc"
    /\ pc \in {"read document", "report"} => \A r \in todo : r[1] # "callable"
    /\ pc = "report" => todo = {}

\* An invocation that has ended aborted, or reported on everything.
Ended ==
    pc = "end" => \/ exit = 3 /\ (unavailable # {} => Covered)
                  \/ exit = ExitCode /\ todo = {} /\ Covered

Reached == pc \in Measuring => Covered

AInv == Types /\ Reached /\ Order /\ Ended

---------------------------------------------------------------------------
\* The steps are told apart by their names.
LEMMA Steps ==
    /\ Stores = {"loc", "document", "callable"}
    /\ Looking = {"probe loc", "probe document", "probe callable",
                  "load loc", "load document", "load callable", "check"}
    /\ Measuring = {"read loc", "read callable", "read document", "report"}
    /\ ProbeOf["loc"] = "probe loc" /\ ProbeOf["document"] = "probe document"
    /\ ProbeOf["callable"] = "probe callable"
    /\ LoadOf["loc"] = "load loc" /\ LoadOf["document"] = "load document"
    /\ LoadOf["callable"] = "load callable"
    /\ ReadOf["loc"] = "read loc" /\ ReadOf["document"] = "read document"
    /\ ReadOf["callable"] = "read callable"
<1>1. Stores = {"loc", "document", "callable"}
  BY DEF Stores
<1>2. /\ ProbeOf["loc"] = "probe loc" /\ ProbeOf["document"] = "probe document"
      /\ ProbeOf["callable"] = "probe callable"
  BY DEF ProbeOf
<1>3. /\ LoadOf["loc"] = "load loc" /\ LoadOf["document"] = "load document"
      /\ LoadOf["callable"] = "load callable"
  BY DEF LoadOf
<1>4. /\ ReadOf["loc"] = "read loc" /\ ReadOf["document"] = "read document"
      /\ ReadOf["callable"] = "read callable"
  BY DEF ReadOf
<1>5. QED BY <1>1, <1>2, <1>3, <1>4 DEF Looking, Measuring

LEMMA NoneIsNoTable == None \notin Tables
BY AnalysisAssumption DEF None, Tables

LEMMA InitAInv == Init => AInv
<1> SUFFICES ASSUME Init PROVE AInv
  OBVIOUS
<1>1. Types
  BY AnalysisAssumption DEF Init, Types
<1>2. Reached /\ Order /\ Ended
  BY Steps DEF Init, Reached, Order, Ended
<1>3. QED BY <1>1, <1>2 DEF AInv

\* What is to be read, and whether it was, depends on nothing others change.
LEMMA CoverKept ==
    ASSUME UNCHANGED <<selected, loc, todo, measured, unavailable>>
    PROVE  Reads' = Reads /\ (Covered' <=> Covered)
<1>1. Reads' = Reads
  BY DEF Reads
<1>2. QED BY <1>1 DEF Covered

LEMMA ExitCodeKept ==
    ASSUME UNCHANGED <<ci, loc, allowances, measured, unavailable>>
    PROVE  ExitCode' = ExitCode
<1>1. ASSUME NEW m PROVE State(m)' = State(m)
  BY DEF State, Allowance
<1>2. Some("fail")' = Some("fail") /\ Some("review")' = Some("review")
  BY <1>1 DEF Some
<1>3. QED BY <1>2 DEF ExitCode

---------------------------------------------------------------------------
(* One lemma per group of actions                                          *)

\* Looking for baselines and loading them reads no file.
LEMMA LookingKeeps ==
    ASSUME AInv, pc \in {"select"} \cup Looking, pc' \in Looking,
           UNCHANGED <<size, store, links, todo, measured, unavailable, exit>>,
           allowances' \in [Stores -> Tables \cup {None}]
    PROVE  AInv'
<1>1. Types'
  BY Steps DEF AInv, Types
<1>2. Reached' /\ Order' /\ Ended'
  BY Steps DEF Reached, Order, Ended
<1>3. QED BY <1>1, <1>2 DEF AInv

LEMMA SelectKeeps == AInv /\ Select => AInv'
BY LookingKeeps, Steps DEF Select, Goto, world, request, history, AInv, Types

LEMMA ProbeKeeps ==
    ASSUME AInv, NEW s \in Stores, NEW next \in Looking, Probe(s, next)
    PROVE  AInv'
<1>1. pc \in Looking /\ pc' \in Looking
  BY Steps DEF Probe, Goto
<1>2. QED BY <1>1, LookingKeeps DEF Probe, Goto, world, request, history, AInv, Types

LEMMA LoadKeeps ==
    ASSUME AInv, NEW s \in Stores, NEW next \in Looking, Load(s, next)
    PROVE  AInv'
<1>1. pc \in Looking /\ pc' \in Looking
  BY Steps DEF Load, Goto
<1>2. allowances' \in [Stores -> Tables \cup {None}]
  BY DEF Load, AInv, Types
<1>3. QED BY <1>1, <1>2, LookingKeeps DEF Load, Goto, world, request, history

\* An abort keeps what was covered, so a file found unavailable stays so.
LEMMA AbortKeeps ==
    ASSUME AInv, Abort, pc # "end"
    PROVE  AInv'
<1>1. Types'
  BY Steps DEF AInv, Types, Abort, Goto, world, request, history
<1>2. unavailable # {} => Covered
  BY Steps DEF AInv, Types, Reached
<1>3. Covered' <=> Covered
  BY CoverKept DEF Abort, Goto, world, request, history
<1>4. Reached' /\ Order'
  BY Steps DEF Reached, Order, Abort, Goto
<1>5. Ended'
  BY <1>2, <1>3 DEF Ended, Abort, Goto, world, request, history
<1>6. QED BY <1>1, <1>4, <1>5 DEF AInv

LEMMA CheckKeeps == AInv /\ Check => AInv'
<1> SUFFICES ASSUME AInv, Check PROVE AInv'
  OBVIOUS
<1>1. allowances' \in [Stores -> Tables \cup {None}]
  <2>1. ASSUME NEW s \in Stores PROVE allowances'[s] \in Tables \cup {None}
    <3>1. CASE allowances[s] = None
      BY <3>1 DEF Check, None
    <3>2. CASE allowances[s] \in Tables
      <4>1. allowances'[s] = [f \in Files |-> IF f \in linked THEN 0 ELSE allowances[s][f]]
        BY <3>2 DEF Check, Tables
      <4>2. 0 \in 0..MaxSize
        BY AnalysisAssumption
      <4>3. QED BY <3>2, <4>1, <4>2 DEF Tables
    <3>3. QED BY <3>1, <3>2 DEF AInv, Types
  <2>2. QED BY <2>1 DEF Check
<1>2. Reads \subseteq Stores \X Files
  BY Steps DEF Reads, Files
<1>3. Types'
  BY <1>1, <1>2, Steps DEF AInv, Types, Check, Goto, world, request, history
<1>4. Reads' = Reads
  BY DEF Reads, Check, request
<1>5. Covered'
  BY <1>4 DEF Covered, Check
<1>6. Reached' /\ Order' /\ Ended'
  BY <1>5, Steps DEF Reached, Order, Ended, Check, Goto
<1>7. QED BY <1>3, <1>6 DEF AInv

\* Another reading off the list, whatever came of it
LEMMA ReadingKeeps ==
    ASSUME AInv, NEW g \in Stores, NEW f \in Files, Reading(g, f),
           todo' = todo \ {<<g, f>>},
           measured \subseteq measured', unavailable \subseteq unavailable',
           \/ \E n \in 0..MaxSize : <<g, f, n>> \in measured'
           \/ g = "callable" /\ f \in unavailable',
           UNCHANGED <<world, request, pc, selected, linked, allowances, exit, history>>
    PROVE  AInv'
<1>0. pc \in Measuring
  BY Steps DEF Reading
<1>1. Types'
  BY <1>0, Steps DEF AInv, Types, world, request
<1>2. Covered
  BY <1>0 DEF AInv, Reached
<1>3. Reads' = Reads
  BY DEF Reads, request
<1>4. Covered'
  <2>1. SUFFICES ASSUME NEW r \in Reads
                 PROVE  \/ r \in todo'
                        \/ \E n \in 0..MaxSize : <<r[1], r[2], n>> \in measured'
                        \/ r[1] = "callable" /\ r[2] \in unavailable'
    BY <1>3 DEF Covered
  <2>2. CASE r = <<g, f>>
    BY <2>2
  <2>3. CASE r # <<g, f>>
    BY <1>2, <2>3 DEF Covered
  <2>4. QED BY <2>2, <2>3
<1>5. Order'
  BY DEF AInv, Order
<1>6. Reached' /\ Ended'
  BY <1>0, <1>4, Steps DEF Reached, Ended
<1>7. QED BY <1>1, <1>5, <1>6 DEF AInv

LEMMA ReadKeeps ==
    ASSUME AInv, NEW g \in Stores, NEW f \in Files, Read(g, f)
    PROVE  AInv'
<1>1. size[f] \in 0..MaxSize
  BY AnalysisAssumption DEF Read, AInv, Types, Gone
<1>2. QED BY <1>1, ReadingKeeps DEF Read

LEMMA UnavailableKeeps ==
    ASSUME AInv, NEW f \in Code, ReadUnavailable(f)
    PROVE  AInv'
BY Steps, ReadingKeeps DEF ReadUnavailable, Files

LEMMA ReadGoneKeeps ==
    ASSUME AInv, NEW g \in Stores, NEW f \in Files, ReadGone(g, f)
    PROVE  AInv'
BY Steps, AbortKeeps DEF ReadGone, Reading

LEMMA NextGuardKeeps ==
    ASSUME AInv, \/ NextGuard("loc", "read callable")
                 \/ NextGuard("callable", "read document")
                 \/ NextGuard("document", "report")
    PROVE  AInv'
<1>0. pc \in Measuring /\ pc' \in Measuring
  BY Steps DEF NextGuard, Goto
<1>1. Types'
  BY <1>0, Steps DEF AInv, Types, NextGuard, Goto, world, request
<1>2. Covered'
  BY <1>0, CoverKept DEF AInv, Reached, NextGuard, Goto, request
<1>3. Order'
  BY Steps DEF AInv, Types, Order, NextGuard, Goto
<1>4. Reached' /\ Ended'
  BY <1>0, <1>2, Steps DEF Reached, Ended
<1>5. QED BY <1>1, <1>3, <1>4 DEF AInv

LEMMA ReportKeeps == AInv /\ Report => AInv'
<1> SUFFICES ASSUME AInv, Report PROVE AInv'
  OBVIOUS
<1>1. Types'
  BY Steps DEF AInv, Types, Report, Goto, world, request
<1>2. Covered'
  BY Steps, CoverKept DEF AInv, Reached, Report, Goto, request
<1>3. ExitCode' = ExitCode
  BY ExitCodeKept DEF Report, request
<1>4. todo' = {}
  BY DEF AInv, Order, Report
<1>5. Reached' /\ Order' /\ Ended'
  BY <1>2, <1>3, <1>4, Steps DEF Reached, Order, Ended, Report, Goto
<1>6. QED BY <1>1, <1>5 DEF AInv

LEMMA OthersKeep == AInv /\ Others => AInv'
<1> SUFFICES ASSUME AInv, Others PROVE AInv'
  OBVIOUS
<1>1. UNCHANGED <<request, pc, selected, linked, allowances, todo, measured,
                  unavailable, exit>>
  BY DEF Others, EditFile, BreakSyntax, StoreBaseline, Change
<1>2. pc # "end"
  BY DEF Others, EditFile, BreakSyntax, StoreBaseline, Change
<1>3. /\ size' \in [Files -> Gone..MaxSize]
      /\ store' \in [Stores -> Tables \cup {None}]
  <2>1. CASE \E f \in Files, n \in Gone..MaxSize : EditFile(f, n)
    BY <2>1 DEF EditFile, AInv, Types
  <2>2. CASE \E f \in Code : BreakSyntax(f)
    BY <2>2 DEF BreakSyntax, AInv, Types
  <2>3. CASE \E s \in Stores, table \in Offers \cup {None} : StoreBaseline(s, table)
    BY <2>3, AnalysisAssumption DEF StoreBaseline, AInv, Types
  <2>4. QED BY <2>1, <2>2, <2>3 DEF Others
<1>4. Types'
  BY <1>1, <1>3 DEF AInv, Types, request
<1>5. Reached' /\ Order' /\ Ended'
  BY <1>1, <1>2, CoverKept DEF AInv, Reached, Order, Ended, request
<1>6. QED BY <1>4, <1>5 DEF AInv

LEMMA StutterKeeps == AInv /\ UNCHANGED vars => AInv'
<1> SUFFICES ASSUME AInv, UNCHANGED vars PROVE AInv'
  OBVIOUS
<1>1. Types'
  BY DEF AInv, Types, vars, world, request
<1>2. (Covered' <=> Covered) /\ ExitCode' = ExitCode
  BY CoverKept, ExitCodeKept DEF vars, request
<1>3. Reached' /\ Order' /\ Ended'
  BY <1>2 DEF AInv, Reached, Order, Ended, vars
<1>4. QED BY <1>1, <1>3 DEF AInv

LEMMA StepAInv == AInv /\ [Next]_vars => AInv'
<1> SUFFICES ASSUME AInv, [Next]_vars PROVE AInv'
  OBVIOUS
<1> HIDE DEF AInv
<1>1. CASE Select
  BY <1>1, SelectKeeps
<1>2. CASE SelectMissing
  BY <1>2, AbortKeeps DEF SelectMissing
<1>3. CASE Probe("loc", "probe document") \/ Probe("document", "probe callable")
             \/ Probe("callable", "load loc")
  BY <1>3, ProbeKeeps, Steps
<1>4. CASE Load("loc", "load document") \/ Load("document", "load callable")
             \/ Load("callable", "check")
  BY <1>4, LoadKeeps, Steps
<1>5. CASE CheckFails
  BY <1>5, AbortKeeps DEF CheckFails
<1>6. CASE Check
  BY <1>6, CheckKeeps
<1>7. CASE \E g \in Stores, f \in Files : Read(g, f) \/ ReadGone(g, f)
  BY <1>7, ReadKeeps, ReadGoneKeeps
<1>8. CASE \E f \in Code : ReadUnavailable(f)
  BY <1>8, UnavailableKeeps
<1>9. CASE NextGuard("loc", "read callable") \/ NextGuard("callable", "read document")
             \/ NextGuard("document", "report")
  BY <1>9, NextGuardKeeps
<1>10. CASE Report
  BY <1>10, ReportKeeps
<1>11. CASE Others
  BY <1>11, OthersKeep
<1>12. CASE UNCHANGED vars
  BY <1>12, StutterKeeps
<1>13. QED
  BY <1>1, <1>2, <1>3, <1>4, <1>5, <1>6, <1>7, <1>8, <1>9, <1>10, <1>11, <1>12
  DEF Next, Invocation

LEMMA AInvariance == Spec => []AInv
BY InitAInv, StepAInv, PTL DEF Spec

---------------------------------------------------------------------------
(* What the exit code means                                                *)

LEMMA StatesKnown ==
    ASSUME NEW m
    PROVE  State(m) \in {"pass", "review", "fail"}
<1>1. ASSUME NEW f, NEW n, NEW allowance
      PROVE  Evaluate(f, n, loc, allowance).state \in {"pass", "review", "fail"}
  BY DEF Evaluate, Finding
<1>2. ASSUME NEW n, NEW allowance
      PROVE  /\ JudgeCallable(n, ReviewAt, allowance).state \in {"pass", "review"}
             /\ JudgeDocument(n, ReviewAt, allowance).state \in {"pass", "review"}
  BY DEF JudgeCallable, JudgeDocument, Verdict
<1>3. QED BY <1>1, <1>2 DEF State

LEMMA SuccessFollows == AInv => SuccessAccountsForAll
<1> SUFFICES ASSUME AInv, exit = 0, NEW r \in Reads
             PROVE  \E n \in 0..MaxSize :
                        /\ <<r[1], r[2], n>> \in measured
                        /\ State(<<r[1], r[2], n>>) \in
                              IF ci THEN {"pass", "review"} ELSE {"pass"}
  BY DEF SuccessAccountsForAll
<1>1. ExitCode = 0 /\ todo = {} /\ Covered
  BY DEF AInv, Types, Ended
<1>2. unavailable = {} /\ ~Some("fail") /\ (Some("review") => ci)
  BY <1>1 DEF ExitCode
<1>3. PICK n \in 0..MaxSize : <<r[1], r[2], n>> \in measured
  BY <1>1, <1>2 DEF Covered
<1>4. /\ State(<<r[1], r[2], n>>) # "fail"
      /\ State(<<r[1], r[2], n>>) = "review" => ci
  BY <1>2, <1>3 DEF Some
<1>5. QED BY <1>3, <1>4, StatesKnown

\* Exit 0 accounts for everything, whatever others change meanwhile: every
\* guard read every selected file that it applies to, and found no failure
\* nor, short of --ci, a review (run_analysis, exit_code).
THEOREM SuccessIsComplete == Spec => []SuccessAccountsForAll
BY AInvariance, SuccessFollows, PTL

LEMMA IncompleteFollows == AInv => IncompleteDominates
<1> SUFFICES ASSUME AInv, pc = "end", unavailable # {}, todo = {}
             PROVE  /\ exit = 3
                    /\ \A r \in Reads \ ({"callable"} \X unavailable) :
                          \E n \in 0..MaxSize : <<r[1], r[2], n>> \in measured
  BY DEF IncompleteDominates
<1>1. Covered /\ exit = 3
  BY DEF AInv, Ended, ExitCode
<1>2. ASSUME NEW r \in Reads, r[1] = "callable", r[2] \in unavailable
      PROVE  r \in {"callable"} \X unavailable
  BY <1>2 DEF Reads
<1>3. QED BY <1>1, <1>2 DEF Covered

\* Missing evidence is never outvoted: an invocation that could not parse a
\* selected file and read all the others exits 3, whatever it found in them
\* (analyze_files_for_runner, exit_code).
THEOREM EvidenceNeverOutvoted == Spec => []IncompleteDominates
BY AInvariance, IncompleteFollows, PTL

---------------------------------------------------------------------------
(* No allowance by a link                                                  *)

\* Files that only an explicit link brings into the selection
ByLinkOnly == links \ (direct \cap selected)

Looks == {ProbeOf[s] : s \in Stores}

Stripped == \A s \in Stores, f \in ByLinkOnly : Allowance(s, f) = 0

\* Either the links were known when the tables were loaded, or no table was.
LinksKnown ==
    \/ linked = ByLinkOnly
    \/ \A s \in Stores : store[s] = None /\ allowances[s] = None

\* While no baseline appears and no link loses its target
LinkInv ==
    /\ \A m \in measured : m[1] \in Stores
    /\ pc \in {"select"} \cup Looks => \A s \in Stores : allowances[s] = None
    /\ settled /\ pc \in Looking \cup Measuring => \A f \in links : size[f] # Gone
    /\ settled /\ pc \in {"probe document", "probe callable"} => store["loc"] = None
    /\ settled /\ pc = "probe callable" => store["document"] = None
    /\ settled /\ pc \in Looking \ Looks => LinksKnown
    /\ settled /\ pc \in Measuring => Stripped
    /\ settled /\ pc = "end" => measured = {} \/ Stripped

LEMMA LooksAre == Looks = {"probe loc", "probe document", "probe callable"}
BY Steps DEF Looks

LEMMA LinkInvFollows == AInv /\ LinkInv => NoAllowanceByLink
<1> SUFFICES ASSUME AInv, LinkInv, settled, NEW m \in measured,
                    m[2] \in links \ (direct \cap selected)
             PROVE  Allowance(m[1], m[2]) = 0
  BY DEF NoAllowanceByLink
<1>1. pc \in Measuring \cup {"end"}
  BY DEF AInv, Types
<1>2. Stripped
  BY <1>1 DEF LinkInv
<1>3. QED BY <1>2 DEF Stripped, ByLinkOnly, LinkInv

LEMMA InitLinkInv == Init => LinkInv
BY Steps, LooksAre DEF Init, LinkInv

LEMMA SelectLinks == LinkInv /\ Select => LinkInv'
BY Steps, LooksAre DEF LinkInv, Select, Goto, world, request, history

LEMMA StrippedKept ==
    ASSUME UNCHANGED <<links, direct, selected, allowances>>
    PROVE  Stripped' <=> Stripped
BY DEF Stripped, ByLinkOnly, Allowance

LEMMA LinksKnownKept ==
    ASSUME UNCHANGED <<links, direct, selected, linked, allowances, store>>
    PROVE  LinksKnown' <=> LinksKnown
BY DEF LinksKnown, ByLinkOnly

\* A baseline found makes the links known; three missing ones leave nothing.
LEMMA ProbeLinks ==
    ASSUME LinkInv, \/ Probe("loc", "probe document")
                    \/ Probe("document", "probe callable")
                    \/ Probe("callable", "load loc")
    PROVE  LinkInv'
<1>1. /\ pc \in Looks /\ pc' \in Looking
      /\ UNCHANGED <<world, request, selected, allowances, measured, history>>
  BY Steps, LooksAre DEF Probe, Goto
<1>2. \A s \in Stores : allowances[s] = None
  BY <1>1 DEF LinkInv
<1>3. settled => \A f \in links : size[f] # Gone
  BY <1>1, Steps, LooksAre DEF LinkInv
<1>5. /\ settled' <=> settled
      /\ settled /\ pc \in {"probe document", "probe callable"} => store["loc"] = None
      /\ settled /\ pc = "probe callable" => store["document"] = None
  BY <1>1 DEF LinkInv, history
<1>4. ASSUME settled', pc' \in Looking \ Looks
      PROVE  LinksKnown'
  <2>1. CASE linked' = LinkedTargets
    <3>1. settled
      BY <1>1, <1>4 DEF history
    <3>2. LinkedTargets = ByLinkOnly
      BY <1>3, <3>1 DEF LinkedTargets, ByLinkOnly
    <3>3. ByLinkOnly' = ByLinkOnly
      BY <1>1 DEF ByLinkOnly, request
    <3>4. QED BY <2>1, <3>2, <3>3 DEF LinksKnown
  <2>2. CASE linked' # LinkedTargets
    <3>1. pc = "probe callable" /\ store["callable"] = None
      BY <1>4, <2>2, Steps, LooksAre DEF Probe, Goto
    <3>2. store["loc"] = None /\ store["document"] = None
      BY <1>1, <1>4, <1>5, <3>1
    <3>3. QED BY <1>1, <1>2, <3>1, <3>2, Steps DEF LinksKnown, world
  <2>3. QED BY <2>1, <2>2
<1>6. \/ pc' = "probe document" /\ store["loc"] = None
      \/ pc' = "probe callable" /\ pc = "probe document" /\ store["document"] = None
      \/ pc' = "load loc"
  BY Steps DEF Probe, Goto
<1>7. /\ settled' /\ pc' \in {"probe document", "probe callable"} => store'["loc"] = None
      /\ settled' /\ pc' = "probe callable" => store'["document"] = None
  BY <1>1, <1>5, <1>6 DEF world
<1>8. QED BY <1>1, <1>2, <1>3, <1>4, <1>7, Steps DEF LinkInv, world, request, history

LEMMA LoadLinks ==
    ASSUME LinkInv, AInv, \/ Load("loc", "load document")
                          \/ Load("document", "load callable")
                          \/ Load("callable", "check")
    PROVE  LinkInv'
<1>1. /\ pc \in Looking \ Looks /\ pc' \in Looking \ Looks
      /\ UNCHANGED <<world, request, selected, linked, measured, history>>
  BY Steps, LooksAre DEF Load, Goto
<1>2. PICK s \in Stores : allowances' = [allowances EXCEPT ![s] = store[s]]
  BY Steps DEF Load
<1>3. LinksKnown => LinksKnown'
  <2>1. ByLinkOnly' = ByLinkOnly
    BY <1>1 DEF ByLinkOnly, request
  <2>2. QED BY <1>1, <1>2, <2>1 DEF LinksKnown, world, AInv, Types
<1>4. QED BY <1>1, <1>3, Steps, LooksAre DEF LinkInv, world, request, history

\* Stripping the linked targets leaves them no allowance.
LEMMA CheckLinks ==
    ASSUME LinkInv, AInv, Check
    PROVE  LinkInv'
<1>1. /\ pc = "check" /\ pc' = "read loc"
      /\ UNCHANGED <<world, request, selected, linked, measured, history>>
  BY DEF Check, Goto
<1>2. ASSUME settled PROVE Stripped'
  <2>1. LinksKnown
    BY <1>1, <1>2, Steps, LooksAre DEF LinkInv
  <2>2. ByLinkOnly' = ByLinkOnly /\ ByLinkOnly \subseteq Files
    BY <1>1 DEF ByLinkOnly, request, AInv, Types
  <2>3. ASSUME NEW s \in Stores, NEW f \in ByLinkOnly
        PROVE  allowances'[s] = None \/ allowances'[s][f] = 0
    <3>1. CASE allowances[s] = None
      BY <3>1 DEF Check, None
    <3>2. CASE allowances[s] \in Tables
      <4>1. f \in linked
        BY <2>1, <3>2, NoneIsNoTable DEF LinksKnown
      <4>2. f \in DOMAIN allowances[s]
        BY <2>2, <3>2 DEF Tables
      <4>3. QED BY <4>1, <4>2 DEF Check
    <3>3. QED BY <3>1, <3>2 DEF AInv, Types
  <2>4. QED BY <2>2, <2>3 DEF Stripped, Allowance
<1>3. QED BY <1>1, <1>2, Steps, LooksAre DEF LinkInv, world, request, history

LEMMA AbortLinks ==
    ASSUME LinkInv, AInv, Abort, pc # "end"
    PROVE  LinkInv'
<1>1. pc' = "end" /\ UNCHANGED <<request, selected, allowances, measured, history>>
  BY DEF Abort, Goto
<1>2. Stripped' <=> Stripped
  BY <1>1, StrippedKept DEF request
<1>3. settled => measured = {} \/ Stripped
  BY Steps DEF LinkInv, AInv, Types
<1>4. QED BY <1>1, <1>2, <1>3, Steps, LooksAre DEF LinkInv, history

\* Reading changes neither the links nor the tables.
LEMMA MeasuringLinks ==
    ASSUME LinkInv, pc \in Measuring, pc' \in Measuring \cup {"end"},
           UNCHANGED <<world, request, selected, allowances, history>>,
           \A m \in measured' : m[1] \in Stores
    PROVE  LinkInv'
<1>1. Stripped' <=> Stripped
  BY StrippedKept DEF request
<1>2. QED BY <1>1, Steps, LooksAre DEF LinkInv, world, request, history

LEMMA OthersLinks ==
    ASSUME LinkInv, AInv, Others
    PROVE  LinkInv'
<1>1. /\ UNCHANGED <<request, pc, selected, linked, allowances, measured>>
      /\ pc # "end"
  BY DEF Others, EditFile, BreakSyntax, StoreBaseline, Change
<1>2. settled' => settled
  BY DEF Others, EditFile, BreakSyntax, StoreBaseline
<1>3. ASSUME settled', \A f \in links : size[f] # Gone
      PROVE  \A f \in links : size'[f] # Gone
  BY <1>3 DEF Others, EditFile, BreakSyntax, StoreBaseline, AInv, Types
<1>4. ASSUME settled', NEW s \in Stores, store[s] = None
      PROVE  store'[s] = None
  BY <1>4 DEF Others, EditFile, BreakSyntax, StoreBaseline, AInv, Types
<1>5. Stripped' <=> Stripped
  BY <1>1, StrippedKept DEF request
<1>6. settled' /\ LinksKnown => LinksKnown'
  BY <1>1, <1>4 DEF LinksKnown, ByLinkOnly, request
<1>7. QED BY <1>1, <1>2, <1>3, <1>4, <1>5, <1>6, Steps, LooksAre DEF LinkInv, request

LEMMA StutterLinks == LinkInv /\ UNCHANGED vars => LinkInv'
<1> SUFFICES ASSUME LinkInv, UNCHANGED vars PROVE LinkInv'
  OBVIOUS
<1>1. (Stripped' <=> Stripped) /\ (LinksKnown' <=> LinksKnown)
  BY StrippedKept, LinksKnownKept DEF vars, world, request
<1>2. QED BY <1>1 DEF LinkInv, vars, world, request, history

LEMMA StepLinkInv == AInv /\ LinkInv /\ [Next]_vars => LinkInv'
<1> SUFFICES ASSUME AInv, LinkInv, [Next]_vars PROVE LinkInv'
  OBVIOUS
<1>1. CASE Select
  BY <1>1, SelectLinks
<1>2. CASE SelectMissing \/ CheckFails \/ \E g \in Stores, f \in Files : ReadGone(g, f)
  <2>1. Abort /\ pc # "end"
    BY <1>2, Steps DEF SelectMissing, CheckFails, ReadGone, Reading
  <2>2. QED BY <2>1, AbortLinks
<1>3. CASE Probe("loc", "probe document") \/ Probe("document", "probe callable")
             \/ Probe("callable", "load loc")
  BY <1>3, ProbeLinks
<1>4. CASE Load("loc", "load document") \/ Load("document", "load callable")
             \/ Load("callable", "check")
  BY <1>4, LoadLinks
<1>5. CASE Check
  BY <1>5, CheckLinks
<1>6. CASE \E g \in Stores, f \in Files : Read(g, f)
  <2>1. PICK g \in Stores, f \in Files : Read(g, f)
    BY <1>6
  <2>2. ASSUME NEW m \in measured' PROVE m[1] \in Stores
    <3>1. m \in measured \/ m = <<g, f, size[f]>>
      BY <2>1 DEF Read
    <3>2. \A k \in measured : k[1] \in Stores
      BY DEF LinkInv
    <3>3. <<g, f, size[f]>>[1] \in Stores
      OBVIOUS
    <3>4. QED BY <3>1, <3>2, <3>3
  <2>3. QED BY <2>1, <2>2, MeasuringLinks, Steps DEF Read, Reading
<1>7. CASE \E f \in Code : ReadUnavailable(f)
  <2>1. PICK f \in Code : ReadUnavailable(f)
    BY <1>7
  <2>2. \A m \in measured' : m[1] \in Stores
    BY <2>1 DEF ReadUnavailable, LinkInv
  <2>3. QED BY <2>1, <2>2, MeasuringLinks, Steps DEF ReadUnavailable, Reading
<1>8. CASE NextGuard("loc", "read callable") \/ NextGuard("callable", "read document")
             \/ NextGuard("document", "report")
  <2>1. \A m \in measured' : m[1] \in Stores
    BY <1>8 DEF NextGuard, LinkInv
  <2>2. QED BY <1>8, <2>1, MeasuringLinks, Steps DEF NextGuard, Goto
<1>9. CASE Report
  <2>1. \A m \in measured' : m[1] \in Stores
    BY <1>9 DEF Report, LinkInv
  <2>2. QED BY <1>9, <2>1, MeasuringLinks, Steps DEF Report, Goto
<1>10. CASE Others
  BY <1>10, OthersLinks
<1>11. CASE UNCHANGED vars
  BY <1>11, StutterLinks
<1> HIDE DEF AInv, LinkInv
<1>12. QED
  BY <1>1, <1>2, <1>3, <1>4, <1>5, <1>6, <1>7, <1>8, <1>9, <1>10, <1>11
  DEF Next, Invocation

\* No allowance by a link: unless a baseline appeared or an explicit symlink
\* lost its target meanwhile, a file that only a symlink selects is judged as
\* if no baseline named it (validate_explicit_scope, run_analysis).
THEOREM LinksGrantNothing == Spec => []NoAllowanceByLink
<1>1. Spec => [](AInv /\ LinkInv)
  BY AInvariance, InitLinkInv, StepLinkInv, PTL DEF Spec
<1>2. QED BY <1>1, LinkInvFollows, PTL
=============================================================================
