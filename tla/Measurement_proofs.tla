-------------------------- MODULE Measurement_proofs --------------------------
(***************************************************************************)
(* Proofs about what an invocation measures, for any files, trees, parsers *)
(* and documents: what one file's analysis comes to is all or nothing and  *)
(* its own affair, a callable is charged the depth and the branches of its *)
(* own code and nothing else, the lines reported for it are those of the   *)
(* file it stands in, the headings of a document are those of the          *)
(* documented outline, and its sections account for every line.            *)
(***************************************************************************)
EXTENDS Measurement, Integers, FiniteSetTheorems, FunctionTheorems, SequenceTheorems,
        WellFoundedInduction, TLAPS

\* A set of natural numbers has a least one.
LEMMA Least ==
    ASSUME NEW T, T \subseteq Nat, T # {}
    PROVE  \E x \in T : \A y \in T : x <= y
<1>1. PICK x \in T : \A y \in T : ~(<<y, x>> \in OpToRel(<, Nat))
  BY NatLessThanWellFounded, WFMin
<1>2. \A y \in T : ~(y < x)
  BY <1>1 DEF OpToRel
<1>3. QED BY <1>2

---------------------------------------------------------------------------
(* What one file's analysis comes to                                       *)

IsSeq(s) == \E S : s \in Seq(S)

\* Where the analysis stands in its files
Places ==
    /\ files \in Workloads
    /\ at \in 1..Len(files) + 1
    /\ IsSeq(facts) /\ IsSeq(unavailable)
    /\ step = "open" => part = NoFacts

\* What is known of the file that is being parsed
Current ==
    step = "parse" =>
        LET done == Regions(files[at]) \ pending
        IN  /\ at \in DOMAIN files
            /\ Applicable(files[at]) /\ ~Defective(files[at])
            /\ pending \subseteq Regions(files[at])
            /\ \A j \in done :
                  /\ Sound(files[at].scripts[j])
                  /\ files[at].scripts[j].language \in parsers
            /\ DOMAIN part = DOMAIN NoFacts
            /\ \A k \in DOMAIN NoFacts :
                  part[k] = UNION {ExtractFacts(ExecutableRegion(at, files[at], files[at].scripts[j]))[k] :
                                      j \in done}

\* The languages of what has been measured have their parsers.
Served ==
    \A i \in DOMAIN facts : \A r \in RegionsOf(facts[i].file) : r.language \in parsers

IInv == Places /\ Current /\ Served /\ WholeFiles

---------------------------------------------------------------------------
\* A sequence with one element more
LEMMA Appended ==
    ASSUME NEW s, IsSeq(s), NEW e
    PROVE  /\ IsSeq(Append(s, e))
           /\ DOMAIN Append(s, e) = DOMAIN s \cup {Len(s) + 1}
           /\ Len(s) + 1 \notin DOMAIN s
           /\ \A i \in DOMAIN s : Append(s, e)[i] = s[i]
           /\ Append(s, e)[Len(s) + 1] = e
<1>1. PICK S : s \in Seq(S)
  BY DEF IsSeq
<1>2. s \in Seq(S \cup {e})
  BY <1>1
<1>3. Append(s, e) \in Seq(S \cup {e}) /\ Len(Append(s, e)) = Len(s) + 1
  BY <1>2, AppendProperties
<1>4. DOMAIN s = 1..Len(s) /\ Len(s) \in Nat /\ DOMAIN Append(s, e) = 1..Len(s) + 1
  BY <1>1, <1>3
<1>5. /\ \A i \in 1..Len(s) : Append(s, e)[i] = s[i]
      /\ Append(s, e)[Len(s) + 1] = e
  BY <1>2, AppendProperties
<1>6. IsSeq(Append(s, e))
  BY <1>3 DEF IsSeq
<1>7. QED BY <1>4, <1>5, <1>6

\* What a script answers is one of three things, and its problems are finite.
LEMMA ScriptTyped ==
    ASSUME Places, at \in DOMAIN files, NEW j \in Regions(files[at])
    PROVE  /\ files[at].scripts[j].parse \in Answers
           /\ files[at].scripts[j].retry \in Answers
           /\ \A p \in files[at].scripts[j].problems : IsFiniteSet(p)
<1>1. files \in Seq(Files)
  BY AnalysisAssumption DEF Places
<1>2. files[at] \in Files
  BY <1>1, ElementOfSeq
<1>3. j \in DOMAIN files[at].scripts /\ files[at].scripts \in Seq(Scripts)
  BY <1>2 DEF Files, Regions
<1>4. files[at].scripts[j] \in Scripts
  BY <1>3, ElementOfSeq
<1>5. \A p \in files[at].scripts[j].problems : IsFiniteSet(p)
  BY <1>3, AnalysisAssumption DEF Places
<1>6. QED BY <1>4, <1>5 DEF Scripts

\* A region that yields a tree has one without a problem.
LEMMA TreesAreSound ==
    ASSUME NEW script, Outcome(script) = "tree",
           \A p \in script.problems : IsFiniteSet(p)
    PROVE  Sound(script)
<1>1. CASE script.parse = "clean"
  BY <1>1 DEF Sound
<1>2. CASE script.parse # "clean"
  <2>1. /\ Correctable(script)
        /\ script.retry = "clean" /\ Corrected(script) \subseteq script.authorized
    BY <1>2 DEF Outcome, Accepted
  <2>2. SUFFICES ASSUME NEW p \in script.problems
                 PROVE  \E token \in p : /\ token \in script.authorized
                                         /\ p # {token} => p \ script.declared = {token}
    BY <2>1 DEF Sound, Correctable
  <2>3. Cardinality(Candidates(script, p)) = 1
    BY <2>1 DEF Correctable
  <2>4. IsFiniteSet(p) /\ IsFiniteSet(p \ script.declared)
    BY FS_Subset, p \ script.declared \subseteq p
  <2>5. IsFiniteSet(Candidates(script, p))
    BY <2>4 DEF Candidates
  <2>6. PICK token : Candidates(script, p) = {token}
    BY <2>3, <2>5, FS_Singleton
  <2>7. token \in script.authorized
    BY <2>1, <2>6 DEF Corrected
  <2>8. p = {token} \/ p \ script.declared = {token}
    BY <2>6 DEF Candidates
  <2>9. QED BY <2>7, <2>8
<1>3. QED BY <1>1, <1>2

---------------------------------------------------------------------------
\* Nothing has been measured yet.
LEMMA InitInv == Init => IInv
<1> SUFFICES ASSUME Init PROVE IInv
  OBVIOUS
<1>1. files \in Seq(Files) /\ Len(files) \in Nat
  BY AnalysisAssumption DEF Init
<1>2. IsSeq(<<>>)
  BY EmptySeq DEF IsSeq
<1>3. Places
  BY <1>1, <1>2 DEF Init, Places
<1>4. Current /\ Served
  BY DEF Init, Current, Served
<1>5. MeasuredFiles = {} /\ MissingFiles = {}
  BY DEF Init, MeasuredFiles, MissingFiles
<1>6. Accounted
  BY <1>5 DEF Init, Accounted
<1>7. MeasuredWhole /\ MissingForCause
  BY DEF Init, MeasuredWhole, MissingForCause
<1>8. QED BY <1>3, <1>4, <1>6, <1>7 DEF IInv, WholeFiles

\* The next place is one of the files or behind the last.
LEMMA NextPlace ==
    ASSUME Places, at \in DOMAIN files
    PROVE  at + 1 \in 1..Len(files) + 1 /\ at \in Nat
<1>1. files \in Seq(Files)
  BY AnalysisAssumption DEF Places
<1>2. DOMAIN files = 1..Len(files) /\ Len(files) \in Nat
  BY <1>1
<1>3. QED BY <1>2

\* A file given up for a reason of its own leaves the others as they are.
LEMMA GivenUp ==
    ASSUME IInv, at \in DOMAIN files, Applicable(files[at]),
           NEW language, NEW kind, Noted(language, kind),
           parsers \subseteq parsers',
           OwnReason([file |-> at, language |-> language, kind |-> kind])
    PROVE  IInv'
<1> DEFINE u == [file |-> at, language |-> language, kind |-> kind]
<1>1. /\ unavailable' = Append(unavailable, u)
      /\ at' = at + 1 /\ pending' = {} /\ step' = "open" /\ part' = NoFacts
      /\ files' = files /\ facts' = facts
  BY DEF Noted, NextFile
<1>2. at + 1 \in 1..Len(files) + 1 /\ at \in Nat
  BY NextPlace DEF IInv
<1> DEFINE n == Len(unavailable) + 1
<1>3. /\ IsSeq(unavailable') /\ n \notin DOMAIN unavailable
      /\ DOMAIN unavailable' = DOMAIN unavailable \cup {n}
      /\ \A i \in DOMAIN unavailable : unavailable'[i] = unavailable[i]
      /\ unavailable'[n] = u
  BY <1>1, Appended DEF IInv, Places
<1> HIDE DEF u, n
<1>4. u.file = at
  BY DEF u
<1>5. Places' /\ Current'
  BY <1>1, <1>2, <1>3 DEF IInv, Places, Current
<1>6. Served'
  BY <1>1 DEF IInv, Served, RegionsOf
<1>7. Accounted'
  <2>1. MeasuredFiles' = MeasuredFiles
    BY <1>1 DEF MeasuredFiles
  <2>2. MissingFiles' = MissingFiles \cup {at}
    BY <1>3, <1>4 DEF MissingFiles
  <2>3. at \notin MeasuredFiles \cup MissingFiles
    BY <1>2 DEF IInv, WholeFiles, Accounted
  <2>4. {i \in 1..at' - 1 : Applicable(files[i])'} = {i \in 1..at - 1 : Applicable(files[i])} \cup {at}
    BY <1>1, <1>2 DEF IInv, Applicable, Places
  <2>5. \A i, j \in DOMAIN unavailable' : unavailable'[i].file = unavailable'[j].file => i = j
    BY <1>3, <1>4, <2>3 DEF IInv, WholeFiles, Accounted, MissingFiles
  <2>6. QED BY <1>1, <2>1, <2>2, <2>3, <2>4, <2>5 DEF IInv, WholeFiles, Accounted
<1>8. MeasuredWhole'
  BY <1>1 DEF IInv, WholeFiles, MeasuredWhole, RegionsOf
<1>9. MissingForCause'
  <2>1. \A v : OwnReason(v)' <=> OwnReason(v)
    BY <1>1 DEF OwnReason, ProviderMissing, RegionsOf
  <2>2. OwnReason(u)
    BY DEF u
  <2>3. QED BY <1>3, <2>1, <2>2 DEF IInv, WholeFiles, MissingForCause
<1>10. QED BY <1>5, <1>6, <1>7, <1>8, <1>9 DEF IInv, WholeFiles

\* A file in which nothing is pending is measured whole.
LEMMA FinishInv == ASSUME IInv, FinishFile PROVE IInv'
<1> DEFINE e == [file |-> at, of |-> part]
<1>1. /\ facts' = Append(facts, e)
      /\ at' = at + 1 /\ pending' = {} /\ step' = "open" /\ part' = NoFacts
      /\ files' = files /\ unavailable' = unavailable /\ parsers' = parsers
  BY DEF FinishFile, NextFile
<1>2. at \in DOMAIN files /\ step = "parse" /\ pending = {}
  BY DEF FinishFile, At
<1>3. at + 1 \in 1..Len(files) + 1 /\ at \in Nat
  BY <1>2, NextPlace DEF IInv
<1> DEFINE n == Len(facts) + 1
<1>4. /\ IsSeq(facts') /\ n \notin DOMAIN facts
      /\ DOMAIN facts' = DOMAIN facts \cup {n}
      /\ \A i \in DOMAIN facts : facts'[i] = facts[i]
      /\ facts'[n] = e
  BY <1>1, Appended DEF IInv, Places
<1>5. e.file = at /\ e.of = part
  OBVIOUS
<1> HIDE DEF e, n
<1>6. /\ Applicable(files[at]) /\ ~Defective(files[at])
      /\ \A j \in Regions(files[at]) :
            /\ Sound(files[at].scripts[j])
            /\ files[at].scripts[j].language \in parsers
      /\ \A k \in DOMAIN NoFacts :
            part[k] = UNION {ExtractFacts(ExecutableRegion(at, files[at], files[at].scripts[j]))[k] :
                                j \in Regions(files[at])}
  <2>1. Regions(files[at]) \ pending = Regions(files[at])
    BY <1>2
  <2>2. QED BY <1>2, <2>1 DEF IInv, Current
<1>7. Places' /\ Current'
  BY <1>1, <1>3, <1>4 DEF IInv, Places, Current
<1>8. \A r \in RegionsOf(at) : r.language \in parsers
  BY <1>6 DEF RegionsOf, ExecutableRegion
<1>9. \A i : RegionsOf(i)' = RegionsOf(i)
  BY <1>1 DEF RegionsOf
<1>10. Served'
  BY <1>1, <1>4, <1>5, <1>8, <1>9 DEF IInv, Served
<1>11. Accounted'
  <2>1. MeasuredFiles' = MeasuredFiles \cup {at}
    BY <1>4, <1>5 DEF MeasuredFiles
  <2>2. MissingFiles' = MissingFiles
    BY <1>1 DEF MissingFiles
  <2>3. at \notin MeasuredFiles \cup MissingFiles
    BY <1>3 DEF IInv, WholeFiles, Accounted
  <2>4. {i \in 1..at' - 1 : Applicable(files[i])'} = {i \in 1..at - 1 : Applicable(files[i])} \cup {at}
    BY <1>1, <1>3, <1>6 DEF IInv, Applicable, Places
  <2>5. \A i, j \in DOMAIN facts' : facts'[i].file = facts'[j].file => i = j
    BY <1>4, <1>5, <2>3 DEF IInv, WholeFiles, Accounted, MeasuredFiles
  <2>6. QED BY <1>1, <2>1, <2>2, <2>3, <2>4, <2>5 DEF IInv, WholeFiles, Accounted
<1>12. MeasuredWhole'
  <2>1. \A k \in DOMAIN NoFacts :
           part[k] = UNION {ExtractFacts(r)[k] : r \in RegionsOf(at)}
    BY <1>6 DEF RegionsOf
  <2>2. QED BY <1>1, <1>4, <1>5, <1>6, <1>9, <2>1 DEF IInv, WholeFiles, MeasuredWhole
<1>13. MissingForCause'
  <2>1. SUFFICES ASSUME NEW i \in DOMAIN unavailable PROVE OwnReason(unavailable[i])'
    BY <1>1 DEF MissingForCause
  <2>2. OwnReason(unavailable[i])
    BY DEF IInv, WholeFiles, MissingForCause
  <2>3. unavailable[i].file \in 1..at - 1
    BY DEF IInv, WholeFiles, Accounted, MissingFiles
  <2>4. ProviderMissing(unavailable[i]) => ProviderMissing(unavailable[i])'
    <3>1. ~(at < unavailable[i].file)
      BY <1>3, <2>3
    <3>2. QED BY <1>1, <1>4, <1>5, <1>9, <3>1 DEF ProviderMissing
  <2>5. QED BY <1>1, <2>2, <2>4 DEF OwnReason
<1>14. QED BY <1>7, <1>10, <1>11, <1>12, <1>13 DEF IInv, WholeFiles

\* What does not touch what has been measured or given up keeps its part of
\* the invariant.
LEMMA OutcomesKept ==
    ASSUME IInv, UNCHANGED <<files, facts, unavailable>>, parsers \subseteq parsers',
           at' = at
    PROVE  Served' /\ WholeFiles'
<1>1. \A i : RegionsOf(i)' = RegionsOf(i)
  BY DEF RegionsOf
<1>2. Served'
  BY <1>1 DEF IInv, Served
<1>3. Accounted'
  BY DEF IInv, WholeFiles, Accounted, MeasuredFiles, MissingFiles
<1>4. MeasuredWhole'
  BY <1>1 DEF IInv, WholeFiles, MeasuredWhole
<1>5. MissingForCause'
  BY <1>1 DEF IInv, WholeFiles, MissingForCause, OwnReason, ProviderMissing
<1>6. QED BY <1>2, <1>3, <1>4, <1>5 DEF WholeFiles

\* A parsed region adds its facts to the file's.
LEMMA ParseInv == ASSUME IInv, NEW i \in pending, ParseRegion(i) PROVE IInv'
<1> DEFINE script == files[at].scripts[i]
<1>1. /\ At("parse") /\ Outcome(script) = "tree"
      /\ part' = With(ExtractFacts(ExecutableRegion(at, files[at], script)))
      /\ pending' = pending \ {i}
      /\ parsers' = parsers \cup {script.language}
      /\ UNCHANGED <<files, step, at, facts, unavailable>>
  BY DEF ParseRegion, AtRegion, Load
<1>2. /\ step = "parse" /\ at \in DOMAIN files
      /\ Applicable(files[at]) /\ ~Defective(files[at])
      /\ i \in Regions(files[at]) /\ pending \subseteq Regions(files[at])
      /\ DOMAIN part = DOMAIN NoFacts
  BY <1>1 DEF IInv, Current, At
<1>3. Sound(script)
  BY <1>1, <1>2, ScriptTyped, TreesAreSound DEF IInv
<1> DEFINE done == Regions(files[at]) \ pending
           of(j) == ExtractFacts(ExecutableRegion(at, files[at], files[at].scripts[j]))
<1>4. Regions(files[at]) \ pending' = done \cup {i}
  BY <1>1, <1>2
<1>5. /\ DOMAIN part' = DOMAIN NoFacts
      /\ \A k \in DOMAIN NoFacts : part'[k] = part[k] \cup of(i)[k]
  BY <1>1, <1>2 DEF With
<1>6. \A k \in DOMAIN NoFacts : part[k] = UNION {of(j)[k] : j \in done}
  BY <1>2 DEF IInv, Current
<1> HIDE DEF of, done
<1>7. \A k \in DOMAIN NoFacts : part'[k] = UNION {of(j)[k] : j \in done \cup {i}}
  BY <1>5, <1>6
<1>8. \A j \in done : Sound(files[at].scripts[j]) /\ files[at].scripts[j].language \in parsers
  BY <1>2 DEF IInv, Current, done
<1>9. Current'
  BY <1>1, <1>2, <1>3, <1>4, <1>5, <1>7, <1>8 DEF Current, of
<1>10. Places'
  BY <1>1, <1>2 DEF IInv, Places
<1>11. Served' /\ WholeFiles'
  BY <1>1, OutcomesKept
<1>12. QED BY <1>9, <1>10, <1>11 DEF IInv

\* A parser that does not load has served no file before.
LEMMA UnloadedForCause ==
    ASSUME IInv, NEW language, LoadFails(language)
    PROVE  OwnReason([file |-> at, language |-> language, kind |-> "provider"])
BY DEF IInv, Served, LoadFails, OwnReason, ProviderMissing

\* A container that cannot be divided
LEMMA ContainerInv == ASSUME IInv, ContainerUnloaded \/ ContainerUnavailable PROVE IInv'
<1>1. at \in DOMAIN files /\ Applicable(files[at])
  BY DEF ContainerUnloaded, ContainerUnavailable, Opened, At
<1>2. CASE ContainerUnloaded
  BY <1>1, <1>2, UnloadedForCause, GivenUp DEF ContainerUnloaded
<1>3. CASE ContainerUnavailable
  <2>1. parsers \subseteq parsers'
    BY <1>3 DEF ContainerUnavailable, Load
  <2>2. CASE files[at].container = "crash" /\ Noted("vue", "provider")
    <3>1. OwnReason([file |-> at, language |-> "vue", kind |-> "provider"])
      BY <2>2 DEF OwnReason, ProviderMissing
    <3>2. QED BY <1>1, <2>1, <2>2, <3>1, GivenUp
  <2>3. CASE Defective(files[at]) /\ Noted("vue", "syntax")
    <3>1. OwnReason([file |-> at, language |-> "vue", kind |-> "syntax"])
      BY <2>3 DEF OwnReason
    <3>2. QED BY <1>1, <2>1, <2>3, <3>1, GivenUp
  <2>4. QED BY <1>3, <2>2, <2>3 DEF ContainerUnavailable
<1>4. QED BY <1>2, <1>3

\* A region without a tree
LEMMA RegionInv ==
    ASSUME IInv, NEW i \in pending, RegionUnloaded(i) \/ RegionUnavailable(i)
    PROVE  IInv'
<1> DEFINE script == files[at].scripts[i]
<1>1. step = "parse" /\ at \in DOMAIN files
  BY DEF RegionUnloaded, RegionUnavailable, AtRegion, At
<1>2. Applicable(files[at]) /\ i \in Regions(files[at])
  BY <1>1 DEF IInv, Current
<1>3. CASE RegionUnloaded(i)
  BY <1>1, <1>2, <1>3, UnloadedForCause, GivenUp DEF RegionUnloaded
<1>4. CASE RegionUnavailable(i)
  <2>1. /\ Outcome(script) # "tree"
        /\ Noted(script.language, Outcome(script))
        /\ parsers \subseteq parsers'
    BY <1>4 DEF RegionUnavailable, Load
  <2>2. CASE Crashed(script)
    <3>1. Outcome(script) = "provider"
      BY <2>1, <2>2 DEF Outcome
    <3>2. "crash" \in {script.parse, script.retry}
      BY <2>2 DEF Crashed
    <3>3. OwnReason([file |-> at, language |-> script.language, kind |-> "provider"])
      BY <1>2, <3>2 DEF OwnReason, ProviderMissing
    <3>4. QED BY <1>1, <1>2, <2>1, <3>1, <3>3, GivenUp
  <2>3. CASE ~Crashed(script)
    <3>1. Outcome(script) = "syntax"
      BY <2>1, <2>3 DEF Outcome
    <3>2. script.parse # "clean" /\ script.parse # "crash"
      BY <2>1, <2>3 DEF Outcome, Accepted, Crashed
    <3>3. script.parse = "errors"
      BY <1>1, <1>2, <3>2, ScriptTyped DEF IInv, Answers
    <3>4. OwnReason([file |-> at, language |-> script.language, kind |-> "syntax"])
      BY <1>2, <3>3 DEF OwnReason
    <3>5. QED BY <1>1, <1>2, <2>1, <3>1, <3>4, GivenUp
  <2>4. QED BY <2>2, <2>3
<1>5. QED BY <1>3, <1>4

\* A file whose regions are known has none parsed.
LEMMA OpenInv == ASSUME IInv, OpenSource \/ OpenContainer PROVE IInv'
<1>1. /\ step = "open" /\ at \in DOMAIN files /\ Applicable(files[at])
      /\ step' = "parse" /\ pending' = Regions(files[at])
      /\ parsers \subseteq parsers'
      /\ UNCHANGED <<files, at, part, facts, unavailable>>
  BY DEF OpenSource, OpenContainer, Opened, At, Load
<1>2. ~Defective(files[at])
  BY DEF OpenSource, OpenContainer, Defective
<1>3. part = NoFacts
  BY <1>1 DEF IInv, Places
<1>4. \A k \in DOMAIN NoFacts : part[k] = {}
  BY <1>3 DEF NoFacts
<1>5. Places'
  BY <1>1 DEF IInv, Places
<1>6. Current'
  <2>1. Regions(files[at]) \ pending' = {}
    BY <1>1
  <2> DEFINE of(j) == ExtractFacts(ExecutableRegion(at, files[at], files[at].scripts[j]))
  <2> HIDE DEF of
  <2>2. \A k \in DOMAIN NoFacts : part[k] = UNION {of(j)[k] : j \in {}}
    BY <1>4
  <2>3. QED BY <1>1, <1>2, <1>3, <2>1, <2>2 DEF Current, of
<1>7. Served' /\ WholeFiles'
  BY <1>1, OutcomesKept
<1>8. QED BY <1>5, <1>6, <1>7 DEF IInv

\* Passing over a file that has no callables to measure
LEMMA SkipInv == ASSUME IInv, Skip PROVE IInv'
<1>1. /\ at \in DOMAIN files /\ ~Applicable(files[at])
      /\ at' = at + 1 /\ pending' = {} /\ step' = "open" /\ part' = NoFacts
      /\ UNCHANGED <<files, parsers, facts, unavailable>>
  BY DEF Skip, At, NextFile
<1>2. at + 1 \in 1..Len(files) + 1 /\ at \in Nat
  BY <1>1, NextPlace DEF IInv
<1>3. Places' /\ Current'
  BY <1>1, <1>2 DEF IInv, Places, Current
<1>4. \A i : RegionsOf(i)' = RegionsOf(i)
  BY <1>1 DEF RegionsOf
<1>5. Served'
  BY <1>1, <1>4 DEF IInv, Served
<1>6. Accounted'
  <2>1. MeasuredFiles' = MeasuredFiles /\ MissingFiles' = MissingFiles
    BY <1>1 DEF MeasuredFiles, MissingFiles
  <2>2. {i \in 1..at' - 1 : Applicable(files[i])'} = {i \in 1..at - 1 : Applicable(files[i])}
    BY <1>1, <1>2 DEF IInv, Applicable, Places
  <2>3. QED BY <1>1, <2>1, <2>2 DEF IInv, WholeFiles, Accounted
<1>7. MeasuredWhole'
  BY <1>1, <1>4 DEF IInv, WholeFiles, MeasuredWhole
<1>8. MissingForCause'
  BY <1>1, <1>4 DEF IInv, WholeFiles, MissingForCause, OwnReason, ProviderMissing
<1>9. QED BY <1>3, <1>5, <1>6, <1>7, <1>8 DEF IInv, WholeFiles

\* Every step keeps the invariant.
LEMMA NextInv == IInv /\ [Next]_vars => IInv'
<1> SUFFICES ASSUME IInv, [Next]_vars PROVE IInv'
  OBVIOUS
<1>1. CASE Skip
  BY <1>1, SkipInv
<1>2. CASE OpenSource \/ OpenContainer
  BY <1>2, OpenInv
<1>3. CASE ContainerUnloaded \/ ContainerUnavailable
  BY <1>3, ContainerInv
<1>4. CASE \E i \in pending : ParseRegion(i) \/ RegionUnloaded(i) \/ RegionUnavailable(i)
  BY <1>4, ParseInv, RegionInv
<1>5. CASE FinishFile
  BY <1>5, FinishInv
<1>6. CASE ReadFails \/ RunGuards
  <2>1. /\ UNCHANGED <<files, at, pending, parsers, part, facts, unavailable>>
        /\ step' \in {"aborted", "done"}
    BY <1>6 DEF ReadFails, RunGuards
  <2>2. Places' /\ Current'
    BY <2>1 DEF IInv, Places, Current
  <2>3. QED BY <2>1, <2>2, OutcomesKept DEF IInv
<1>7. CASE UNCHANGED vars
  <2>1. UNCHANGED <<files, step, at, pending, parsers, part, facts, unavailable>>
    BY <1>7 DEF vars, progress
  <2>2. Places' /\ Current'
    BY <2>1 DEF IInv, Places, Current
  <2>3. QED BY <2>1, <2>2, OutcomesKept DEF IInv
<1>8. QED BY <1>1, <1>2, <1>3, <1>4, <1>5, <1>6, <1>7 DEF Next

\* What one file's analysis comes to is its own affair and all or nothing
\* (_analyze_file() and analyze_files_for_runner() of analysis/pipeline.py):
\* every applicable file so far is either measured, with all facts of all its
\* regions and from sound trees only, or reported once for a reason of its own.
THEOREM FilesAreWhole == Spec => []WholeFiles
<1>1. IInv => WholeFiles
  BY DEF IInv
<1>2. QED BY InitInv, NextInv, <1>1, PTL DEF Spec

---------------------------------------------------------------------------
(* The Markdown scanner                                                    *)

\* A fence that is over: it begins with a line that opens it and ends with the
\* first that closes it.
ClosedFence(first, last) ==
    /\ first \in 1..number /\ last \in 1..number /\ first < last
    /\ first..last \subseteq fenced /\ (first..last) \cap opened = {first}
    /\ Opens(lines[first]) /\ Closes(lines[last], lines[first])
    /\ \A k \in first + 1..last - 1 : ~Closes(lines[k], lines[first])

\* What the fences read so far are
Fences ==
    /\ \A n \in (1..number) \ fenced : ~Opens(lines[n])
    /\ fence # NoFence =>
          /\ Opens(lines[fence]) /\ fence..number \subseteq fenced
          /\ (fence..number) \cap opened = {fence}
          /\ \A k \in fence + 1..number : ~Closes(lines[k], lines[fence])
    /\ \A n \in fenced :
          \/ fence # NoFence /\ fence <= n
          \/ \E first, last \in 1..number : ClosedFence(first, last) /\ n \in first..last

\* A title that begins its paragraph
BeginsTitle(n) == IsTitle(lines[n]) /\ (n = 1 \/ lines[n - 1].blank)

AtxHeading(n) == Heading(lines[n].hashes, n, n)
SetextHeading(n) == Heading(IF lines[n].under = "=" THEN 1 ELSE 2, n - 1, n)

\* A heading is one line with #, or a title and its underline.
Shape(h) ==
    \/ lines[h.start].hashes \in 1..6 /\ h = AtxHeading(h.start)
    \/ /\ h.end >= 2 /\ lines[h.end].under # "none" /\ BeginsTitle(h.end - 1)
       /\ h = SetextHeading(h.end)

Marked1(n) ==
    lines[n].hashes \in 1..6 => \E i \in DOMAIN headings : headings[i] = AtxHeading(n)

Underlines(n) ==
    n >= 2 /\ lines[n].under # "none" /\ BeginsTitle(n - 1) /\ n - 1 \notin fenced

Underlined(n) ==
    Underlines(n) => \E i \in DOMAIN headings : headings[i] = SetextHeading(n)

\* What the headings read so far are
Found ==
    /\ \A i \in DOMAIN headings :
          Shape(headings[i]) /\ (headings[i].start..headings[i].end) \cap fenced = {}
    /\ \A n \in (1..number) \ fenced : Marked1(n) /\ Underlined(n)

HeadingsAscend ==
    \A i, j \in DOMAIN headings : i < j => headings[i].end < headings[j].start

ScanInv == ScanTypeOK /\ Fences /\ Found /\ HeadingsAscend

HeadingsTo(n) == [level : 1..6, start : 1..n, end : 1..n]

LEMMA DocumentFacts ==
    ASSUME lines \in Documents
    PROVE  /\ Len(lines) \in 0..MaxLines /\ lines \in [1..Len(lines) -> Lines]
           /\ DOMAIN lines = 1..Len(lines)
<1>1. PICK n \in 0..MaxLines : lines \in [1..n -> Lines]
  BY DEF Documents
<1>2. n \in Nat
  BY ScanAssumption
<1>3. lines \in Seq(Lines) /\ Len(lines) = n
  BY <1>1, <1>2
<1>4. QED BY <1>1, <1>2, <1>3

LEMMA InitScan == ScanInit => ScanInv
<1> SUFFICES ASSUME ScanInit PROVE ScanInv
  OBVIOUS
<1>1. Len(lines) \in Nat
  BY DocumentFacts, ScanAssumption DEF ScanInit
<1>2. ScanTypeOK
  BY <1>1 DEF ScanInit, ScanTypeOK, NoFence
<1>3. QED
  BY <1>2 DEF ScanInit, ScanInv, Fences, Found, HeadingsAscend, NoFence

\* The line being read
LEMMA LineRead ==
    ASSUME ScanTypeOK, NEW n, Reading(n)
    PROVE  /\ number \in Nat /\ n \in Nat /\ n = number + 1 /\ n \in 1..Len(lines)
           /\ Len(lines) \in Nat
           /\ \A k \in 1..n : k \in 1..number \/ k = n
           /\ \A k \in 1..number : k \in 1..n /\ k < n
           /\ 1..number \subseteq 1..n
           /\ n \notin fenced
           /\ \A k \in 1..n : lines[k] \in Features
<1>1. Len(lines) \in Nat /\ lines \in [1..Len(lines) -> Lines] /\ number \in 0..Len(lines)
  BY DocumentFacts, ScanAssumption DEF ScanTypeOK
<1>2. n = number + 1 /\ number < Len(lines)
  BY DEF Reading
<1>3. \A k \in 1..n : k \in 1..Len(lines)
  BY <1>1, <1>2
<1>4. \A k \in 1..n : lines[k] \in Features
  BY <1>1, <1>3, ScanAssumption
<1>5. n \notin fenced
  BY <1>1, <1>2 DEF ScanTypeOK
<1>6. QED BY <1>1, <1>2, <1>4, <1>5

\* The headings of a longer document
LEMMA HeadingsKept ==
    ASSUME ScanTypeOK, NEW n, Reading(n)
    PROVE  /\ headings \in Seq(HeadingsTo(n)) /\ Len(headings) \in Nat
           /\ DOMAIN headings = 1..Len(headings)
           /\ \A i \in 1..Len(headings) :
                 headings[i] \in HeadingsTo(number) /\ headings[i] \in HeadingsTo(n)
<1>1. headings \in Seq(HeadingsTo(number))
  BY DEF ScanTypeOK, HeadingsTo
<1>2. DOMAIN headings = 1..Len(headings) /\ Len(headings) \in Nat
      /\ \A i \in 1..Len(headings) : headings[i] \in HeadingsTo(number)
  BY <1>1
<1>3. HeadingsTo(number) \subseteq HeadingsTo(n)
  BY LineRead DEF HeadingsTo
<1>4. headings \in [1..Len(headings) -> HeadingsTo(n)]
  BY <1>1, <1>2, <1>3, SeqDef
<1>5. QED BY <1>2, <1>3, <1>4

\* A heading more
LEMMA HeadingAdded ==
    ASSUME ScanTypeOK, NEW n, Reading(n), NEW h \in HeadingsTo(n),
           headings' = Append(headings, h)
    PROVE  /\ headings' \in Seq(HeadingsTo(n))
           /\ DOMAIN headings' = 1..Len(headings) + 1
           /\ \A i \in 1..Len(headings) : headings'[i] = headings[i]
           /\ headings'[Len(headings) + 1] = h
           /\ \A i \in DOMAIN headings' : i \in 1..Len(headings) \/ i = Len(headings) + 1
<1>1. headings \in Seq(HeadingsTo(n)) /\ Len(headings) \in Nat
  BY HeadingsKept
<1>2. QED BY <1>1

ReadLine(n) == ReadFenced(n) \/ ReadOpening(n) \/ ReadAtx(n) \/ ReadOther(n)

\* What is read with a line: its heading, if it has one.
HeadingAt(n) == IF IsAtx(lines[n]) THEN AtxHeading(n) ELSE SetextHeading(n)

LEMMA HeadingOrNone ==
    ASSUME ScanTypeOK, NEW n, ReadLine(n)
    PROVE  /\ Reading(n) /\ number' = n /\ lines' = lines
           /\ \/ headings' = headings
              \/ /\ headings' = Append(headings, HeadingAt(n))
                 /\ fence = NoFence /\ UNCHANGED <<fence, fenced>> /\ ~Opens(lines[n])
                 /\ IsAtx(lines[n]) \/ (~IsAtx(lines[n]) /\ IsSetext(n))
                 /\ HeadingAt(n) \in HeadingsTo(n)
<1>1. CASE ReadFenced(n) \/ ReadOpening(n)
  BY <1>1 DEF ReadFenced, ReadOpening
<1>2. CASE ReadAtx(n)
  BY <1>2, LineRead DEF ReadAtx, HeadingAt, AtxHeading, Heading, HeadingsTo, IsAtx
<1>3. CASE ReadOther(n)
  <2>1. /\ Reading(n) /\ fence = NoFence /\ ~Opens(lines[n]) /\ ~IsAtx(lines[n])
        /\ number' = n /\ UNCHANGED <<lines, fence, fenced>>
    BY <1>3 DEF ReadOther
  <2>2. CASE IsSetext(n)
    <3>1. n >= 2 /\ n \in Nat
      BY <2>1, <2>2, LineRead DEF IsSetext
    <3>2. HeadingAt(n) \in HeadingsTo(n)
      BY <2>1, <3>1 DEF HeadingAt, SetextHeading, Heading, HeadingsTo
    <3>3. QED BY <1>3, <2>1, <2>2, <3>2 DEF ReadOther, HeadingAt, SetextHeading
  <2>3. CASE ~IsSetext(n)
    BY <1>3, <2>1, <2>3 DEF ReadOther
  <2>4. QED BY <2>2, <2>3
<1>4. QED BY <1>1, <1>2, <1>3 DEF ReadLine

LEMMA TypesScan ==
    ASSUME ScanTypeOK, NEW n, ReadLine(n)
    PROVE  ScanTypeOK'
<1>1. Reading(n) /\ number' = n /\ lines' = lines
  BY HeadingOrNone
<1>2. lines' \in Documents /\ number' \in 0..Len(lines')
  BY <1>1, LineRead DEF ScanTypeOK
<1>3. headings' \in Seq(HeadingsTo(n))
  BY <1>1, HeadingOrNone, HeadingAdded, HeadingsKept
<1>4. fence' \in 0..n /\ fenced' \subseteq 1..n /\ opened' \subseteq 1..n
  <2>1. /\ fence \in 0..n /\ fenced \subseteq 1..n /\ opened \subseteq 1..n
        /\ n \in 0..n /\ n \in 1..n
    BY <1>1, LineRead DEF ScanTypeOK
  <2>2. /\ fence' \in {0, n, fence} /\ fenced' \in {fenced, fenced \cup {n}}
        /\ opened' \in {opened, opened \cup {n}}
    BY DEF ReadLine, ReadFenced, ReadOpening, ReadAtx, ReadOther, NoFence
  <2>3. 0 \in 0..n
    BY <1>1, LineRead
  <2>4. QED BY <2>1, <2>2, <2>3
<1>5. QED BY <1>1, <1>2, <1>3, <1>4 DEF ScanTypeOK, HeadingsTo

---------------------------------------------------------------------------
\* Fences stay what they are.
LEMMA ClosedKept ==
    ASSUME ScanTypeOK, NEW n, ReadLine(n), NEW first, NEW last, ClosedFence(first, last)
    PROVE  ClosedFence(first, last)' /\ first \in 1..n /\ last \in 1..n
<1>1. /\ fenced \subseteq fenced' /\ lines' = lines /\ number' = n /\ Reading(n)
      /\ opened' \in {opened, opened \cup {n}}
  BY DEF ReadLine, ReadFenced, ReadOpening, ReadAtx, ReadOther
<1>2. first \in 1..n /\ last \in 1..n
  BY <1>1, LineRead DEF ClosedFence
<1>3. n \notin first..last
  BY <1>1, LineRead DEF ClosedFence
<1>4. (first..last) \cap opened' = {first}
  BY <1>1, <1>3 DEF ClosedFence
<1>5. QED BY <1>1, <1>2, <1>4 DEF ClosedFence

LEMMA OutsideFences ==
    ASSUME ScanInv, NEW n, ReadAtx(n) \/ ReadOther(n)
    PROVE  Fences'
<1>1. /\ Reading(n) /\ number' = n /\ lines' = lines /\ fence = NoFence /\ fence' = NoFence
      /\ fenced' = fenced /\ ~Opens(lines[n]) /\ ReadLine(n)
  BY DEF ReadAtx, ReadOther, ReadLine
<1>2. \A k \in (1..n) \ fenced : ~Opens(lines[k])
  BY <1>1, LineRead DEF ScanInv, Fences
<1>3. ASSUME NEW k \in fenced
      PROVE  \E first, last \in 1..n : ClosedFence(first, last)' /\ k \in first..last
  <2>1. PICK first \in 1..number, last \in 1..number :
            ClosedFence(first, last) /\ k \in first..last
    BY <1>1 DEF ScanInv, Fences
  <2>2. QED BY <1>1, <2>1, ClosedKept DEF ScanInv
<1>4. QED BY <1>1, <1>2, <1>3 DEF Fences

LEMMA OpeningFences ==
    ASSUME ScanInv, NEW n, ReadOpening(n)
    PROVE  Fences'
<1>1. /\ Reading(n) /\ number' = n /\ lines' = lines /\ fence = NoFence /\ fence' = n
      /\ fenced' = fenced \cup {n} /\ Opens(lines[n]) /\ ReadLine(n)
      /\ opened' = opened \cup {n}
  BY DEF ReadOpening, ReadLine
<1>2. \A k \in (1..n) \ fenced' : ~Opens(lines[k])
  BY <1>1, LineRead DEF ScanInv, Fences
<1>3. ASSUME NEW k \in fenced
      PROVE  \E first, last \in 1..n : ClosedFence(first, last)' /\ k \in first..last
  <2>1. PICK first \in 1..number, last \in 1..number :
            ClosedFence(first, last) /\ k \in first..last
    BY <1>1 DEF ScanInv, Fences
  <2>2. QED BY <1>1, <2>1, ClosedKept DEF ScanInv
<1>4. n..n = {n} /\ n + 1..n = {} /\ n <= n
  BY <1>1, LineRead DEF ScanInv
<1>5. /\ Opens(lines'[fence']) /\ fence'..number' \subseteq fenced'
      /\ (fence'..number') \cap opened' = {fence'}
      /\ \A k \in fence' + 1..number' : ~Closes(lines'[k], lines'[fence'])
  BY <1>1, <1>4
<1>6. \A k \in fenced' :
          \/ fence' # NoFence /\ fence' <= k
          \/ \E first, last \in 1..n : ClosedFence(first, last)' /\ k \in first..last
  BY <1>1, <1>3, <1>4, LineRead DEF ScanInv, NoFence
<1>7. QED BY <1>1, <1>2, <1>5, <1>6 DEF Fences

LEMMA WithinFences ==
    ASSUME ScanInv, NEW n, ReadFenced(n)
    PROVE  Fences'
<1>1. PICK opener : opener = fence
  OBVIOUS
<1>2. /\ Reading(n) /\ number' = n /\ lines' = lines /\ fence # NoFence
      /\ fence' = IF Closes(lines[n], lines[opener]) THEN NoFence ELSE opener
      /\ fenced' = fenced \cup {n} /\ opened' = opened /\ ReadLine(n)
  BY <1>1 DEF ReadFenced, ReadLine
<1>3. /\ opener \in 1..number /\ number \in Nat /\ n \in Nat /\ n = number + 1
      /\ opener \in 1..n /\ opener < n /\ n \in 1..n
  BY <1>1, <1>2, LineRead DEF ScanInv, ScanTypeOK, NoFence
<1>4. \A k \in (1..n) \ fenced' : ~Opens(lines[k])
  BY <1>2, LineRead DEF ScanInv, Fences
<1>5. /\ Opens(lines[opener]) /\ opener..number \subseteq fenced
      /\ (opener..number) \cap opened = {opener}
      /\ \A k \in opener + 1..number : ~Closes(lines[k], lines[opener])
  BY <1>1, <1>2 DEF ScanInv, Fences
<1>6. opener..n \subseteq fenced' /\ (opener..n) \cap opened' = {opener}
  <2>1. opener..n = (opener..number) \cup {n}
    BY <1>3
  <2>2. n \notin opened
    BY <1>3 DEF ScanInv, ScanTypeOK
  <2>3. QED BY <1>2, <1>5, <2>1, <2>2
<1>7. ASSUME NEW k \in fenced'
      PROVE  \/ opener <= k /\ k \in opener..n
             \/ \E first, last \in 1..n : ClosedFence(first, last)' /\ k \in first..last
  <2>1. k \in 1..n
    BY <1>2, LineRead DEF ScanInv, ScanTypeOK
  <2>2. CASE opener <= k
    BY <1>3, <2>1, <2>2
  <2>3. CASE ~(opener <= k)
    <3>1. k \in fenced
      BY <1>2, <1>3, <2>1, <2>3
    <3>2. PICK first \in 1..number, last \in 1..number :
              ClosedFence(first, last) /\ k \in first..last
      BY <1>1, <2>3, <3>1 DEF ScanInv, Fences
    <3>3. QED BY <1>2, <3>2, ClosedKept DEF ScanInv
  <2>4. QED BY <2>2, <2>3
<1>8. CASE Closes(lines[n], lines[opener])
  <2>1. fence' = NoFence
    BY <1>2, <1>8
  <2>2. \A k \in opener + 1..n - 1 : ~Closes(lines[k], lines[opener])
    BY <1>3, <1>5
  <2>3. ClosedFence(opener, n)'
    BY <1>2, <1>3, <1>5, <1>6, <1>8, <2>2 DEF ClosedFence
  <2>4. \A k \in fenced' : \E first, last \in 1..n : ClosedFence(first, last)' /\ k \in first..last
    BY <1>3, <1>7, <2>3
  <2>5. QED BY <1>2, <1>4, <2>1, <2>4 DEF Fences
<1>9. CASE ~Closes(lines[n], lines[opener])
  <2>1. fence' = opener
    BY <1>2, <1>9
  <2>2. \A k \in opener + 1..n : ~Closes(lines[k], lines[opener])
    <3>1. \A k \in opener + 1..n : k = n \/ k \in opener + 1..number
      BY <1>3
    <3>2. QED BY <1>5, <1>9, <3>1
  <2>3. /\ Opens(lines'[fence']) /\ fence'..number' \subseteq fenced'
        /\ (fence'..number') \cap opened' = {fence'}
        /\ \A k \in fence' + 1..number' : ~Closes(lines'[k], lines'[fence'])
    BY <1>2, <1>5, <1>6, <2>1, <2>2
  <2>4. \A k \in fenced' :
            \/ fence' # NoFence /\ fence' <= k
            \/ \E first, last \in 1..n : ClosedFence(first, last)' /\ k \in first..last
    BY <1>1, <1>2, <1>7, <2>1
  <2>5. QED BY <1>2, <1>4, <2>3, <2>4 DEF Fences
<1>10. QED BY <1>8, <1>9

---------------------------------------------------------------------------
\* The last line of a fence that is over has a fence marker: it is no title.
LEMMA FenceEnds ==
    ASSUME ScanInv, fence = NoFence, number \in fenced
    PROVE  IsFence(lines[number])
<1>1. PICK first \in 1..number, last \in 1..number :
          ClosedFence(first, last) /\ number \in first..last
  BY DEF ScanInv, Fences
<1>2. last = number
  BY <1>1, DocumentFacts, ScanAssumption DEF ScanInv, ScanTypeOK
<1>3. QED BY <1>1, <1>2 DEF ClosedFence, Closes

LEMMA HeadingsStay ==
    ASSUME ScanInv, NEW n, ReadLine(n), NEW i \in DOMAIN headings
    PROVE  /\ i \in DOMAIN headings' /\ headings'[i] = headings[i]
           /\ Shape(headings[i])' /\ headings[i].end \in 1..number
           /\ headings[i].start \in 1..number
           /\ (headings[i].start..headings[i].end) \cap fenced' = {}
<1>1. /\ Reading(n) /\ number' = n /\ lines' = lines
      /\ fenced' \in {fenced, fenced \cup {n}}
  BY DEF ReadLine, ReadFenced, ReadOpening, ReadAtx, ReadOther
<1>2. headings[i] \in HeadingsTo(number) /\ i \in 1..Len(headings) /\ Len(headings) \in Nat
  BY <1>1, HeadingsKept DEF ScanInv
<1>3. i \in DOMAIN headings' /\ headings'[i] = headings[i]
  BY <1>1, <1>2, HeadingOrNone, HeadingAdded DEF ScanInv
<1>4. /\ headings[i].end \in 1..number /\ headings[i].start \in 1..number
  BY <1>2 DEF HeadingsTo
<1>5. /\ Shape(headings[i]) /\ (headings[i].start..headings[i].end) \cap fenced = {}
  BY DEF ScanInv, Found
<1>6. n \notin headings[i].start..headings[i].end
  BY <1>1, <1>4, LineRead DEF ScanInv
<1>7. Shape(headings[i])'
  BY <1>1, <1>3, <1>5 DEF Shape, BeginsTitle, AtxHeading, SetextHeading
<1>8. QED BY <1>1, <1>3, <1>4, <1>5, <1>6, <1>7

\* A heading that is added stands apart from the fences and the other headings.
LEMMA NewHeading ==
    ASSUME ScanInv, NEW n, Reading(n), fence = NoFence,
           IsAtx(lines[n]) \/ (~IsAtx(lines[n]) /\ IsSetext(n))
    PROVE  /\ HeadingAt(n).end = n /\ HeadingAt(n).start \in {n, n - 1}
           /\ Shape(HeadingAt(n))
           /\ (HeadingAt(n).start..n) \cap fenced = {}
           /\ \A i \in DOMAIN headings : headings[i].end < HeadingAt(n).start
<1>1. /\ number \in Nat /\ n \in Nat /\ n = number + 1 /\ n \notin fenced
  BY LineRead DEF ScanInv
<1>2. \A i \in DOMAIN headings : headings[i].end \in 1..number
  BY HeadingsKept DEF ScanInv, HeadingsTo
<1>3. CASE IsAtx(lines[n])
  <2>1. /\ HeadingAt(n) = AtxHeading(n)
        /\ AtxHeading(n).end = n /\ AtxHeading(n).start = n
    BY <1>3 DEF HeadingAt, AtxHeading, Heading
  <2>2. Shape(AtxHeading(n))
    BY <1>3, <2>1 DEF Shape, IsAtx
  <2>3. n..n = {n}
    BY <1>1
  <2>4. QED BY <1>1, <1>2, <2>1, <2>2, <2>3
<1>4. CASE ~IsAtx(lines[n]) /\ IsSetext(n)
  <2>1. /\ HeadingAt(n) = SetextHeading(n)
        /\ SetextHeading(n).end = n /\ SetextHeading(n).start = n - 1
    BY <1>4 DEF HeadingAt, SetextHeading, Heading
  <2>2. Shape(SetextHeading(n))
    <3>1. n >= 2 /\ lines[n].under # "none" /\ IsTitle(lines[n - 1])
      BY <1>4 DEF IsSetext
    <3>2. n - 1 = 1 \/ lines[n - 1 - 1].blank
      <4>1. CASE n >= 3
        <5>1. n - 1 - 1 = n - 2
          BY <1>1
        <5>2. QED BY <1>4, <4>1, <5>1 DEF IsSetext
      <4>2. CASE ~(n >= 3)
        BY <1>1, <3>1, <4>2
      <4>3. QED BY <4>1, <4>2
    <3>3. QED BY <2>1, <3>1, <3>2 DEF Shape, BeginsTitle
  <2>3. number \notin fenced
    BY <1>1, <1>4, FenceEnds DEF IsSetext, IsTitle
  <2>4. n - 1..n = {number, n} /\ n - 1 = number
    BY <1>1
  <2>5. \A i \in DOMAIN headings : headings[i].end # number
    BY <1>1, <1>4 DEF IsSetext
  <2>6. QED BY <1>1, <1>2, <2>1, <2>2, <2>3, <2>4, <2>5
<1>5. QED BY <1>3, <1>4

LEMMA OrderScan ==
    ASSUME ScanInv, NEW n, ReadLine(n)
    PROVE  HeadingsAscend'
<1>1. Reading(n) /\ DOMAIN headings = 1..Len(headings) /\ Len(headings) \in Nat
  BY HeadingOrNone, HeadingsKept DEF ScanInv
<1>2. \A i \in DOMAIN headings : headings'[i] = headings[i]
  BY HeadingsStay
<1>3. CASE headings' = headings
  BY <1>3 DEF ScanInv, HeadingsAscend
<1>4. CASE headings' # headings
  <2>1. /\ headings' = Append(headings, HeadingAt(n)) /\ HeadingAt(n) \in HeadingsTo(n)
        /\ fence = NoFence
        /\ IsAtx(lines[n]) \/ (~IsAtx(lines[n]) /\ IsSetext(n))
    BY <1>4, HeadingOrNone DEF ScanInv
  <2>2. /\ DOMAIN headings' = 1..Len(headings) + 1 /\ headings'[Len(headings) + 1] = HeadingAt(n)
        /\ \A i \in DOMAIN headings' : i \in 1..Len(headings) \/ i = Len(headings) + 1
    BY <1>1, <2>1, HeadingAdded DEF ScanInv
  <2>3. \A i \in DOMAIN headings : headings[i].end < HeadingAt(n).start
    BY <1>1, <2>1, NewHeading
  <2>4. SUFFICES ASSUME NEW i \in DOMAIN headings', NEW j \in DOMAIN headings', i < j
                 PROVE  headings'[i].end < headings'[j].start
    BY DEF HeadingsAscend
  <2>5. i \in 1..Len(headings)
    BY <1>1, <2>2, <2>4
  <2>6. CASE j \in 1..Len(headings)
    BY <1>1, <1>2, <2>4, <2>5, <2>6 DEF ScanInv, HeadingsAscend
  <2>7. CASE j = Len(headings) + 1
    BY <1>1, <1>2, <2>2, <2>3, <2>5, <2>7
  <2>8. QED BY <2>2, <2>4, <2>6, <2>7
<1>5. QED BY <1>3, <1>4

\* What was found of the lines before stays found.
LEMMA FoundKept ==
    ASSUME ScanInv, NEW n, ReadLine(n), NEW k \in (1..number) \ fenced
    PROVE  Marked1(k)' /\ Underlined(k)'
<1>1. /\ lines' = lines /\ fenced' \in {fenced, fenced \cup {n}} /\ Reading(n)
  BY DEF ReadLine, ReadFenced, ReadOpening, ReadAtx, ReadOther
<1>2. Marked1(k) /\ Underlined(k)
  BY DEF ScanInv, Found
<1>3. \A i \in DOMAIN headings : i \in DOMAIN headings' /\ headings'[i] = headings[i]
  BY HeadingsStay
<1>4. Underlines(k)' => Underlines(k)
  BY <1>1 DEF Underlines, BeginsTitle
<1>5. Underlined(k)'
  BY <1>1, <1>2, <1>3, <1>4 DEF Underlined, SetextHeading
<1>6. Marked1(k)'
  BY <1>1, <1>2, <1>3 DEF Marked1, AtxHeading
<1>7. QED BY <1>5, <1>6

\* The title of an underline is no heading yet.
LEMMA TitleFree ==
    ASSUME ScanInv, NEW n, Reading(n), Underlines(n)
    PROVE  IsSetext(n)
<1>1. number \in Nat /\ n \in Nat /\ n = number + 1
  BY LineRead DEF ScanInv
<1>2. /\ n >= 2 /\ lines[n].under # "none" /\ IsTitle(lines[n - 1])
      /\ n - 1 = 1 \/ lines[n - 1 - 1].blank
  BY DEF Underlines, BeginsTitle
<1>3. n >= 3 => lines[n - 2].blank
  <2>1. n - 1 - 1 = n - 2 /\ (n >= 3 => n - 1 # 1)
    BY <1>1
  <2>2. QED BY <1>2, <2>1
<1>4. ASSUME NEW i \in DOMAIN headings, headings[i].end = n - 1
      PROVE  FALSE
  <2>1. headings[i] \in HeadingsTo(number) /\ Shape(headings[i])
    BY <1>1, HeadingsKept DEF ScanInv, Found
  <2>2. CASE lines[headings[i].start].hashes \in 1..6 /\ headings[i] = AtxHeading(headings[i].start)
    <3>1. headings[i].start = n - 1
      BY <1>4, <2>2 DEF AtxHeading, Heading
    <3>2. QED BY <1>2, <2>2, <3>1 DEF IsTitle
  <2>3. CASE /\ headings[i].end >= 2 /\ BeginsTitle(headings[i].end - 1)
    <3>1. n >= 3 /\ headings[i].end - 1 = n - 2
      BY <1>1, <1>4, <2>3
    <3>2. QED BY <1>3, <2>3, <3>1 DEF BeginsTitle, IsTitle
  <2>4. QED BY <2>1, <2>2, <2>3 DEF Shape
<1>5. QED BY <1>2, <1>3, <1>4 DEF IsSetext

LEMMA LengthOfHeadings == ASSUME ScanInv PROVE Len(headings) \in Nat
<1>1. headings \in Seq(HeadingsTo(number))
  BY DEF ScanInv, ScanTypeOK, HeadingsTo
<1>2. QED BY <1>1

LEMMA FoundScan ==
    ASSUME ScanInv, NEW n, ReadLine(n)
    PROVE  Found'
<1>1. /\ Reading(n) /\ number' = n /\ lines' = lines
      /\ DOMAIN headings = 1..Len(headings) /\ Len(headings) \in Nat
      /\ n \in Nat /\ n = number + 1
      /\ \A k \in 1..n : k \in 1..number \/ k = n
      /\ n \in 1..Len(lines)
  BY HeadingOrNone, HeadingsKept, LineRead DEF ScanInv
<1>2. \A i \in DOMAIN headings :
          /\ i \in DOMAIN headings' /\ headings'[i] = headings[i]
          /\ Shape(headings[i])' /\ (headings[i].start..headings[i].end) \cap fenced' = {}
  BY HeadingsStay
<1>3. \A k \in (1..number) \ fenced' : Marked1(k)' /\ Underlined(k)'
  <2>1. fenced \subseteq fenced'
    BY DEF ReadLine, ReadFenced, ReadOpening, ReadAtx, ReadOther
  <2>2. QED BY <2>1, FoundKept
<1>4. CASE headings' = headings
  <2>1. n \notin fenced' => Marked1(n)' /\ Underlined(n)'
    <3>1. SUFFICES ASSUME n \notin fenced'
                   PROVE  ~IsAtx(lines[n]) /\ ~Underlines(n)'
      BY <1>1 DEF IsAtx, Marked1, Underlined
    <3>2. fenced' = fenced /\ ~IsAtx(lines[n]) /\ ~IsSetext(n)
      <4>1. ~ReadFenced(n) /\ ~ReadOpening(n)
        BY <3>1 DEF ReadFenced, ReadOpening
      <4>2. headings' # Append(headings, HeadingAt(n))
        <5>1. headings \in Seq(HeadingsTo(number))
          BY DEF ScanInv, ScanTypeOK, HeadingsTo
        <5>2. Len(Append(headings, HeadingAt(n))) = Len(headings) + 1
          <6>1. headings \in Seq(HeadingsTo(number) \cup {HeadingAt(n)})
            BY <5>1
          <6>2. QED BY <6>1
        <5>3. Len(headings) + 1 # Len(headings)
          BY LengthOfHeadings
        <5>4. QED BY <1>4, <5>2, <5>3
      <4>3. QED BY <4>1, <4>2 DEF ReadLine, ReadAtx, ReadOther, HeadingAt, AtxHeading, SetextHeading
    <3>3. QED BY <1>1, <3>2, TitleFree DEF Underlines, BeginsTitle
  <2>2. QED BY <1>1, <1>2, <1>3, <1>4, <2>1 DEF Found
<1>5. CASE headings' # headings
  <2>1. /\ headings' = Append(headings, HeadingAt(n)) /\ HeadingAt(n) \in HeadingsTo(n)
        /\ fence = NoFence /\ fenced' = fenced
        /\ IsAtx(lines[n]) \/ (~IsAtx(lines[n]) /\ IsSetext(n))
    BY <1>5, HeadingOrNone DEF ScanInv
  <2>2. /\ DOMAIN headings' = 1..Len(headings) + 1 /\ headings'[Len(headings) + 1] = HeadingAt(n)
        /\ \A i \in DOMAIN headings' : i \in 1..Len(headings) \/ i = Len(headings) + 1
    BY <1>1, <2>1, HeadingAdded DEF ScanInv
  <2>3. PICK l : l = Len(headings) + 1
    OBVIOUS
  <2>4. PICK h : h = HeadingAt(n)
    OBVIOUS
  <2>5. /\ h.end = n /\ Shape(h) /\ (h.start..n) \cap fenced = {}
    BY <1>1, <2>1, <2>4, NewHeading
  <2>6. Shape(h)'
    BY <1>1, <2>4, <2>5 DEF Shape, BeginsTitle, AtxHeading, SetextHeading
  <2>7. \A i \in DOMAIN headings' :
            Shape(headings[i])' /\ (headings'[i].start..headings'[i].end) \cap fenced' = {}
    BY <1>1, <1>2, <2>1, <2>2, <2>4, <2>5, <2>6 DEF Shape, BeginsTitle, AtxHeading, SetextHeading
  <2>8. Marked1(n)'
    BY <1>1, <2>1, <2>2, <2>3 DEF Marked1, HeadingAt, IsAtx, AtxHeading
  <2>9. Underlined(n)'
    <3>1. CASE IsAtx(lines[n])
      <4>1. lines[n] \in Lines
        BY <1>1, DocumentFacts DEF ScanInv, ScanTypeOK
      <4>2. lines[n].under = "none"
        BY <3>1, <4>1, ScanAssumption DEF IsAtx
      <4>3. QED BY <1>1, <4>2 DEF Underlined, Underlines
    <3>2. CASE ~IsAtx(lines[n])
      <4>1. h = SetextHeading(n)'
        BY <1>1, <2>4, <3>2 DEF HeadingAt, SetextHeading
      <4>2. QED BY <2>2, <2>3, <2>4, <4>1 DEF Underlined
    <3>3. QED BY <3>1, <3>2
  <2>10. QED BY <1>1, <1>3, <2>7, <2>8, <2>9 DEF Found
<1>6. QED BY <1>4, <1>5

LEMMA StepScan == ScanInv /\ [ScanNext]_scanVars => ScanInv'
<1> SUFFICES ASSUME ScanInv, [ScanNext]_scanVars PROVE ScanInv'
  OBVIOUS
<1>1. ASSUME NEW n, ReadLine(n)
      PROVE  ScanInv'
  <2>1. Fences'
    BY <1>1, OutsideFences, OpeningFences, WithinFences DEF ReadLine
  <2>2. QED BY <1>1, <2>1, TypesScan, FoundScan, OrderScan DEF ScanInv
<1>2. CASE UNCHANGED scanVars
  BY <1>2 DEF scanVars, ScanInv, ScanTypeOK, Fences, ClosedFence, Found, Marked1, Underlined,
     Underlines, Shape, BeginsTitle, AtxHeading, SetextHeading, HeadingsAscend
<1>3. QED BY <1>1, <1>2 DEF ScanNext, ReadLine

LEMMA ScanInvariance == ScanSpec => []ScanInv
BY InitScan, StepScan, PTL DEF ScanSpec

---------------------------------------------------------------------------
\* What closes a fence, as HeadingsExact puts it
LEMMA ClosingLine ==
    ASSUME NEW l \in Features, NEW opener \in Features, Opens(opener)
    PROVE  Closes(l, opener) <=> /\ l.marker = opener.marker
                                 /\ l.info = "none" /\ l.run >= opener.run
BY DEF Opens, Closes, IsFence, Features

\* Both readings of a title agree.
LEMMA TitlesAgree ==
    ASSUME ScanInv, NEW k \in Outside, lines[k] \in Features
    PROVE  Eligible(k) <=> BeginsTitle(k)
<1>1. ~IsFence(lines[k]) <=> lines[k].marker = "none" \/ lines[k].run < 3
  BY DEF IsFence, Features
<1>2. QED BY <1>1 DEF Eligible, BeginsTitle, IsTitle

\* A line of a fence read so far, as HeadingsExact puts it
LEMMA FencedLines ==
    ASSUME ScanInv, NEW n \in fenced, number \in Nat, fenced \subseteq 1..number,
           \A k \in 1..number : lines[k] \in Features
    PROVE  \E first \in 1..n, last \in n..number : Fence(first, last)
<1>1. n \in 1..number
  OBVIOUS
<1>2. CASE fence # NoFence /\ fence <= n
  <2>1. /\ fence \in 1..number /\ Opens(lines[fence]) /\ fence..number \subseteq fenced
        /\ (fence..number) \cap opened = {fence}
        /\ \A k \in fence + 1..number : ~Closes(lines[k], lines[fence])
    BY <1>2 DEF ScanInv, ScanTypeOK, Fences, NoFence
  <2>2. \A k \in fence + 1..number - 1 : k \in fence + 1..number /\ k \in 1..number
    BY <2>1
  <2>3. fence \in 1..n /\ number \in n..number
    BY <1>1, <1>2, <2>1
  <2>4. \A k \in fence + 1..number - 1 :
            ~(/\ lines[k].marker = lines[fence].marker
              /\ lines[k].info = "none" /\ lines[k].run >= lines[fence].run)
    BY <2>1, <2>2, ClosingLine
  <2>5. Fence(fence, number)
    BY <2>1, <2>4 DEF Fence
  <2>6. QED BY <2>3, <2>5
<1>3. CASE ~(fence # NoFence /\ fence <= n)
  <2>1. PICK first \in 1..number, last \in 1..number :
            ClosedFence(first, last) /\ n \in first..last
    BY <1>3 DEF ScanInv, Fences
  <2>2. /\ first < last /\ first..last \subseteq fenced /\ (first..last) \cap opened = {first}
        /\ Opens(lines[first]) /\ Closes(lines[last], lines[first])
        /\ \A k \in first + 1..last - 1 : ~Closes(lines[k], lines[first])
    BY <2>1 DEF ClosedFence
  <2>3. \A k \in first + 1..last - 1 : k \in 1..number
    OBVIOUS
  <2>4. first \in 1..n /\ last \in n..number
    BY <1>1, <2>1
  <2>5. \A k \in first + 1..last - 1 :
            ~(/\ lines[k].marker = lines[first].marker
              /\ lines[k].info = "none" /\ lines[k].run >= lines[first].run)
    BY <2>2, <2>3, ClosingLine
  <2>6. /\ last > first /\ lines[last].marker = lines[first].marker
        /\ lines[last].info = "none" /\ lines[last].run >= lines[first].run
    BY <2>2, ClosingLine
  <2>7. Fence(first, last)
    BY <2>2, <2>5, <2>6 DEF Fence
  <2>8. QED BY <2>4, <2>7
<1>4. QED BY <1>2, <1>3

\* Every heading is one of the outline.
LEMMA HeadingsSound ==
    ASSUME ScanInv, number \in Nat, \A k \in 1..number : lines[k] \in Features,
           NEW i \in DOMAIN headings
    PROVE  headings[i] \in Outline
<1> PICK h : h = headings[i]
  OBVIOUS
<1>1. h.start \in 1..number /\ h.end \in 1..number
  <2>1. headings \in Seq(HeadingsTo(number))
    BY DEF ScanInv, ScanTypeOK, HeadingsTo
  <2>2. h \in HeadingsTo(number)
    BY <2>1
  <2>3. QED BY <2>2 DEF HeadingsTo
<1>2. Shape(h) /\ (h.start..h.end) \cap fenced = {}
  BY DEF ScanInv, Found
<1>3. CASE lines[h.start].hashes \in 1..6 /\ h = AtxHeading(h.start)
  <2>1. h.end = h.start
    BY <1>3 DEF AtxHeading, Heading
  <2>2. h.start \in Outside
    BY <1>1, <1>2, <2>1 DEF Outside
  <2>3. QED BY <1>3, <2>2 DEF Outline, AtxHeading
<1>4. CASE /\ h.end >= 2 /\ lines[h.end].under # "none" /\ BeginsTitle(h.end - 1)
           /\ h = SetextHeading(h.end)
  <2>1. h.start = h.end - 1
    BY <1>4 DEF SetextHeading, Heading
  <2>2. h.end \in Outside /\ h.end - 1 \in Outside
    BY <1>1, <1>2, <2>1 DEF Outside
  <2>3. lines[h.end - 1] \in Features
    BY <2>2 DEF Outside
  <2>4. Eligible(h.end - 1)
    BY <1>4, <2>2, <2>3, TitlesAgree
  <2>5. QED BY <1>4, <2>2, <2>4 DEF Outline, SetextHeading
<1>5. QED BY <1>2, <1>3, <1>4 DEF Shape

\* Every heading of the outline is found.
LEMMA HeadingsComplete ==
    ASSUME ScanInv, number \in Nat, \A k \in 1..number : lines[k] \in Features,
           NEW h \in Outline
    PROVE  \E i \in DOMAIN headings : headings[i] = h
<1>1. \A n \in Outside : Marked1(n) /\ Underlined(n)
  BY DEF ScanInv, Found, Outside
<1>2. CASE \E n \in Outside : lines[n].hashes \in 1..6 /\ h = AtxHeading(n)
  BY <1>1, <1>2 DEF Marked1
<1>3. CASE \E n \in Outside :
               lines[n].under # "none" /\ Eligible(n - 1) /\ h = SetextHeading(n)
  <2>1. PICK n \in Outside :
            lines[n].under # "none" /\ Eligible(n - 1) /\ h = SetextHeading(n)
    BY <1>3
  <2>2. n - 1 \in Outside /\ n \in 1..number
    BY <2>1 DEF Eligible, Outside
  <2>3. n >= 2 /\ n - 1 \notin fenced /\ lines[n - 1] \in Features
    BY <2>2 DEF Outside
  <2>4. BeginsTitle(n - 1)
    BY <2>1, <2>2, <2>3, TitlesAgree
  <2>5. QED BY <1>1, <2>1, <2>3, <2>4 DEF Underlined, Underlines
<1>4. QED BY <1>2, <1>3 DEF Outline, AtxHeading, SetextHeading

LEMMA HeadingsFollow == ScanInv => HeadingsExact
<1> SUFFICES ASSUME ScanInv, Scanned PROVE HeadingsExact
  BY DEF HeadingsExact
<1>1. /\ number \in Nat /\ fenced \subseteq 1..number
      /\ \A k \in 1..number : lines[k] \in Features
  <2>1. /\ Len(lines) \in Nat /\ lines \in [1..Len(lines) -> Lines]
        /\ fenced \subseteq 1..number /\ number = Len(lines)
    BY DocumentFacts, ScanAssumption DEF ScanInv, ScanTypeOK, Scanned
  <2>2. QED BY <2>1, ScanAssumption
<1>2. \A n \in Outside : ~Opens(lines[n])
  BY DEF ScanInv, Fences, Outside
<1>3. \A n \in fenced : \E first \in 1..n, last \in n..number : Fence(first, last)
  BY <1>1, FencedLines
<1>4. {headings[i] : i \in DOMAIN headings} = Outline
  BY <1>1, HeadingsSound, HeadingsComplete
<1>5. QED BY <1>2, <1>3, <1>4 DEF HeadingsExact

LEMMA StartsAscend ==
    ASSUME ScanInv, Scanned
    PROVE  /\ DOMAIN headings = 1..Len(headings) /\ Len(headings) \in Nat /\ number \in Nat
           /\ \A i \in DOMAIN headings :
                 /\ headings[i].start \in 1..number /\ headings[i].end \in 1..number
                 /\ headings[i].start <= headings[i].end
           /\ \A i, j \in DOMAIN headings : i < j => headings[i].start < headings[j].start
<1>1. headings \in Seq(HeadingsTo(number)) /\ number \in Nat
  BY DocumentFacts, ScanAssumption DEF ScanInv, ScanTypeOK, HeadingsTo, Scanned
<1>2. DOMAIN headings = 1..Len(headings) /\ Len(headings) \in Nat
  BY <1>1
<1>3. \A i \in DOMAIN headings : headings[i].start \in 1..number /\ headings[i].end \in 1..number
  <2>1. \A i \in 1..Len(headings) : headings[i] \in HeadingsTo(number)
    BY <1>1
  <2>2. QED BY <1>2, <2>1 DEF HeadingsTo
<1>4. \A i \in DOMAIN headings : headings[i].start <= headings[i].end
  BY <1>1, <1>3 DEF ScanInv, Found, Shape, AtxHeading, SetextHeading, Heading
<1>5. \A i, j \in DOMAIN headings : i < j => headings[i].end < headings[j].start
  BY DEF ScanInv, HeadingsAscend
<1>6. \A i, j \in DOMAIN headings : i < j => headings[i].start < headings[j].start
  BY <1>1, <1>3, <1>4, <1>5
<1>7. QED BY <1>1, <1>2, <1>3, <1>4, <1>6

\* A line belongs to the section of the last heading that starts at or above it.
LEMMA OneSection ==
    ASSUME ScanInv, Scanned, NEW n \in 1..number, Len(headings) > 0, n >= headings[1].start
    PROVE  \E i \in DOMAIN Sections :
              /\ n \in Sections[i].start..Sections[i].end
              /\ \A j \in DOMAIN Sections \ {i} :
                    n \notin Sections[j].start..Sections[j].end
<1>1. /\ DOMAIN headings = 1..Len(headings) /\ Len(headings) \in Nat /\ number \in Nat
      /\ \A i \in DOMAIN headings : headings[i].start \in Nat
      /\ \A i, j \in DOMAIN headings : i < j => headings[i].start < headings[j].start
  BY StartsAscend
<1>2. DOMAIN Sections = 1..Len(headings)
  BY <1>1 DEF Sections
<1>3. \A i \in 1..Len(headings) :
          /\ Sections[i].start = headings[i].start
          /\ Sections[i].end = IF i < Len(headings) THEN headings[i + 1].start - 1 ELSE number
  BY <1>1 DEF Sections, EndOfSection, Scanned
<1> DEFINE later == {i \in 1..Len(headings) : headings[i].start > n}
<1>4. PICK l \in 1..Len(headings) :
          /\ headings[l].start <= n
          /\ l < Len(headings) => headings[l + 1].start > n
  <2>1. CASE later = {}
    <3>1. Len(headings) \in 1..Len(headings)
      BY <1>1
    <3>2. QED BY <1>1, <2>1, <3>1
  <2>2. CASE later # {}
    <3>1. PICK m \in later : \A y \in later : m <= y
      <4>1. later \subseteq Nat
        BY <1>1
      <4> HIDE DEF later
      <4>2. QED BY <2>2, <4>1, Least
    <3>2. m # 1 /\ m \in 1..Len(headings)
      BY <1>1, <3>1
    <3>3. m - 1 \in 1..Len(headings) /\ m - 1 \notin later
      BY <1>1, <3>1, <3>2
    <3>4. QED BY <1>1, <3>1, <3>2, <3>3
  <2>3. QED BY <2>1, <2>2
<1>5. n \in Sections[l].start..Sections[l].end
  <2> HIDE DEF later
  <2>1. headings[l].start \in Nat /\ n \in Nat /\ n <= number
    BY <1>1
  <2>2. Sections[l].end \in Int /\ n <= Sections[l].end
    <3>1. CASE l < Len(headings)
      <4>1. l + 1 \in DOMAIN headings
        BY <1>1, <3>1
      <4>2. PICK s \in Nat : s = headings[l + 1].start /\ s > n
        BY <1>1, <1>4, <3>1, <4>1
      <4>3. Sections[l].end = s - 1
        BY <1>3, <3>1, <4>2
      <4>4. QED BY <2>1, <4>2, <4>3
    <3>2. CASE ~(l < Len(headings))
      BY <1>1, <1>3, <2>1, <3>2
    <3>3. QED BY <3>1, <3>2
  <2>3. Sections[l].start \in Nat /\ Sections[l].start <= n
    BY <1>3, <1>4, <2>1
  <2>4. QED BY <2>1, <2>2, <2>3
<1>6. ASSUME NEW j \in 1..Len(headings), j # l
      PROVE  n \notin Sections[j].start..Sections[j].end
  <2>1. CASE j < l
    <3>1. /\ j + 1 \in 1..Len(headings) /\ j < Len(headings)
          /\ j + 1 = l \/ j + 1 < l
      BY <1>1, <2>1
    <3>2. headings[j + 1].start <= headings[l].start
      BY <1>1, <3>1
    <3>3. headings[j + 1].start \in Nat /\ headings[l].start \in Nat
      <4>1. j + 1 \in DOMAIN headings /\ l \in DOMAIN headings
        BY <1>1, <3>1
      <4>2. QED BY <1>1, <4>1
    <3>4. headings[j + 1].start - 1 < n
      BY <1>4, <3>2, <3>3
    <3>5. Sections[j].end = headings[j + 1].start - 1
      BY <1>3, <3>1
    <3>6. ~(n <= Sections[j].end)
      BY <3>3, <3>4, <3>5
    <3>7. QED BY <3>6
  <2>2. CASE l < j
    <3>1. /\ l + 1 \in 1..Len(headings) /\ l < Len(headings)
          /\ l + 1 = j \/ l + 1 < j
      BY <1>1, <2>2
    <3>2. /\ headings[l + 1].start <= headings[j].start
          /\ headings[l + 1].start \in Nat /\ headings[j].start \in Nat
      BY <1>1, <3>1
    <3>3. n < headings[j].start
      BY <1>1, <1>4, <3>1, <3>2
    <3>4. Sections[j].start = headings[j].start
      BY <1>3
    <3>5. ~(Sections[j].start <= n)
      BY <1>1, <3>2, <3>3, <3>4
    <3>6. QED BY <3>5
  <2>3. j \in Nat /\ l \in Nat
    BY <1>1
  <2>4. QED BY <1>6, <2>1, <2>2, <2>3
<1>7. QED BY <1>2, <1>5, <1>6

LEMMA OneMore ==
    ASSUME NEW a \in Int, NEW b \in Int, NEW c \in Int, NEW d \in Int, NEW r \in Nat,
           a - b + 1 <= r, ~(b - 1 - c + 1 > d)
    PROVE  ~(a - c + 1 > d + r)
OBVIOUS

\* Stretches that follow on one another, none longer than r
LEMMA AddUp ==
    ASSUME NEW n \in Nat \ {0}, NEW r \in Nat, NEW s \in [1..n -> Int], NEW e \in [1..n -> Int],
           \A i \in 1..n : e[i] - s[i] + 1 <= r,
           \A i \in 1..n - 1 : e[i] = s[i + 1] - 1
    PROVE  e[n] - s[1] + 1 <= r * n
<1> DEFINE most == [i \in 1..n |-> r * i]
           over == {i \in 1..n : e[i] - s[1] + 1 > most[i]}
<1>1. /\ n \in 1..n /\ 1 \in 1..n /\ most[1] = r /\ most[n] = r * n
      /\ \A i \in 1..n : most[i] \in Int
      /\ \A i \in 1..n - 1 : i \in 1..n /\ i + 1 \in 1..n /\ most[i + 1] = most[i] + r
  OBVIOUS
<1> HIDE DEF most
<1>2. ASSUME over # {}
      PROVE  FALSE
  <2>1. over \subseteq Nat
    OBVIOUS
  <2>2. PICK m \in over : \A y \in over : m <= y
    <3> HIDE DEF over
    <3>1. QED BY <1>2, <2>1, Least
  <2>3. m \in 1..n /\ e[m] - s[1] + 1 > most[m]
    BY <2>2
  <2>4. m # 1
    BY <1>1, <2>3
  <2>5. PICK k \in 1..n - 1 : k + 1 = m
    BY <2>3, <2>4
  <2>6. k \in 1..n /\ k < m
    BY <2>5
  <2>7. k \notin over
    BY <2>2, <2>6
  <2>8. ~(e[k] - s[1] + 1 > most[k])
    BY <2>6, <2>7
  <2>9. e[k] = s[m] - 1 /\ e[m] - s[m] + 1 <= r /\ most[m] = most[k] + r
    BY <1>1, <2>3, <2>5
  <2>10. /\ most[k] \in Int /\ most[m] \in Int
         /\ e[m] \in Int /\ e[k] \in Int /\ s[m] \in Int /\ s[1] \in Int
    BY <1>1, <2>3, <2>6
  <2> HIDE DEF over
  <2>11. ~(s[m] - 1 - s[1] + 1 > most[k])
    BY <2>8, <2>9
  <2>12. ~(e[m] - s[1] + 1 > most[k] + r)
    BY <2>9, <2>10, <2>11, OneMore
  <2>13. QED BY <2>3, <2>9, <2>12
<1>3. ~(e[n] - s[1] + 1 > most[n])
  BY <1>1, <1>2
<1>4. most[n] \in Int /\ e[n] \in Int /\ s[1] \in Int
  BY <1>1
<1>5. QED BY <1>1, <1>3, <1>4

\* Sections that pass together are no longer than they may be.
LEMMA SectionsAddUp ==
    ASSUME ScanInv, Scanned, NEW reviewAt \in 1..MaxLines, Len(headings) > 0,
           SectionState(reviewAt) = "pass"
    PROVE  number - headings[1].start + 1 <= reviewAt * Len(headings)
<1> DEFINE l == Len(headings)
           first == [i \in 1..l |-> headings[i].start]
           end == [i \in 1..l |-> EndOfSection(i)]
<1>1. /\ DOMAIN headings = 1..l /\ l \in Nat \ {0} /\ number \in Nat
      /\ \A i \in 1..l : headings[i].start \in Nat
      /\ reviewAt \in Nat
  BY StartsAscend, ScanAssumption
<1>2. first \in [1..l -> Int] /\ end \in [1..l -> Int]
  BY <1>1 DEF EndOfSection, Scanned
<1>3. \A i \in 1..l : end[i] - first[i] + 1 <= reviewAt
  <2>1. SUFFICES ASSUME NEW i \in 1..l
                 PROVE  end[i] - first[i] + 1 <= reviewAt
    OBVIOUS
  <2>2. i \in DOMAIN Sections /\ Sections[i].physicalLines = end[i] - first[i] + 1
    BY <1>1 DEF Sections
  <2>3. ~(Sections[i].physicalLines > reviewAt)
    BY <2>2 DEF SectionState
  <2>4. end[i] \in Int /\ first[i] \in Int
    BY <1>2
  <2> HIDE DEF end, first
  <2>5. QED BY <1>1, <2>2, <2>3, <2>4
<1>4. \A i \in 1..l - 1 : end[i] = first[i + 1] - 1
  BY <1>1 DEF EndOfSection
<1>5. end[l] = number /\ first[1] = headings[1].start
  BY <1>1 DEF EndOfSection, Scanned
<1> HIDE DEF end, first
<1>6. end[l] - first[1] + 1 <= reviewAt * l
  BY <1>1, <1>2, <1>3, <1>4, AddUp
<1>7. QED BY <1>5, <1>6

LEMMA SectionsFollow == ScanInv => SectionsAccount
<1> SUFFICES ASSUME ScanInv, Scanned PROVE SectionsAccount
  BY DEF SectionsAccount
<1>1. \A i, j \in DOMAIN headings :
          /\ headings[i].start <= headings[i].end
          /\ i < j => headings[i].end < headings[j].start
  BY StartsAscend DEF ScanInv, HeadingsAscend
<1>2. QED BY <1>1, OneSection, SectionsAddUp DEF SectionsAccount

---------------------------------------------------------------------------
(* The lines of a callable                                                 *)

\* A bounded set of natural numbers has a greatest one.
LEMMA Greatest ==
    ASSUME NEW T, T \subseteq Nat, T # {}, NEW b \in Nat, \A x \in T : x <= b
    PROVE  Max(T) \in T /\ \A y \in T : Max(T) >= y
<1> DEFINE below == {b - x : x \in T}
<1>1. below \subseteq Nat /\ below # {}
  <2>1. \A x \in T : b - x \in Nat
    OBVIOUS
  <2>2. QED BY <2>1
<1>2. PICK d \in below : \A e \in below : d <= e
  <2> HIDE DEF below
  <2>1. QED BY <1>1, Least
<1>3. PICK m \in T : d = b - m
  BY <1>2
<1>4. \A y \in T : m >= y
  <2>1. SUFFICES ASSUME NEW y \in T PROVE m >= y
    OBVIOUS
  <2>2. b - y \in below
    OBVIOUS
  <2> HIDE DEF below
  <2>3. b - m <= b - y
    BY <1>2, <1>3, <2>2
  <2>4. m \in Nat /\ y \in Nat
    OBVIOUS
  <2>5. QED BY ONLY b \in Nat, <2>3, <2>4
<1>5. QED BY <1>3, <1>4 DEF Max

\* The ancestors of the nodes up to one
Upward(tree, k, g) ==
    g = [n \in 0..k |-> IF n = 0 THEN {} ELSE {tree[n].parent} \cup g[tree[n].parent]]

IsTree(tree) ==
    /\ tree \in Seq([type : STRING, parent : Nat, marks : SUBSET STRING])
    /\ SourceOrder(tree)

LEMMA TreeFacts ==
    ASSUME NEW tree, IsTree(tree)
    PROVE  /\ Len(tree) \in Nat /\ DOMAIN tree = 1..Len(tree)
           /\ \A n \in 1..Len(tree) : tree[n].parent \in 0..n - 1
<1>1. Len(tree) \in Nat /\ DOMAIN tree = 1..Len(tree)
  BY DEF IsTree
<1>2. ASSUME NEW n \in 1..Len(tree)
      PROVE  tree[n].parent \in 0..n - 1
  <2>1. tree[n] \in [type : STRING, parent : Nat, marks : SUBSET STRING]
    BY <1>1, ElementOfSeq DEF IsTree
  <2>2. tree[n].parent \in Nat /\ tree[n].parent < n
    BY <1>1, <2>1 DEF IsTree, SourceOrder
  <2>3. QED BY <1>1, <2>2
<1>3. QED BY <1>1, <1>2

LEMMA UpwardExists ==
    ASSUME NEW tree, IsTree(tree), NEW k \in 0..Len(tree)
    PROVE  \E g : Upward(tree, k, g)
<1> DEFINE bad == {j \in 0..Len(tree) : ~\E g : Upward(tree, j, g)}
<1>1. Len(tree) \in Nat /\ \A n \in 1..Len(tree) : tree[n].parent \in 0..n - 1
  BY TreeFacts
<1>2. ASSUME bad # {}
      PROVE  FALSE
  <2>1. bad \subseteq Nat
    BY <1>1
  <2>2. PICK m \in bad : \A y \in bad : m <= y
    <3> HIDE DEF bad
    <3>1. QED BY <1>2, <2>1, Least
  <2>3. m \in 0..Len(tree) /\ ~\E g : Upward(tree, m, g)
    BY <2>2
  <2>4. m # 0
    <3>1. Upward(tree, 0, [n \in 0..0 |-> {}])
      BY DEF Upward
    <3>2. QED BY <2>3, <3>1
  <2>5. PICK j \in 0..Len(tree) : m = j + 1
    BY <1>1, <2>3, <2>4
  <2>6. j \notin bad
    BY <1>1, <2>2, <2>5
  <2>7. PICK g : Upward(tree, j, g)
    BY <2>6
  <2> DEFINE h == [n \in 0..m |-> IF n = m THEN {tree[m].parent} \cup g[tree[m].parent] ELSE g[n]]
  <2>8. \A n \in 0..m : n = m \/ (n \in 0..j /\ n # m)
    BY <1>1, <2>5
  <2>9. \A n \in 1..m : tree[n].parent \in 0..j /\ tree[n].parent \in 0..m /\ tree[n].parent # m
    BY <1>1, <2>3, <2>5
  <2>10. \A n \in 0..j : g[n] = IF n = 0 THEN {} ELSE {tree[n].parent} \cup g[tree[n].parent]
    BY <2>7 DEF Upward
  <2>11. \A n \in 1..m : h[tree[n].parent] = g[tree[n].parent]
    BY <2>9
  <2>12. ASSUME NEW n \in 0..m
         PROVE  h[n] = IF n = 0 THEN {} ELSE {tree[n].parent} \cup h[tree[n].parent]
    <3>1. CASE n = m
      BY <2>3, <2>4, <2>11, <3>1
    <3>2. CASE n # m
      <4>1. n \in 0..j
        BY <2>8, <3>2
      <4>2. n # 0 => n \in 1..m
        BY <4>1, <2>3
      <4>3. h[n] = g[n]
        BY <3>2
      <4> HIDE DEF h
      <4>4. QED BY <2>10, <2>11, <4>1, <4>2, <4>3
    <3>3. QED BY <3>1, <3>2
  <2>13. h = [n \in 0..m |-> h[n]]
    OBVIOUS
  <2>14. Upward(tree, m, h)
    <3> HIDE DEF h
    <3>1. QED BY <2>12, <2>13 DEF Upward
  <2>15. QED BY <2>3, <2>14
<1>3. QED BY <1>2

\* What Above is, without its recursion
LEMMA AboveFacts ==
    ASSUME NEW tree, IsTree(tree)
    PROVE  \E g : /\ Upward(tree, Len(tree), g)
                  /\ Above(tree) = [n \in DOMAIN tree |-> g[n] \ {0}]
<1> DEFINE g == CHOOSE g : g = [n \in 0..Len(tree) |->
                    IF n = 0 THEN {} ELSE {tree[n].parent} \cup g[tree[n].parent]]
<1>1. Len(tree) \in 0..Len(tree)
  BY TreeFacts
<1>2. Upward(tree, Len(tree), g)
  BY <1>1, UpwardExists DEF Upward
<1>3. Above(tree) = [n \in DOMAIN tree |-> g[n] \ {0}]
  BY DEF Above
<1>4. QED BY <1>2, <1>3

\* The regions of analysed files have such trees.
IsRegion(r) ==
    /\ IsTree(r.tree) /\ r.above = Above(r.tree)
    /\ r.newlines \subseteq Nat /\ r.offset \in Nat /\ r.tail \in {0, 1}

LEMMA AncestorsBefore ==
    ASSUME NEW r, IsRegion(r), NEW n \in Nodes(r)
    PROVE  /\ Ancestors(r, n) \subseteq 1..n - 1
           /\ Parent(r, n) # 0 => Parent(r, n) \in Ancestors(r, n)
           /\ \A a \in Ancestors(r, n) : Ancestors(r, a) \subseteq Ancestors(r, n)
<1>1. /\ IsTree(r.tree) /\ Len(r.tree) \in Nat /\ Nodes(r) = 1..Len(r.tree)
      /\ \A m \in Nodes(r) : Parent(r, m) \in 0..m - 1
  BY TreeFacts DEF IsRegion, Nodes, Parent
<1>2. PICK g : /\ Upward(r.tree, Len(r.tree), g)
               /\ Above(r.tree) = [m \in Nodes(r) |-> g[m] \ {0}]
  BY <1>1, AboveFacts DEF Nodes
<1>3. \A m \in Nodes(r) : Ancestors(r, m) = g[m] \ {0}
  BY <1>2 DEF IsRegion, Ancestors
<1>4. /\ g[0] = {}
      /\ \A m \in Nodes(r) : g[m] = {Parent(r, m)} \cup g[Parent(r, m)]
  BY <1>1, <1>2 DEF Upward, Parent
<1> DEFINE bad == {m \in Nodes(r) : ~(/\ Ancestors(r, m) \subseteq 1..m - 1
                                      /\ \A a \in Ancestors(r, m) :
                                            Ancestors(r, a) \subseteq Ancestors(r, m))}
<1>5. ASSUME bad # {}
      PROVE  FALSE
  <2>1. bad \subseteq Nat
    BY <1>1
  <2>2. PICK m \in bad : \A y \in bad : m <= y
    <3> HIDE DEF bad
    <3>1. QED BY <1>5, <2>1, Least
  <2>3. PICK p : p = Parent(r, m)
    OBVIOUS
  <2>4. m \in Nodes(r) /\ m \in Nat /\ p \in 0..m - 1
    BY <1>1, <2>2, <2>3
  <2>5. CASE p = 0
    <3>1. Ancestors(r, m) = {}
      BY <1>3, <1>4, <2>3, <2>4, <2>5
    <3>2. QED BY <2>2, <3>1
  <2>6. CASE p # 0
    <3>1. p \in Nodes(r) /\ p < m /\ p \notin bad
      BY <1>1, <2>2, <2>4, <2>6
    <3>2. Ancestors(r, m) = {p} \cup Ancestors(r, p)
      BY <1>3, <1>4, <2>3, <2>4, <2>6, <3>1
    <3>3. /\ Ancestors(r, p) \subseteq 1..p - 1
          /\ \A a \in Ancestors(r, p) : Ancestors(r, a) \subseteq Ancestors(r, p)
      BY <3>1
    <3>4. Ancestors(r, m) \subseteq 1..m - 1
      BY <2>4, <2>6, <3>1, <3>2, <3>3
    <3>5. \A a \in Ancestors(r, m) : Ancestors(r, a) \subseteq Ancestors(r, m)
      BY <3>2, <3>3
    <3>6. m \notin bad
      BY <3>4, <3>5
    <3>7. QED BY <2>2, <3>6
  <2>7. QED BY <2>5, <2>6
<1>6. n \notin bad
  BY <1>5
<1>7. Parent(r, n) # 0 => Parent(r, n) \in Ancestors(r, n)
  BY <1>3, <1>4
<1>8. QED BY <1>6, <1>7

LEMMA NearestFacts ==
    ASSUME NEW r, IsRegion(r), NEW n \in Nodes(r), NEW types
    PROVE  Nearest(r, n, types) \in 0..n - 1
<1>1. n \in Nat /\ n > 0
  BY TreeFacts DEF IsRegion, Nodes
<1> DEFINE S == {0} \cup {a \in Ancestors(r, n) : Type(r, a) \in types}
<1>2. S \subseteq 0..n - 1 /\ S # {}
  BY <1>1, AncestorsBefore
<1>3. S \subseteq Nat /\ \A x \in S : x <= n - 1
  BY <1>1, <1>2
<1>4. Max(S) \in S
  <2>1. n - 1 \in Nat
    BY <1>1
  <2> HIDE DEF S
  <2>2. QED BY <1>2, <1>3, <2>1, Greatest
<1>5. QED BY <1>2, <1>4 DEF Nearest

LEMMA LastNodeFacts ==
    ASSUME NEW r, IsRegion(r), NEW n \in Nodes(r)
    PROVE  LastNode(r, n) \in n..Len(r.tree)
<1>1. Len(r.tree) \in Nat /\ Nodes(r) = 1..Len(r.tree)
  BY TreeFacts DEF IsRegion, Nodes
<1> DEFINE S == {n} \cup Descendants(r, n)
<1>2. S \subseteq 1..Len(r.tree) /\ n \in S
  BY <1>1 DEF Descendants
<1>3. S \subseteq Nat /\ \A x \in S : x <= Len(r.tree)
  BY <1>1, <1>2
<1>4. Max(S) \in S /\ \A y \in S : Max(S) >= y
  <2> HIDE DEF S
  <2>1. QED BY <1>1, <1>2, <1>3, Greatest
<1>5. LastNode(r, n) = Max(S)
  BY DEF LastNode
<1> HIDE DEF S
<1>6. PICK m \in S : LastNode(r, n) = m /\ \A y \in S : m >= y
  BY <1>4, <1>5
<1>7. m \in 1..Len(r.tree) /\ m >= n
  BY <1>2, <1>6
<1>8. QED BY <1>1, <1>6, <1>7

\* A callable's range starts no later than the node that ends it.
LEMMA RangeInOrder ==
    ASSUME NEW r, IsRegion(r), NEW n \in Nodes(r)
    PROVE  /\ SourceStart(r, n) \in 1..n
           /\ StructuralRoot(r, n) \in Nodes(r) /\ StructuralRoot(r, n) >= n
<1>1. Len(r.tree) \in Nat /\ Nodes(r) = 1..Len(r.tree) /\ Parent(r, n) \in 0..n - 1
  BY TreeFacts DEF IsRegion, Nodes, Parent
<1>2. AssignedOwner(r, n) \in 0..n - 1
  BY <1>1, NearestFacts DEF AssignedOwner
<1>3. SourceStart(r, n) \in 1..n
  BY <1>1, <1>2 DEF SourceStart
<1>4. DartBody(r, n) # 0 => DartBody(r, n) \in Nodes(r) /\ DartBody(r, n) >= n
  BY <1>1, LastNodeFacts DEF DartBody
<1>5. QED BY <1>1, <1>3, <1>4 DEF StructuralRoot

\* Counting the lines that start up to a byte counts the newlines before it.
LEMMA RowCount ==
    ASSUME NEW r, IsRegion(r), NEW byte \in Nat
    PROVE  /\ Point(r, byte).line = Line(r, byte)
           /\ IsFiniteSet({b \in r.newlines : b < r.offset + byte})
           /\ Point(r, byte).column > 1 <=>
                 r.offset + byte # 0 /\ r.offset + byte - 1 \notin r.newlines
<1>1. PICK x \in Nat : x = r.offset + byte
  BY DEF IsRegion
<1> DEFINE row == {s \in LineStarts(r) : s <= x}
           before == {b \in r.newlines : b < x}
           next == {b + 1 : b \in before}
<1>2. r.newlines \subseteq Nat
  BY DEF IsRegion
<1>3. IsFiniteSet(before)
  <2>1. before \in SUBSET Nat /\ \A b \in before : b <= x
    BY <1>2
  <2> HIDE DEF before
  <2>2. QED BY <2>1, FS_BoundedSetOfNaturals
<1>4. [b \in before |-> b + 1] \in Bijection(before, next)
  <2>1. [b \in before |-> b + 1] \in [before -> next]
    OBVIOUS
  <2>2. \A a, b \in before : a + 1 = b + 1 => a = b
    BY <1>2
  <2>3. \A t \in next : \E b \in before : b + 1 = t
    OBVIOUS
  <2> HIDE DEF before, next
  <2>4. QED BY <2>1, <2>2, <2>3 DEF Bijection, Injection, Surjection, IsInjective
<1>5. IsFiniteSet(next) /\ Cardinality(next) = Cardinality(before)
  <2> HIDE DEF before, next
  <2>1. ExistsBijection(before, next)
    BY <1>4 DEF ExistsBijection
  <2>2. QED BY <1>3, <2>1, FS_Bijection
<1>6. row = next \cup {0} /\ 0 \notin next
  BY <1>2 DEF LineStarts
<1>7. Cardinality(row) = 1 + Cardinality(before)
  <2> HIDE DEF before, next, row
  <2>1. Cardinality(next \cup {0}) = Cardinality(next) + 1 /\ Cardinality(before) \in Nat
    BY <1>3, <1>5, <1>6, FS_AddElement, FS_CardinalityType
  <2>2. QED BY <1>5, <1>6, <2>1
<1>8. /\ row \subseteq Nat /\ row # {} /\ \A y \in row : y <= x
      /\ x \in row <=> x \in LineStarts(r)
  BY <1>2 DEF LineStarts
<1>9. x \in LineStarts(r) <=> x = 0 \/ x - 1 \in r.newlines
  BY <1>2 DEF LineStarts
<1>10. /\ Point(r, byte).column = x - Max(row) + 1 /\ Point(r, byte).line = Cardinality(row)
       /\ Line(r, byte) = 1 + Cardinality(before)
  <2>1. {s \in LineStarts(r) : s <= r.offset + byte} = row
    BY <1>1
  <2>2. {b \in r.newlines : b < r.offset + byte} = before
    BY <1>1
  <2> HIDE DEF row, before
  <2>3. Max(row) \in Nat /\ r.offset \in Nat
    BY <1>8, Greatest DEF IsRegion
  <2>4. Point(r, byte) = [line |-> Cardinality(row), column |-> r.offset + byte - Max(row) + 1,
                          byte |-> r.offset + byte]
    BY ONLY <2>1, Zenon DEF Point
  <2>5. /\ Point(r, byte).column = r.offset + byte - Max(row) + 1
        /\ Point(r, byte).line = Cardinality(row)
    BY <2>4
  <2>6. Point(r, byte).column = x - Max(row) + 1
    BY <1>1, <2>3, <2>5
  <2>7. Line(r, byte) = 1 + Cardinality(before)
    BY <2>2 DEF Line
  <2>8. QED BY <2>5, <2>6, <2>7
<1>11. IsFiniteSet({b \in r.newlines : b < r.offset + byte})
  BY <1>1, <1>3
<1> HIDE DEF row, before, next
<1>12. PICK m \in row : m = Max(row) /\ \A y \in row : m >= y
  BY <1>8, Greatest
<1>13. m \in Nat /\ m <= x /\ (m = x <=> x \in LineStarts(r))
  BY <1>8, <1>12
<1>14. Point(r, byte).column > 1 <=> m # x
  BY <1>10, <1>12, <1>13
<1>15. Point(r, byte).column > 1 <=> x # 0 /\ x - 1 \notin r.newlines
  BY <1>9, <1>13, <1>14
<1>16. Point(r, byte).line = Line(r, byte)
  BY <1>7, <1>10
<1>17. /\ Point(r, byte).column > 1 <=>
             r.offset + byte # 0 /\ r.offset + byte - 1 \notin r.newlines
  <2>1. x - 1 = r.offset + byte - 1 /\ (x = 0 <=> r.offset + byte = 0)
    BY <1>1 DEF IsRegion
  <2>2. QED BY <1>15, <2>1
<1>18. QED BY <1>11, <1>16, <1>17

\* The line of the byte before
LEMMA LineBefore ==
    ASSUME NEW r, IsRegion(r), NEW byte \in Nat
    PROVE  /\ Line(r, byte) \in Nat
           /\ Line(r, byte + 1) = Line(r, byte)
                                  + IF r.offset + byte \in r.newlines THEN 1 ELSE 0
<1>1. PICK x \in Nat : x = r.offset + byte /\ x + 1 = r.offset + (byte + 1)
  BY DEF IsRegion
<1> DEFINE before == {b \in r.newlines : b < x}
           upto == {b \in r.newlines : b < x + 1}
<1>2. /\ Line(r, byte) = 1 + Cardinality(before) /\ Line(r, byte + 1) = 1 + Cardinality(upto)
      /\ IsFiniteSet(before)
  <2>1. /\ {b \in r.newlines : b < r.offset + byte} = before
        /\ {b \in r.newlines : b < r.offset + (byte + 1)} = upto
    BY <1>1
  <2>2. IsFiniteSet({b \in r.newlines : b < r.offset + byte})
    BY RowCount
  <2> HIDE DEF before, upto
  <2>3. QED BY <2>1, <2>2 DEF Line
<1>3. Cardinality(before) \in Nat
  BY <1>2, FS_CardinalityType
<1>4. x \notin before
  OBVIOUS
<1>5. upto = IF x \in r.newlines THEN before \cup {x} ELSE before
  BY DEF IsRegion
<1> HIDE DEF before, upto
<1>6. Cardinality(before \cup {x}) = Cardinality(before) + 1
  BY <1>2, <1>4, FS_AddElement
<1>7. QED BY <1>1, <1>2, <1>3, <1>5, <1>6

LEMMA LinesAscend ==
    ASSUME NEW r, IsRegion(r), NEW a \in Nat, NEW b \in Nat, a <= b
    PROVE  Line(r, a) <= Line(r, b)
<1>1. r.newlines \subseteq Nat /\ r.offset \in Nat
  BY DEF IsRegion
<1> DEFINE S == {c \in r.newlines : c < r.offset + a}
           T == {c \in r.newlines : c < r.offset + b}
<1>2. S \subseteq T
  BY <1>1
<1>3. IsFiniteSet(T) /\ Line(r, a) = 1 + Cardinality(S) /\ Line(r, b) = 1 + Cardinality(T)
  BY RowCount DEF Line
<1> HIDE DEF S, T
<1>4. Cardinality(S) <= Cardinality(T) /\ Cardinality(S) \in Nat /\ Cardinality(T) \in Nat
  BY <1>2, <1>3, FS_Subset, FS_CardinalityType
<1>5. QED BY <1>3, <1>4

\* What is reported of a range: the lines of its first and last bytes.
LEMMA RangeLines ==
    ASSUME NEW r, IsRegion(r), NEW first \in Nodes(r), NEW last \in Nodes(r), first <= last
    PROVE  LET range == NodesRange(r, first, last)
               end == EndByte(r, last)
           IN  /\ StartLine(range) = Line(r, StartByte(first))
               /\ EndLine(range) = Line(r, end - 1)
               /\ PhysicalLoc(range) = Line(r, end - 1) - Line(r, StartByte(first)) + 1
               /\ PhysicalLoc(range) \in Nat
<1> DEFINE range == NodesRange(r, first, last)
           end == EndByte(r, last)
           start == StartByte(first)
<1>1. start \in Nat /\ end \in Nat /\ end - 1 \in Nat /\ start <= end - 1
  <2>1. LastNode(r, last) \in Int /\ LastNode(r, last) >= last
    BY LastNodeFacts
  <2>2. first \in Nat /\ last \in Nat /\ first > 0 /\ r.tail \in {0, 1}
    BY TreeFacts DEF IsRegion, Nodes
  <2>3. QED BY <2>1, <2>2 DEF EndByte, StartByte
<1>2. range.start = Point(r, start) /\ range.end = Point(r, end)
  BY DEF NodesRange
<1> HIDE DEF start, end, range
<1>3. PICK e \in Nat : e = end - 1 /\ e + 1 = end
  BY <1>1
<1>4. StartLine(range) = Line(r, start)
  BY <1>1, <1>2, RowCount DEF StartLine
<1>5. range.end.line = Line(r, end)
  BY <1>1, <1>2, RowCount
<1>6. range.end.column > 1 <=> r.offset + e \notin r.newlines
  <2>1. r.offset \in Nat /\ r.offset + end # 0 /\ r.offset + end - 1 = r.offset + e
    BY <1>3 DEF IsRegion
  <2>2. QED BY <1>1, <1>2, <2>1, RowCount
<1>7. /\ Line(r, e) \in Nat /\ Line(r, start) \in Nat /\ Line(r, start) <= Line(r, e)
      /\ Line(r, end) = Line(r, e) + IF r.offset + e \in r.newlines THEN 1 ELSE 0
  BY <1>1, <1>3, LineBefore, LinesAscend
<1>8. EndLine(range) = Line(r, e)
  <2>1. CASE r.offset + e \notin r.newlines
    BY <1>5, <1>6, <1>7, <2>1 DEF EndLine
  <2>2. CASE r.offset + e \in r.newlines
    <3>1. EndLine(range) = Max({Line(r, start), Line(r, e)})
      BY <1>4, <1>5, <1>6, <1>7, <2>2 DEF EndLine, StartLine
    <3>2. PICK m \in Nat, l \in Nat : m = Line(r, start) /\ l = Line(r, e) /\ m <= l
      BY <1>7
    <3>3. Max({m, l}) = l
      <4>1. /\ {m, l} \subseteq Nat /\ {m, l} # {} /\ \A y \in {m, l} : y <= l
        BY <3>2
      <4>2. Max({m, l}) \in {m, l} /\ \A y \in {m, l} : Max({m, l}) >= y
        BY <4>1, Greatest
      <4>3. QED BY <3>2, <4>2
    <3>4. QED BY <3>1, <3>2, <3>3
  <2>3. QED BY <2>1, <2>2
<1>9. PhysicalLoc(range) = Line(r, e) - Line(r, start) + 1
  BY <1>4, <1>8 DEF PhysicalLoc
<1>10. PhysicalLoc(range) \in Nat
  BY <1>7, <1>9
<1>11. QED BY <1>3, <1>4, <1>8, <1>9, <1>10 DEF range, start, end

\* The regions of the files measured so far
LEMMA RegionPlace ==
    ASSUME IInv, NEW r \in AnalysedRegions
    PROVE  \E i \in DOMAIN files : \E j \in Regions(files[i]) :
              /\ r = ExecutableRegion(i, files[i], files[i].scripts[j])
              /\ r \in RegionsOf(i) /\ j \in DOMAIN files[i].scripts
              /\ files[i] \in Files /\ files[i].scripts[j] \in Scripts
<1>1. PICK k \in DOMAIN facts : r \in RegionsOf(facts[k].file)
  BY DEF AnalysedRegions
<1>2. PICK i : i = facts[k].file
  OBVIOUS
<1>3. PICK j \in Regions(files[i]) : r = ExecutableRegion(i, files[i], files[i].scripts[j])
  BY <1>1, <1>2 DEF RegionsOf
<1>4. files \in Seq(Files)
  BY AnalysisAssumption DEF IInv, Places
<1>5. i \in DOMAIN files
  <2>1. i \in 1..at - 1
    BY <1>2 DEF IInv, WholeFiles, Accounted, MeasuredFiles
  <2>2. DOMAIN files = 1..Len(files) /\ Len(files) \in Nat /\ at \in 1..Len(files) + 1
    BY <1>4 DEF IInv, Places
  <2>3. QED BY <2>1, <2>2
<1>6. files[i] \in Files
  BY <1>4, <1>5, ElementOfSeq
<1>7. j \in DOMAIN files[i].scripts /\ files[i].scripts \in Seq(Scripts)
  BY <1>6 DEF Files, Regions
<1>8. files[i].scripts[j] \in Scripts
  BY <1>7, ElementOfSeq
<1>9. QED BY <1>1, <1>2, <1>3, <1>5, <1>6, <1>7, <1>8

LEMMA RegionsTyped ==
    ASSUME IInv, NEW r \in AnalysedRegions
    PROVE  IsRegion(r) /\ Grammatical(r)
<1>1. PICK i \in DOMAIN files : \E j \in Regions(files[i]) :
         /\ r = ExecutableRegion(i, files[i], files[i].scripts[j])
         /\ j \in DOMAIN files[i].scripts
         /\ files[i] \in Files /\ files[i].scripts[j] \in Scripts
  BY RegionPlace
<1>2. PICK j \in Regions(files[i]), script \in Scripts :
         /\ script = files[i].scripts[j] /\ r = ExecutableRegion(i, files[i], script)
         /\ j \in DOMAIN files[i].scripts /\ files[i] \in Files /\ script \in Scripts
  BY <1>1
<1>3. SourceOrder(script.tree) /\ Grammatical(r)
  <2>1. files \in Workloads
    BY DEF IInv, Places
  <2>2. QED BY <1>2, <2>1, AnalysisAssumption
<1>4. /\ r.tree = script.tree /\ r.above = Above(script.tree)
      /\ r.newlines = files[i].newlines
      /\ r.offset = script.offset /\ r.tail = script.tail
  BY <1>2 DEF ExecutableRegion
<1>5. IsTree(r.tree) /\ r.offset \in Nat /\ r.tail \in {0, 1}
  BY <1>2, <1>3, <1>4 DEF Scripts, IsTree
<1>6. r.newlines \subseteq Nat
  BY <1>2, <1>4 DEF Files
<1>7. QED BY <1>3, <1>4, <1>5, <1>6 DEF IsRegion

\* Every callable of theirs is evaluated.
LEMMA CallablesInBatch ==
    ASSUME IInv, NEW r \in AnalysedRegions, NEW c \in Callables(r)
    PROVE  Key(r, c) \in Batch("callables")
<1>1. PICK i \in DOMAIN facts : r \in RegionsOf(facts[i].file)
  BY DEF AnalysedRegions
<1>2. "callables" \in DOMAIN NoFacts
  BY DEF NoFacts
<1>3. facts[i].of["callables"] =
         UNION {ExtractFacts(q)["callables"] : q \in RegionsOf(facts[i].file)}
  BY <1>2 DEF IInv, WholeFiles, MeasuredWhole
<1>4. Key(r, c) \in ExtractFacts(r)["callables"]
  BY DEF ExtractFacts
<1>5. Key(r, c) \in facts[i].of["callables"]
  BY <1>1, <1>3, <1>4
<1>6. QED BY <1>5 DEF Batch

\* What the guards found is what they find in the facts that are left.
Evaluated ==
    step = "done" => findings = [g \in Guards |-> {Evaluate(g, key) : key \in Batch("callables")}]

LEMMA SameFacts ==
    ASSUME facts' = facts
    PROVE  /\ Batch("callables")' = Batch("callables")
           /\ \A g, key : Evaluate(g, key)' = Evaluate(g, key)
<1>1. \A k : Batch(k)' = Batch(k)
  BY DEF Batch
<1>2. ASSUME NEW key
      PROVE  /\ {c \in Batch("controls") : c.callable = key}'
                  = {c \in Batch("controls") : c.callable = key}
             /\ {d \in Batch("decisions") : d.callable = key}'
                  = {d \in Batch("decisions") : d.callable = key}
  BY <1>1
<1>3. \A g, key : Measured(g, key)' = Measured(g, key)
  BY <1>2 DEF Measured
<1>4. \A g, key : DeepestLine(g, key)' = DeepestLine(g, key)
  BY <1>2 DEF DeepestLine
<1>5. QED BY <1>1, <1>3, <1>4 DEF Evaluate

LEMMA EvaluatedInv == Evaluated /\ [Next]_vars => Evaluated'
<1> SUFFICES ASSUME Evaluated, [Next]_vars PROVE Evaluated'
  OBVIOUS
<1>1. CASE RunGuards
  <2>1. /\ findings' = [g \in Guards |-> {Evaluate(g, key) : key \in Batch("callables")}]
        /\ facts' = facts
    BY <1>1 DEF RunGuards
  <2>2. QED BY <2>1, SameFacts DEF Evaluated
<1>2. CASE step' # "done"
  BY <1>2 DEF Evaluated
<1>3. CASE UNCHANGED vars
  <2>1. UNCHANGED <<step, findings, facts>>
    BY <1>3 DEF vars, progress
  <2>2. QED BY <2>1, SameFacts DEF Evaluated
<1>4. CASE Next /\ ~RunGuards
  <2>1. step' # "done"
    BY <1>4 DEF Next, Skip, ReadFails, OpenSource, OpenContainer, ContainerUnloaded,
         ContainerUnavailable, ParseRegion, RegionUnloaded, RegionUnavailable, FinishFile,
         NextFile, Noted, At, AtRegion, Opened
  <2>2. QED BY <1>2, <2>1
<1>5. QED BY <1>1, <1>3, <1>4

LEMMA LinesFollow == IInv /\ Evaluated => LinesExact
<1> SUFFICES ASSUME IInv, Evaluated, step = "done", NEW r \in AnalysedRegions, NEW c \in Callables(r)
             PROVE  LET first == Line(r, StartByte(SourceStart(r, c)))
                        last == Line(r, EndByte(r, StructuralRoot(r, c)) - 1)
                    IN  \E f \in FindingsFor("callableSize", r, c) :
                          /\ f.startLine = first /\ f.endLine = last
                          /\ f.measured = last - first + 1
  BY DEF LinesExact
<1>1. IsRegion(r) /\ c \in Nodes(r) /\ Key(r, c) \in Batch("callables")
  BY RegionsTyped, CallablesInBatch DEF Callables
<1> DEFINE f == Evaluate("callableSize", Key(r, c))
           start == SourceStart(r, c)
           root == StructuralRoot(r, c)
           range == NodesRange(r, start, root)
<1>2. f \in findings["callableSize"]
  BY <1>1 DEF Evaluated, Guards
<1>3. Key(r, c).range = range
  BY DEF Key, CallableRange
<1>4. /\ f.callable = Key(r, c)
      /\ f.startLine = StartLine(range) /\ f.endLine = EndLine(range)
      /\ f.measured = PhysicalLoc(range)
  BY <1>3 DEF Evaluate, Measured
<1>5. f \in FindingsFor("callableSize", r, c)
  BY <1>2, <1>4 DEF FindingsFor
<1>6. start \in Nodes(r) /\ root \in Nodes(r) /\ start <= root
  <2>1. Nodes(r) = 1..Len(r.tree) /\ Len(r.tree) \in Nat
    BY <1>1, TreeFacts DEF IsRegion, Nodes
  <2>2. start \in 1..c /\ root \in Nodes(r) /\ root >= c
    BY <1>1, RangeInOrder
  <2> HIDE DEF start, root
  <2>3. QED BY <1>1, <2>1, <2>2
<1> HIDE DEF f
<1>7. /\ StartLine(range) = Line(r, StartByte(start))
      /\ EndLine(range) = Line(r, EndByte(r, root) - 1)
      /\ PhysicalLoc(range) = Line(r, EndByte(r, root) - 1) - Line(r, StartByte(start)) + 1
  <2> HIDE DEF start, root
  <2>1. QED BY <1>1, <1>6, RangeLines
<1>8. QED BY <1>4, <1>5, <1>7

\* The lines reported for a callable are those of its first and last bytes in
\* the file it stands in, whatever container its region was cut out of and
\* whether or not its last byte ends the line (original_point_at_byte() of
\* analysis/regions.py, the ranges of analysis/adapters.py, guards/callable_size.py).
THEOREM LinesAreExact == Spec => []LinesExact
<1>1. Init => Evaluated
  BY DEF Init, Evaluated
<1>2. QED BY InitInv, NextInv, <1>1, EvaluatedInv, LinesFollow, PTL DEF Spec

---------------------------------------------------------------------------
(* A tree in source order                                                  *)

LEMMA AncestorStep ==
    ASSUME NEW r, IsRegion(r), NEW n \in Nodes(r)
    PROVE  /\ Parent(r, n) = 0 \/ Parent(r, n) \in Nodes(r)
           /\ Ancestors(r, n) = IF Parent(r, n) = 0 THEN {}
                                ELSE {Parent(r, n)} \cup Ancestors(r, Parent(r, n))
<1>1. /\ IsTree(r.tree) /\ Len(r.tree) \in Nat /\ Nodes(r) = 1..Len(r.tree)
      /\ \A m \in Nodes(r) : Parent(r, m) \in 0..m - 1
  BY TreeFacts DEF IsRegion, Nodes, Parent
<1>2. PICK g : /\ Upward(r.tree, Len(r.tree), g)
               /\ Above(r.tree) = [m \in Nodes(r) |-> g[m] \ {0}]
  BY <1>1, AboveFacts DEF Nodes
<1>3. \A m \in Nodes(r) : Ancestors(r, m) = g[m] \ {0}
  BY <1>2 DEF IsRegion, Ancestors
<1>4. /\ g[0] = {}
      /\ \A m \in Nodes(r) : g[m] = {Parent(r, m)} \cup g[Parent(r, m)]
  BY <1>1, <1>2 DEF Upward, Parent
<1>5. Parent(r, n) = 0 \/ Parent(r, n) \in Nodes(r)
  BY <1>1
<1>6. QED BY <1>3, <1>4, <1>5

\* What lies between a node and one below it is below it too.
LEMMA Contiguous ==
    ASSUME NEW r, IsRegion(r), NEW n \in Nodes(r), NEW m \in Nodes(r), NEW d \in Nodes(r),
           n \in Ancestors(r, d), n < m, m <= d
    PROVE  n \in Ancestors(r, m)
<1>1. /\ Len(r.tree) \in Nat /\ Nodes(r) = 1..Len(r.tree)
      /\ \A k \in Nodes(r) : Parent(r, k) \in 0..k - 1
  BY TreeFacts DEF IsRegion, Nodes, Parent
<1>2. \A k, l \in Nodes(r) : Parent(r, k) < l /\ l < k => Parent(r, k) <= Parent(r, l)
  BY DEF IsRegion, IsTree, SourceOrder, Nodes, Parent
<1>3. \A k \in Nodes(r) : n \in Ancestors(r, k) <=>
         Parent(r, k) = n \/ (Parent(r, k) \in Nodes(r) /\ n \in Ancestors(r, Parent(r, k)))
  <2>1. n # 0 /\ 0 \notin Nodes(r)
    BY <1>1
  <2>2. QED BY <2>1, AncestorStep
<1>4. \A k \in Nodes(r) : n \in Ancestors(r, k) => n < k
  BY <1>1, AncestorsBefore, SMTT(30)
<1> DEFINE outside == {k \in Nodes(r) : n < k /\ n \notin Ancestors(r, k)}
<1>5. SUFFICES ASSUME m \in outside PROVE FALSE
  OBVIOUS
<1>6. PICK l \in outside : \A k \in outside : l <= k
  <2>1. outside \subseteq Nat /\ outside # {}
    BY <1>1, <1>5
  <2> HIDE DEF outside
  <2>2. QED BY <2>1, Least
<1>7. l \in Nodes(r) /\ l \in Nat /\ n \in Nat /\ n < l /\ l < d
  BY <1>1, <1>5, <1>6
<1>8. Parent(r, l) < n
  <2>1. Parent(r, l) # n
    BY <1>3, <1>6
  <2>2. CASE Parent(r, l) > n
    <3>1. Parent(r, l) \in Nodes(r) /\ Parent(r, l) < l
      BY <1>1, <1>7, <2>2
    <3>2. n \in Ancestors(r, Parent(r, l))
      BY <1>1, <1>6, <1>7, <2>2, <3>1
    <3>3. QED BY <1>3, <1>6, <3>1, <3>2
  <2>3. QED BY <1>1, <1>7, <2>1, <2>2
<1> DEFINE later == {k \in Nodes(r) : l < k /\ n \in Ancestors(r, k)}
<1>9. PICK e \in later : \A k \in later : e <= k
  <2>1. later \subseteq Nat /\ later # {}
    <3>1. later \subseteq Nat
      BY <1>1
    <3>2. d \in later
      BY <1>7
    <3>3. QED BY <3>1, <3>2
  <2> HIDE DEF later
  <2>2. QED BY <2>1, Least
<1>10. e \in Nodes(r) /\ e \in Nat /\ l < e /\ Parent(r, e) \in 0..e - 1
  BY <1>1, <1>9
<1>11. Parent(r, e) >= n
  BY <1>1, <1>3, <1>4, <1>7, <1>9, <1>10
<1>12. Parent(r, e) # l
  BY <1>3, <1>6, <1>7, <1>9
<1>13. ~(Parent(r, e) > l)
  <2>1. SUFFICES ASSUME Parent(r, e) > l PROVE FALSE
    OBVIOUS
  <2>2. Parent(r, e) \in Nodes(r) /\ Parent(r, e) < e /\ Parent(r, e) # n
    BY <1>1, <1>7, <1>10, <2>1
  <2>3. n \in Ancestors(r, Parent(r, e))
    BY <1>3, <1>9, <2>2
  <2>4. Parent(r, e) \in later
    BY <2>1, <2>2, <2>3
  <2>5. QED BY <1>9, <1>10, <2>2, <2>4
<1>14. PICK p \in Nat : p = Parent(r, e) /\ n <= p /\ p < l
  BY <1>7, <1>10, <1>11, <1>12, <1>13
<1>15. p <= Parent(r, l)
  BY <1>2, <1>7, <1>10, <1>14
<1>16. QED BY <1>1, <1>7, <1>8, <1>14, <1>15

\* A node has below it exactly what comes after it up to its last node.
LEMMA Within ==
    ASSUME NEW r, IsRegion(r), NEW a \in Nodes(r), NEW b \in Nodes(r)
    PROVE  a \in Ancestors(r, b) <=> a < b /\ b <= LastNode(r, a)
<1>1. Len(r.tree) \in Nat /\ Nodes(r) = 1..Len(r.tree)
  BY TreeFacts DEF IsRegion, Nodes
<1> DEFINE S == {a} \cup Descendants(r, a)
<1>2. S \subseteq Nat /\ S # {} /\ \A x \in S : x <= Len(r.tree)
  BY <1>1 DEF Descendants
<1>3. LastNode(r, a) \in S /\ \A y \in S : LastNode(r, a) >= y
  <2> HIDE DEF S
  <2>1. Max(S) \in S /\ \A y \in S : Max(S) >= y
    BY <1>1, <1>2, Greatest
  <2>2. QED BY <2>1 DEF LastNode, S
<1>4. ASSUME a \in Ancestors(r, b)
      PROVE  a < b /\ b <= LastNode(r, a)
  <2>1. a < b
    BY <1>1, <1>4, AncestorsBefore
  <2>2. b \in S
    BY <1>4 DEF Descendants
  <2> HIDE DEF S
  <2>3. QED BY <1>1, <1>2, <1>3, <2>1, <2>2
<1>5. ASSUME a < b, b <= LastNode(r, a)
      PROVE  a \in Ancestors(r, b)
  <2>1. LastNode(r, a) # a
    BY <1>1, <1>5
  <2>2. LastNode(r, a) \in Nodes(r) /\ a \in Ancestors(r, LastNode(r, a))
    BY <1>3, <2>1 DEF Descendants
  <2>3. QED BY <1>5, <2>2, Contiguous
<1>6. QED BY <1>4, <1>5

\* The nodes below a node end no later than it does.
LEMMA Nested ==
    ASSUME NEW r, IsRegion(r), NEW a \in Nodes(r), NEW b \in Nodes(r), a \in Ancestors(r, b)
    PROVE  LastNode(r, b) <= LastNode(r, a)
<1>1. Len(r.tree) \in Nat /\ Nodes(r) = 1..Len(r.tree)
  BY TreeFacts DEF IsRegion, Nodes
<1>2. PICK l \in Nodes(r) : l = LastNode(r, b) /\ b <= l
  BY <1>1, LastNodeFacts
<1>3. CASE l = b
  BY <1>2, <1>3, Within
<1>4. CASE l # b
  <2>1. b \in Ancestors(r, l)
    BY <1>1, <1>2, <1>4, Within
  <2>2. a \in Ancestors(r, l)
    BY <2>1, AncestorsBefore
  <2>3. QED BY <1>2, <2>2, Within
<1>5. QED BY <1>3, <1>4

\* A sibling comes after all that is below the one before.
LEMMA Siblings ==
    ASSUME NEW r, IsRegion(r), NEW m \in Nodes(r), NEW n \in Nodes(r),
           Parent(r, m) = Parent(r, n)
    PROVE  /\ m < n => LastNode(r, m) < n
           /\ Ancestors(r, m) = Ancestors(r, n)
<1>1. /\ Len(r.tree) \in Nat /\ Nodes(r) = 1..Len(r.tree)
      /\ \A k \in Nodes(r) : Parent(r, k) \in 0..k - 1
  BY TreeFacts DEF IsRegion, Nodes, Parent
<1>2. Ancestors(r, m) = Ancestors(r, n)
  BY AncestorStep
<1>3. m \notin Ancestors(r, n)
  BY <1>1, <1>2, AncestorsBefore
<1>4. LastNode(r, m) \in Nat
  BY <1>1, LastNodeFacts
<1>5. QED BY <1>1, <1>2, <1>3, <1>4, Within

---------------------------------------------------------------------------
(* What belongs to a callable                                              *)

LEMMA NearestIs ==
    ASSUME NEW r, IsRegion(r), NEW n \in Nodes(r), NEW types
    PROVE  /\ \/ Nearest(r, n, types) = 0
              \/ /\ Nearest(r, n, types) \in Ancestors(r, n)
                 /\ Type(r, Nearest(r, n, types)) \in types
           /\ \A a \in Ancestors(r, n) : Type(r, a) \in types => a <= Nearest(r, n, types)
<1>1. n \in Nat /\ n > 0
  BY TreeFacts DEF IsRegion, Nodes
<1> DEFINE S == {0} \cup {a \in Ancestors(r, n) : Type(r, a) \in types}
<1>2. S \subseteq Nat /\ S # {} /\ \A x \in S : x <= n
  BY <1>1, AncestorsBefore
<1>3. Max(S) \in S /\ \A y \in S : Max(S) >= y
  <2> HIDE DEF S
  <2>1. QED BY <1>1, <1>2, Greatest
<1>4. Nearest(r, n, types) = Max(S)
  BY DEF Nearest
<1>5. \A y \in S : y <= Max(S)
  <2> HIDE DEF S
  <2>1. QED BY <1>2, <1>3
<1>6. QED BY <1>3, <1>4, <1>5

LEMMA RootFacts ==
    ASSUME NEW r, IsRegion(r), NEW c \in Nodes(r)
    PROVE  LET root == StructuralRoot(r, c)
           IN  /\ root \in Nodes(r) /\ root >= c
               /\ Ancestors(r, root) = Ancestors(r, c)
               /\ \/ root = c
                  \/ /\ Type(r, c) = "signature" /\ Type(r, root) = "body"
                     /\ root = LastNode(r, c) + 1
<1>1. StructuralRoot(r, c) \in Nodes(r) /\ StructuralRoot(r, c) >= c
  BY RangeInOrder
<1>2. CASE DartBody(r, c) = 0
  <2>1. StructuralRoot(r, c) = c
    BY <1>2 DEF StructuralRoot
  <2>2. QED BY <1>1, <2>1
<1>3. CASE DartBody(r, c) # 0
  <2>1. /\ StructuralRoot(r, c) = LastNode(r, c) + 1
        /\ Type(r, c) = "signature" /\ Type(r, StructuralRoot(r, c)) = "body"
        /\ Parent(r, StructuralRoot(r, c)) = Parent(r, c)
    BY <1>3 DEF StructuralRoot, DartBody
  <2>2. QED BY <1>1, <2>1, Siblings
<1>4. QED BY <1>2, <1>3

\* The way down from a node to one below it
LEMMA PathIs ==
    ASSUME NEW r, IsRegion(r), NEW root \in Nodes(r), NEW m \in Descendants(r, root)
    PROVE  /\ Path(r, root, m) = {a \in {m} \cup Ancestors(r, m) : a > root}
           /\ \A a \in Path(r, root, m) : a \in Descendants(r, root) /\ a <= m
<1>1. /\ Len(r.tree) \in Nat /\ Nodes(r) = 1..Len(r.tree) /\ m \in Nodes(r)
      /\ \A a \in Ancestors(r, m) : a \in Nodes(r) /\ a < m
  BY TreeFacts, AncestorsBefore DEF IsRegion, Nodes, Descendants
<1>2. root < m /\ m <= LastNode(r, root) /\ LastNode(r, root) \in Nat
  BY <1>1, Within, LastNodeFacts DEF Descendants
<1>3. ASSUME NEW a \in {m} \cup Ancestors(r, m)
      PROVE  a > root <=> a \notin {root} \cup Ancestors(r, root)
  <2>1. a \in Nodes(r) /\ m <= LastNode(r, a)
    <3>1. CASE a = m
      BY <1>1, <3>1, LastNodeFacts
    <3>2. CASE a \in Ancestors(r, m)
      BY <1>1, <3>2, Within
    <3>3. QED BY <3>1, <3>2
  <2>2. a < root <=> a \in Ancestors(r, root)
    BY <1>1, <1>2, <2>1, Within, LastNodeFacts
  <2>3. QED BY <1>1, <2>1, <2>2
<1>4. Path(r, root, m) = {a \in {m} \cup Ancestors(r, m) : a > root}
  BY <1>3 DEF Path
<1>5. ASSUME NEW a \in {m} \cup Ancestors(r, m), a > root
      PROVE  a \in Descendants(r, root) /\ a <= m
  <2>1. a \in Nodes(r) /\ a <= m
    BY <1>1
  <2>2. QED BY <1>1, <1>2, <1>5, <2>1, Within DEF Descendants
<1>6. QED BY <1>4, <1>5

\* The callables a node is in
Holders(r, n) ==
    {x \in Nodes(r) :
        /\ Type(r, x) \in CallableTypes
        /\ n \in Descendants(r, x) \cup Descendants(r, StructuralRoot(r, x))
        /\ Type(r, x) = "signature" => HasBody(r, x)}

LEMMA OwnIs ==
    ASSUME NEW r, IsRegion(r), NEW n \in Nodes(r), NEW c \in Nodes(r)
    PROVE  n \in Own(r, c) <=> c \in Holders(r, n) /\ \A x \in Holders(r, n) : x <= c
<1>1. Len(r.tree) \in Nat /\ Nodes(r) = 1..Len(r.tree)
  BY TreeFacts DEF IsRegion, Nodes
<1> DEFINE S == {0} \cup Holders(r, n)
<1>2. S \subseteq Nat /\ S # {} /\ \A x \in S : x <= Len(r.tree)
  BY <1>1 DEF Holders
<1>3. Max(S) \in S /\ \A y \in S : Max(S) >= y
  <2> HIDE DEF S
  <2>1. QED BY <1>1, <1>2, Greatest
<1>4. Home(r, n) = Max(S)
  BY DEF Home, Holders
<1>5. n \in Own(r, c) <=> Max(S) = c
  BY <1>4 DEF Own
<1>6. c # 0 /\ 0 \in S
  BY <1>1
<1>7. \A x \in S : x \in Nat
  BY <1>2
<1>8. Max(S) = c <=> c \in S /\ \A x \in S : x <= c
  <2> HIDE DEF S
  <2>1. QED BY <1>1, <1>3, <1>7
<1>9. c \in S <=> c \in Holders(r, n)
  BY <1>6
<1>10. (\A x \in S : x <= c) <=> (\A x \in Holders(r, n) : x <= c)
  <2>1. 0 <= c
    BY <1>1
  <2>2. QED BY ONLY <2>1
<1>11. QED BY <1>5, <1>8, <1>9, <1>10

\* The walk of a callable reaches the controls and branches of its own, and no
\* others.
LEMMA OwnReached ==
    ASSUME NEW r, IsRegion(r), Grammatical(r), NEW c \in Callables(r), NEW n \in Nodes(r),
           Type(r, n) \in ControlTypes \cup BranchTypes, n \in Own(r, c) => ~Unwalked(r, n)
    PROVE  n \in Own(r, c) <=> n \in Reached(r, StructuralRoot(r, c))
<1>1. /\ Len(r.tree) \in Nat /\ Nodes(r) = 1..Len(r.tree)
      /\ c \in Nodes(r) /\ Type(r, c) \in CallableTypes /\ HasBody(r, c)
  BY TreeFacts DEF IsRegion, Nodes, Callables
<1>2. Type(r, n) \notin CallableTypes /\ "body" \notin CallableTypes
  BY DEF ControlTypes, BranchTypes, CallableTypes
<1>3. PICK root \in Nodes(r) :
         /\ root = StructuralRoot(r, c) /\ root >= c
         /\ \/ root = c
            \/ /\ Type(r, c) = "signature" /\ Type(r, root) = "body"
               /\ root = LastNode(r, c) + 1
  BY <1>1, RootFacts
<1>4. \A x \in Nodes(r) : /\ LastNode(r, x) \in Nat /\ x \in Nat
                          /\ n \in Descendants(r, x) <=> x < n /\ n <= LastNode(r, x)
  BY <1>1, Within, LastNodeFacts DEF Descendants
<1>5. ASSUME n \in Reached(r, root), NEW x \in Holders(r, n), x > c
      PROVE  FALSE
  <2>1. /\ n \in Descendants(r, root)
        /\ \A m \in Path(r, root, n) : Type(r, m) \notin CallableTypes
    BY <1>5 DEF Reached
  <2>2. x \in Nodes(r) /\ Type(r, x) \in CallableTypes /\ root < n /\ n <= LastNode(r, root)
    BY <1>4, <1>5, <2>1 DEF Holders
  <2>3. CASE n \in Descendants(r, x)
    <3>1. x < n /\ n <= LastNode(r, x) /\ x \in Ancestors(r, n)
      BY <1>4, <2>2, <2>3 DEF Descendants
    <3>2. CASE x > root
      BY <2>1, <2>2, <3>1, <3>2, PathIs
    <3>3. CASE x = root
      BY <1>1, <1>2, <1>3, <1>5, <2>2, <3>3
    <3>4. CASE x < root
      <4>1. root = LastNode(r, c) + 1 /\ x <= LastNode(r, c)
        BY <1>1, <1>3, <1>4, <1>5, <2>2, <3>4
      <4>2. LastNode(r, x) <= LastNode(r, c)
        BY <1>1, <1>5, <2>2, <4>1, Within, Nested
      <4>3. QED BY <1>1, <1>4, <2>2, <3>1, <4>1, <4>2
    <3>5. QED BY <1>1, <2>2, <3>2, <3>3, <3>4
  <2>4. CASE n \notin Descendants(r, x)
    <3>1. PICK b \in Nodes(r) : b = StructuralRoot(r, x) /\ n \in Descendants(r, b)
      BY <1>5, <2>2, <2>4, RootFacts DEF Holders
    <3>2. Type(r, x) = "signature" /\ HasBody(r, x) /\ b > x
      BY <1>4, <1>5, <2>2, <2>4, <3>1, RootFacts DEF Holders
    <3>3. Nearest(r, x, CallableTypes \cup {"body"}) = 0
      BY <2>2, <3>2 DEF Grammatical
    <3>4. \A a \in Ancestors(r, x) : Type(r, a) \notin CallableTypes \cup {"body"}
      <4>1. SUFFICES ASSUME NEW a \in Ancestors(r, x), Type(r, a) \in CallableTypes \cup {"body"}
                     PROVE  FALSE
        OBVIOUS
      <4>2. a <= 0
        BY <2>2, <3>3, <4>1, NearestIs
      <4>3. a \in 1..x - 1
        BY <2>2, AncestorsBefore
      <4>4. QED BY <1>1, <2>2, <4>2, <4>3
    <3>5. Type(r, root) \in CallableTypes \cup {"body"}
      BY <1>1, <1>3
    <3>6. CASE x > root
      <4>1. x < n
        BY <1>4, <2>2, <3>1, <3>2
      <4>2. root \in Ancestors(r, x)
        BY <1>1, <1>4, <2>2, <3>6, <4>1, Within
      <4>3. QED BY <3>4, <3>5, <4>2
    <3>7. CASE x = root
      BY <1>1, <1>2, <1>3, <1>5, <2>2, <3>7
    <3>8. CASE x < root
      <4>1. x <= LastNode(r, c)
        BY <1>1, <1>3, <1>4, <1>5, <2>2, <3>8
      <4>2. c \in Ancestors(r, x)
        BY <1>1, <1>5, <2>2, <4>1, Within
      <4>3. QED BY <1>1, <3>4, <4>2
    <3>9. QED BY <1>1, <2>2, <3>6, <3>7, <3>8
  <2>5. QED BY <2>3, <2>4
<1>6. ASSUME n \in Reached(r, root)
      PROVE  n \in Own(r, c)
  <2>1. c \in Holders(r, n)
    BY <1>1, <1>3, <1>6 DEF Holders, Reached
  <2>2. \A x \in Holders(r, n) : x <= c
    BY <1>1, <1>5, <1>6 DEF Holders
  <2>3. QED BY <1>1, <2>1, <2>2, OwnIs
<1>7. ASSUME n \in Own(r, c), NEW m \in Ancestors(r, n), Type(r, m) = "signature"
      PROVE  \E k \in Holders(r, n) : k > m
  <2>1. PICK s \in Nat, k \in Nat :
           /\ s = Nearest(r, n, {"signature"}) /\ k = Nearest(r, n, {"closure"}) /\ s <= k
    <3>1. \/ Nearest(r, n, {"signature"}) <= Nearest(r, n, {"closure"})
          \/ ~(Nearest(r, n, {"signature"}) > Nearest(r, n, {"closure"}))
      BY <1>1, <1>7 DEF Grammatical, Unwalked
    <3>2. Nearest(r, n, {"signature"}) \in Nat /\ Nearest(r, n, {"closure"}) \in Nat
      <4>1. \A types : Nearest(r, n, types) \in 0..n - 1
        BY NearestFacts
      <4>2. \A x \in 0..n - 1 : x \in Nat
        BY <1>1
      <4>3. QED BY <4>1, <4>2
    <3>3. QED BY <3>1, <3>2
  <2>2. m <= s /\ m \in Nodes(r)
    BY <1>1, <1>7, <2>1, NearestIs, AncestorsBefore
  <2>3. k # 0
    BY <1>1, <2>1, <2>2
  <2>4. k \in Ancestors(r, n) /\ Type(r, k) = "closure"
    BY <2>1, <2>3, NearestIs
  <2>5. k # m /\ k > m
    BY <1>1, <1>7, <2>1, <2>2, <2>4
  <2>6. k \in Holders(r, n)
    BY <1>1, <2>4, AncestorsBefore DEF Holders, Descendants, CallableTypes
  <2>7. QED BY <2>5, <2>6
<1>8. ASSUME n \in Own(r, c)
      PROVE  n \in Reached(r, root)
  <2>1. c \in Holders(r, n) /\ \A x \in Holders(r, n) : x <= c
    BY <1>1, <1>8, OwnIs
  <2>2. n \in Descendants(r, root)
    <3>1. SUFFICES ASSUME root # c, c \in Ancestors(r, n) PROVE FALSE
      BY <1>3, <2>1 DEF Holders, Descendants
    <3>2. PICK k \in Holders(r, n) : k > c
      BY <1>3, <1>7, <1>8, <3>1
    <3>3. QED BY <1>1, <2>1, <3>2 DEF Holders
  <2>3. ASSUME NEW m \in Path(r, root, n), Type(r, m) \in CallableTypes
        PROVE  FALSE
    <3>1. m \in Ancestors(r, n) /\ m > root /\ m \in Nodes(r)
      BY <1>1, <1>2, <2>2, <2>3, PathIs, AncestorsBefore
    <3>2. CASE m \in Holders(r, n)
      BY <1>1, <1>3, <2>1, <3>1, <3>2
    <3>3. CASE m \notin Holders(r, n)
      <4>1. Type(r, m) = "signature"
        BY <2>3, <3>1, <3>3 DEF Holders, Descendants
      <4>2. PICK k \in Holders(r, n) : k > m
        BY <1>7, <1>8, <3>1, <4>1
      <4>3. k \in Nodes(r) /\ k <= c
        BY <2>1, <4>2 DEF Holders
      <4>4. QED BY <1>1, <1>3, <3>1, <4>2, <4>3
    <3>4. QED BY <3>2, <3>3
  <2>4. QED BY <2>2, <2>3 DEF Reached
<1>9. QED BY <1>3, <1>6, <1>8

---------------------------------------------------------------------------
(* The depth of a control                                                  *)

\* The controls from the root of a walk down to a node that add a level
Levels(r, root, m) == {a \in Path(r, root, m) : IncreasesNesting(r, a)}

LEMMA LevelStep ==
    ASSUME NEW r, IsRegion(r), NEW root \in Nodes(r), NEW m \in Reached(r, root)
    PROVE  LET p == ControlAbove(r, root, m)
           IN  /\ p = 0 \/ (p \in Reached(r, root) /\ IsControl(r, p) /\ p < m)
               /\ IsFiniteSet(Levels(r, root, m))
               /\ Levels(r, root, m) = (IF p = 0 THEN {} ELSE Levels(r, root, p))
                                        \cup (IF IncreasesNesting(r, m) THEN {m} ELSE {})
               /\ p # 0 => m \notin Levels(r, root, p)
<1>1. /\ Len(r.tree) \in Nat /\ Nodes(r) = 1..Len(r.tree)
      /\ m \in Descendants(r, root) /\ m \in Nodes(r)
  BY TreeFacts DEF IsRegion, Nodes, Reached, Descendants
<1>2. /\ Path(r, root, m) = {a \in {m} \cup Ancestors(r, m) : a > root}
      /\ \A a \in Path(r, root, m) : a \in Descendants(r, root) /\ a <= m /\ a \in Nodes(r)
  <2>1. \A a \in Descendants(r, root) : a \in Nodes(r)
    BY DEF Descendants
  <2>2. QED BY <1>1, <2>1, PathIs
<1>3. m \in Path(r, root, m)
  <2>1. m > root
    BY <1>1, Within DEF Descendants
  <2>2. QED BY <1>2, <2>1
<1> DEFINE over == {k \in Path(r, root, m) \ {m} : IncreasesNesting(r, k)}
           S == {0} \cup over
<1>4. S \subseteq Nat /\ S # {} /\ \A x \in S : x <= m
  BY <1>1, <1>2
<1>5. Max(S) \in S /\ \A y \in S : Max(S) >= y
  <2>1. m \in Nat
    BY <1>1
  <2> HIDE DEF S
  <2>2. QED BY <2>1, <1>4, Greatest
<1>6. PICK p \in S : p = ControlAbove(r, root, m) /\ \A y \in S : p >= y
  BY <1>5 DEF ControlAbove
<1>7. Levels(r, root, m) = over \cup (IF IncreasesNesting(r, m) THEN {m} ELSE {})
  BY <1>3 DEF Levels
<1>8. IsFiniteSet(Levels(r, root, m))
  <2>1. Levels(r, root, m) \in SUBSET (1..Len(r.tree))
    BY <1>1, <1>2 DEF Levels
  <2>2. IsFiniteSet(1..Len(r.tree))
    BY <1>1, FS_Interval
  <2>3. QED BY <2>1, <2>2, FS_Subset
<1>9. CASE p = 0
  <2>1. over = {}
    BY <1>1, <1>2, <1>6, <1>9
  <2>2. QED BY <1>6, <1>7, <1>8, <1>9, <2>1
<1>10. CASE p # 0
  <2>1. /\ p \in over /\ p \in Path(r, root, m) /\ p # m /\ IncreasesNesting(r, p)
        /\ p \in Ancestors(r, m) /\ p \in Descendants(r, root) /\ p \in Nodes(r) /\ p < m
    BY <1>1, <1>2, <1>6, <1>10
  <2>2. Path(r, root, p) = {a \in {p} \cup Ancestors(r, p) : a > root}
    BY <2>1, PathIs
  <2>3. Ancestors(r, p) \subseteq Ancestors(r, m) /\ \A a \in Ancestors(r, p) : a < p
    BY <1>1, <2>1, AncestorsBefore
  <2>4. Path(r, root, p) \subseteq Path(r, root, m)
    BY <1>2, <2>1, <2>2, <2>3
  <2>5. p \in Reached(r, root)
    BY <2>1, <2>4 DEF Reached
  <2>6. m \notin Path(r, root, p)
    BY <1>1, <2>1, <2>2, <2>3
  <2>7. ASSUME NEW k \in over
        PROVE  k \in Path(r, root, p)
    <3>1. k \in Nodes(r) /\ k > root /\ k <= p /\ k \in Ancestors(r, m)
      BY <1>1, <1>2, <1>6
    <3>2. CASE k = p
      BY <2>2, <3>1, <3>2
    <3>3. CASE k # p
      <4>1. k \in Ancestors(r, p)
        BY <1>1, <2>1, <3>1, <3>3, Contiguous
      <4>2. QED BY <2>2, <3>1, <4>1
    <3>4. QED BY <3>2, <3>3
  <2>8. over = Levels(r, root, p)
    BY <2>4, <2>6, <2>7 DEF Levels
  <2>9. m \notin Levels(r, root, p) /\ IsControl(r, p)
    BY <2>1, <2>6 DEF Levels, IncreasesNesting
  <2> HIDE DEF over, S
  <2>10. QED BY <1>6, <1>7, <1>8, <1>10, <2>1, <2>5, <2>8, <2>9
<1>11. QED BY <1>9, <1>10

Deep(r, root, m) == Cardinality(Levels(r, root, m))

LEMMA DeepStep ==
    ASSUME NEW r, IsRegion(r), NEW root \in Nodes(r), NEW m \in Reached(r, root)
    PROVE  LET p == ControlAbove(r, root, m)
           IN  /\ p = 0 \/ (p \in Reached(r, root) /\ IsControl(r, p) /\ p < m)
               /\ Deep(r, root, m) \in Nat
               /\ Deep(r, root, m) = (IF p = 0 THEN 0 ELSE Deep(r, root, p))
                                      + IF IncreasesNesting(r, m) THEN 1 ELSE 0
<1>1. PICK p : p = ControlAbove(r, root, m)
  OBVIOUS
<1> DEFINE P == IF p = 0 THEN {} ELSE Levels(r, root, p)
<1>2. /\ p = 0 \/ (p \in Reached(r, root) /\ IsControl(r, p) /\ p < m)
      /\ IsFiniteSet(Levels(r, root, m))
      /\ Levels(r, root, m) = P \cup (IF IncreasesNesting(r, m) THEN {m} ELSE {})
      /\ m \notin P
  BY <1>1, LevelStep
<1>3. Cardinality(P) = IF p = 0 THEN 0 ELSE Deep(r, root, p)
  BY FS_EmptySet DEF Deep
<1> HIDE DEF P
<1>4. IsFiniteSet(P)
  <2>1. P \in SUBSET Levels(r, root, m)
    BY <1>2
  <2>2. QED BY <1>2, <2>1, FS_Subset
<1>5. Cardinality(P \cup {m}) = Cardinality(P) + 1 /\ Cardinality(P) \in Nat
  BY <1>2, <1>4, FS_AddElement, FS_CardinalityType
<1>6. Deep(r, root, m) = Cardinality(P) + IF IncreasesNesting(r, m) THEN 1 ELSE 0
  <2>1. CASE IncreasesNesting(r, m)
    BY <1>2, <1>5, <2>1 DEF Deep
  <2>2. CASE ~IncreasesNesting(r, m)
    <3>1. Levels(r, root, m) = P
      BY <1>2, <2>2
    <3>2. QED BY <1>5, <2>2, <3>1 DEF Deep
  <2>3. QED BY <2>1, <2>2
<1>7. Deep(r, root, m) \in Nat
  BY <1>5, <1>6
<1>8. QED BY <1>1, <1>2, <1>3, <1>6, <1>7

\* What adds a level in the walk is a level of the callable, and the other way
\* round, but for Kotlin's braceless ifs.
LEMMA LevelsOwn ==
    ASSUME NEW r, IsRegion(r), Grammatical(r), NEW c \in Callables(r),
           \A n \in Own(r, c) : ~Braceless(r, n),
           NEW root, root = StructuralRoot(r, c)
    PROVE  /\ \A a \in Own(r, c) :
                 Level(r, a) <=> a \in Reached(r, root) /\ IncreasesNesting(r, a)
           /\ \A a \in Reached(r, root) :
                 IncreasesNesting(r, a) => a \in Own(r, c)
<1>1. ASSUME NEW a \in Nodes(r), a \in Own(r, c)
      PROVE  Level(r, a) <=> IncreasesNesting(r, a)
  <2>1. ~Braceless(r, a)
    BY <1>1
  <2>2. Type(r, a) = "if" /\ Marked(r, a, "alternative") =>
            Parent(r, a) # 0 /\ Type(r, Parent(r, a)) = "if"
    BY DEF Grammatical
  <2>3. CASE Type(r, a) = "if"
    BY <2>1, <2>2, <2>3 DEF Level, IncreasesNesting, IsControl, IsElseIf, Braceless, ControlTypes
  <2>4. CASE Type(r, a) # "if"
    BY <2>4 DEF Level, IncreasesNesting, IsControl, IsElseIf, ControlTypes
  <2>5. QED BY <2>3, <2>4
<1>2. \A a : Level(r, a) \/ IncreasesNesting(r, a) => Type(r, a) \in ControlTypes
  BY DEF Level, IncreasesNesting, IsControl
<1>3. \A a \in Own(r, c) : a \in Nodes(r)
  BY DEF Own
<1>4. \A a \in Reached(r, root) : a \in Nodes(r)
  BY DEF Reached, Descendants
<1>5. \A a \in Nodes(r) : Type(r, a) \in ControlTypes =>
         (a \in Own(r, c) <=> a \in Reached(r, root))
  BY OwnReached DEF Unwalked, ControlTypes
<1>6. QED BY <1>1, <1>2, <1>3, <1>4, <1>5

---------------------------------------------------------------------------
(* The walk over the controls of a callable                                *)

\* Ranges of different nodes differ, and come in their order.
LEMMA RangesApart ==
    ASSUME NEW r, IsRegion(r), NEW m \in Nodes(r)
    PROVE  /\ NodeRange(r, m) = NodesRange(r, m, m) /\ NodeRange(r, m) # NoRange
           /\ NodeRange(r, m).start.byte \in Nat /\ NodeRange(r, m).end.byte \in Nat
           /\ StartLine(NodeRange(r, m)) = Line(r, StartByte(m))
           /\ \A k \in Nodes(r) : /\ m < k => NodeRange(r, m).start.byte < NodeRange(r, k).start.byte
                                  /\ NodeRange(r, m) = NodeRange(r, k) => m = k
<1>1. /\ Len(r.tree) \in Nat /\ Nodes(r) = 1..Len(r.tree) /\ r.offset \in Nat /\ r.tail \in {0, 1}
  BY TreeFacts DEF IsRegion, Nodes
<1>2. ASSUME NEW k \in Nodes(r)
      PROVE  /\ NodeRange(r, k) = NodesRange(r, k, k)
             /\ NodeRange(r, k).start.byte = r.offset + 2 * (k - 1)
             /\ NodeRange(r, k).end.byte = r.offset + (2 * LastNode(r, k) - 1 + r.tail)
             /\ NodeRange(r, k).start = Point(r, StartByte(k))
             /\ NodeRange(r, k) # NoRange
  <2>1. k # 0
    BY <1>1
  <2>2. NodeRange(r, k) = NodesRange(r, k, k)
    BY <2>1 DEF NodeRange
  <2>3. /\ NodeRange(r, k).start = Point(r, StartByte(k))
        /\ NodeRange(r, k).end = Point(r, EndByte(r, k))
        /\ "end" \in DOMAIN NodeRange(r, k)
    BY <2>2 DEF NodesRange
  <2>4. \A b : Point(r, b).byte = r.offset + b
    BY DEF Point
  <2>5. NodeRange(r, k) # NoRange
    BY <2>3 DEF NoRange
  <2>6. QED BY <2>2, <2>3, <2>4, <2>5 DEF StartByte, EndByte
<1>3. m \in Nat /\ m > 0 /\ LastNode(r, m) \in Nat /\ LastNode(r, m) > 0
  BY <1>1, LastNodeFacts
<1>4. NodeRange(r, m).start.byte \in Nat /\ NodeRange(r, m).end.byte \in Nat
  BY <1>1, <1>2, <1>3
<1>5. StartLine(NodeRange(r, m)) = Line(r, StartByte(m))
  <2>1. StartByte(m) \in Nat
    BY <1>3 DEF StartByte
  <2>2. QED BY <1>2, <2>1, RowCount DEF StartLine
<1>6. ASSUME NEW k \in Nodes(r), m < k
      PROVE  NodeRange(r, m).start.byte < NodeRange(r, k).start.byte
  <2>1. k \in Nat /\ m \in Nat /\ r.offset \in Nat
    BY <1>1
  <2>2. r.offset + 2 * (m - 1) < r.offset + 2 * (k - 1)
    BY <1>6, <2>1
  <2>3. /\ NodeRange(r, m).start.byte = r.offset + 2 * (m - 1)
        /\ NodeRange(r, k).start.byte = r.offset + 2 * (k - 1)
    BY <1>2
  <2>4. QED BY <2>2, <2>3
<1>7. ASSUME NEW k \in Nodes(r), NodeRange(r, m) = NodeRange(r, k)
      PROVE  m = k
  <2>1. r.offset + 2 * (m - 1) = r.offset + 2 * (k - 1)
    BY <1>2, <1>7
  <2>2. QED BY <1>1, <2>1
<1>8. QED BY <1>2, <1>4, <1>5, <1>6, <1>7

FactsOf(r, c, T) == {ControlFact(r, c, m) : m \in T}

LEMMA EarliestIs ==
    ASSUME NEW r, IsRegion(r), NEW c, NEW T, T \subseteq Nodes(r),
           NEW m \in T, \A k \in T : m <= k
    PROVE  /\ Earliest(FactsOf(r, c, T)) = ControlFact(r, c, m)
           /\ FactsOf(r, c, T) \ {ControlFact(r, c, m)} = FactsOf(r, c, T \ {m})
<1>1. \A k : /\ ControlFact(r, c, k).range = NodeRange(r, k)
             /\ k \in T => ControlFact(r, c, k) \in FactsOf(r, c, T)
  BY DEF ControlFact, FactsOf
<1>2. /\ Nodes(r) \subseteq Nat /\ m \in Nodes(r)
      /\ \A k \in T : k \in Nodes(r) /\ (k = m \/ m < k)
  <2>1. Nodes(r) \subseteq Nat
    BY TreeFacts DEF IsRegion, Nodes
  <2>2. QED BY <2>1
<1>3. ASSUME NEW k \in T, k # m
      PROVE  /\ Earlier(ControlFact(r, c, m), ControlFact(r, c, k))
             /\ ~Earlier(ControlFact(r, c, k), ControlFact(r, c, m))
  <2>1. PICK x \in Nat, y \in Nat : /\ x = ControlFact(r, c, m).range.start.byte
                                    /\ y = ControlFact(r, c, k).range.start.byte
                                    /\ x < y
    BY <1>1, <1>2, <1>3, RangesApart
  <2>2. x # y /\ ~(y < x)
    BY <2>1
  <2>3. QED BY <2>1, <2>2 DEF Earlier
<1>4. Earlier(ControlFact(r, c, m), ControlFact(r, c, m))
  <2>1. PICK x \in Nat, y \in Nat : /\ x = ControlFact(r, c, m).range.start.byte
                                    /\ y = ControlFact(r, c, m).range.end.byte
    BY <1>1, <1>2, RangesApart
  <2>2. QED BY <2>1 DEF Earlier
<1>5. \A f \in FactsOf(r, c, T) : Earlier(ControlFact(r, c, m), f)
  BY <1>3, <1>4 DEF FactsOf
<1>6. ASSUME NEW g \in FactsOf(r, c, T), \A f \in FactsOf(r, c, T) : Earlier(g, f)
      PROVE  g = ControlFact(r, c, m)
  <2>1. PICK k \in T : g = ControlFact(r, c, k)
    BY DEF FactsOf
  <2>2. QED BY <1>1, <1>3, <1>6, <2>1
<1>7. Earliest(FactsOf(r, c, T)) = ControlFact(r, c, m)
  BY <1>1, <1>5, <1>6 DEF Earliest
<1>8. \A k \in T : k # m => ControlFact(r, c, k) # ControlFact(r, c, m)
  BY <1>1, <1>2, RangesApart
<1>9. FactsOf(r, c, T) \ {ControlFact(r, c, m)} = FactsOf(r, c, T \ {m})
  BY <1>8 DEF FactsOf
<1>10. QED BY <1>7, <1>9

\* What the walk knows when the controls in T are left.
Walking(r, c, acc, T) ==
    LET root == StructuralRoot(r, c)
        done == ControlNodes(r, c) \ T
    IN  /\ T \subseteq ControlNodes(r, c)
        /\ acc.left = FactsOf(r, c, T)
        /\ \A k \in done, t \in T : k < t
        /\ DOMAIN acc.depths = {NodeRange(r, k) : k \in done}
        /\ \A k \in done : acc.depths[NodeRange(r, k)] = Deep(r, root, k)
        /\ acc.maximum \in Nat
        /\ \A k \in done : Deep(r, root, k) <= acc.maximum
        /\ \/ acc.maximum = 0 /\ acc.line = 0
           \/ \E k \in done :
                /\ Deep(r, root, k) = acc.maximum /\ acc.maximum # 0
                /\ acc.line = StartLine(NodeRange(r, k))
                /\ \A j \in done : j < k => Deep(r, root, j) < acc.maximum

LEMMA VisitWalks ==
    ASSUME NEW r, IsRegion(r), NEW c \in Nodes(r), NEW acc, NEW T, Walking(r, c, acc, T),
           NEW m \in T, \A k \in T : m <= k
    PROVE  /\ Visit(acc).left = acc.left \ {ControlFact(r, c, m)}
           /\ ControlFact(r, c, m) \in acc.left
           /\ Walking(r, c, Visit(acc), T \ {m})
<1>1. PICK root \in Nodes(r) : root = StructuralRoot(r, c)
  BY RootFacts
<1>2. PICK K : /\ K = ControlNodes(r, c) /\ K \subseteq Reached(r, root) /\ K \subseteq Nodes(r)
               /\ \A k \in Reached(r, root) : IsControl(r, k) => k \in K
  <2>1. /\ ControlNodes(r, c) \subseteq Reached(r, root)
        /\ \A k \in Reached(r, root) : IsControl(r, k) => k \in ControlNodes(r, c)
    BY <1>1 DEF ControlNodes
  <2>2. Reached(r, root) \subseteq Nodes(r)
    BY DEF Reached, Descendants
  <2>3. QED BY <2>1, <2>2
<1> DEFINE done == K \ T
           next == K \ (T \ {m})
           D(k) == Deep(r, root, k)
           f == ControlFact(r, c, m)
           p == ControlAbove(r, root, m)
<1>3. /\ T \subseteq K /\ acc.left = FactsOf(r, c, T)
      /\ \A k \in done, t \in T : k < t
      /\ DOMAIN acc.depths = {NodeRange(r, k) : k \in done}
      /\ \A k \in done : acc.depths[NodeRange(r, k)] = D(k)
      /\ acc.maximum \in Nat
      /\ \A k \in done : D(k) <= acc.maximum
      /\ \/ acc.maximum = 0 /\ acc.line = 0
         \/ \E k \in done :
                /\ D(k) = acc.maximum /\ acc.maximum # 0
                /\ acc.line = StartLine(NodeRange(r, k))
                /\ \A j \in done : j < k => D(j) < acc.maximum
  BY <1>1, <1>2 DEF Walking
<1>4. /\ Nodes(r) \subseteq Nat /\ m \in K /\ T \subseteq Nodes(r) /\ next = done \cup {m} /\ m \notin done
      /\ \A k \in done : k < m
  <2>1. Nodes(r) \subseteq Nat
    BY TreeFacts DEF IsRegion, Nodes
  <2>2. QED BY <1>2, <1>3, <2>1
<1>5. Earliest(acc.left) = f /\ acc.left \ {f} = FactsOf(r, c, T \ {m}) /\ f \in acc.left
  <2>1. Earliest(FactsOf(r, c, T)) = f /\ FactsOf(r, c, T) \ {f} = FactsOf(r, c, T \ {m})
    BY <1>4, EarliestIs, SMTT(30)
  <2>2. f \in FactsOf(r, c, T)
    BY DEF FactsOf
  <2>3. QED BY <1>3, <2>1, <2>2
<1>6. /\ f.range = NodeRange(r, m) /\ f.parent = NodeRange(r, p)
      /\ f.increases = IncreasesNesting(r, m)
  BY <1>1 DEF ControlFact
<1>7. /\ p = 0 \/ p \in done
      /\ D(m) \in Nat
      /\ D(m) = (IF p = 0 THEN 0 ELSE D(p)) + IF IncreasesNesting(r, m) THEN 1 ELSE 0
  <2>1. m \in Reached(r, root)
    BY <1>2, <1>4
  <2>2. /\ p = 0 \/ (p \in Reached(r, root) /\ IsControl(r, p) /\ p < m)
        /\ D(m) \in Nat
        /\ D(m) = (IF p = 0 THEN 0 ELSE D(p)) + IF IncreasesNesting(r, m) THEN 1 ELSE 0
    BY <2>1, DeepStep
  <2>3. p # 0 => p \in K /\ p < m
    BY <1>2, <2>2
  <2>4. p # 0 => p \notin T
    <3>1. \A t \in T : t \in Nat /\ m <= t
      BY <1>4
    <3>2. QED BY <1>4, <2>3, <3>1
  <2>5. QED BY <2>2, <2>3, <2>4
<1>8. \A k \in next : k \in Nodes(r)
  BY <1>2
<1>9. \A j, k \in next : NodeRange(r, j) = NodeRange(r, k) => j = k
  BY <1>8, RangesApart
<1> DEFINE under == IF f.parent \in DOMAIN acc.depths THEN acc.depths[f.parent] ELSE 0
           depth == under + (IF f.increases THEN 1 ELSE 0)
<1>10. depth = D(m)
  <2>1. CASE p = 0
    <3>1. f.parent = NoRange
      BY <1>6, <2>1 DEF NodeRange
    <3>2. f.parent \notin DOMAIN acc.depths
      <4> HIDE DEF f, done, D
      <4>1. \A k \in K : NodeRange(r, k) # NoRange
        BY <1>2, RangesApart
      <4>2. \A k \in done : NodeRange(r, k) # NoRange
        BY <4>1 DEF done
      <4>3. QED BY <1>3, <3>1, <4>2
    <3> HIDE DEF f, p, D
    <3>3. QED BY <1>6, <1>7, <2>1, <3>2
  <2>2. CASE p # 0
    <3> HIDE DEF f, p, D, done
    <3>1. acc.depths[f.parent] = D(p) /\ f.parent \in DOMAIN acc.depths
      BY <1>3, <1>6, <1>7, <2>2
    <3>2. QED BY <1>6, <1>7, <2>2, <3>1
  <2>3. QED BY <2>1, <2>2
<1> DEFINE new == Visit(acc)
<1>11. /\ new.left = acc.left \ {f}
       /\ DOMAIN new.depths = DOMAIN acc.depths \cup {f.range}
       /\ \A x \in DOMAIN acc.depths \cup {f.range} :
             new.depths[x] = IF x = f.range THEN depth ELSE acc.depths[x]
       /\ new.maximum = IF depth > acc.maximum THEN depth ELSE acc.maximum
       /\ new.line = IF depth > acc.maximum THEN StartLine(f.range) ELSE acc.line
  <2> HIDE DEF f
  <2>1. QED BY <1>5 DEF Visit
<1> HIDE DEF f, p, D, under, depth, new
<1>12. DOMAIN new.depths = {NodeRange(r, k) : k \in next}
  BY <1>3, <1>4, <1>6, <1>11
<1>13. \A k \in next : new.depths[NodeRange(r, k)] = D(k)
  <2>1. SUFFICES ASSUME NEW k \in next PROVE new.depths[NodeRange(r, k)] = D(k)
    OBVIOUS
  <2>2. NodeRange(r, k) \in DOMAIN acc.depths \cup {f.range}
    BY <1>11, <1>12
  <2>3. CASE k = m
    BY <1>6, <1>10, <1>11, <2>2, <2>3
  <2>4. CASE k # m
    <3>1. k \in done /\ NodeRange(r, k) # f.range
      BY <1>4, <1>6, <1>9, <2>4
    <3>2. QED BY <1>3, <1>11, <2>2, <3>1
  <2>5. QED BY <2>3, <2>4
<1>14. PICK d \in Nat, x \in Nat, y \in Nat :
           /\ d = D(m) /\ x = acc.maximum /\ y = new.maximum
           /\ y = IF d > x THEN d ELSE x
           /\ new.line = IF d > x THEN StartLine(NodeRange(r, m)) ELSE acc.line
  BY <1>3, <1>6, <1>7, <1>10, <1>11
<1>15. \A k \in next : D(k) <= new.maximum
  <2>1. SUFFICES ASSUME NEW k \in next PROVE D(k) <= new.maximum
    OBVIOUS
  <2>2. CASE k = m
    BY <1>14, <2>2
  <2>3. CASE k # m
    <3>1. k \in done /\ k \in Reached(r, root)
      BY <1>2, <1>4, <2>3
    <3>2. D(k) \in Nat
      BY <3>1, DeepStep DEF D
    <3>3. D(k) <= x
      BY <1>3, <1>14, <3>1
    <3>4. QED BY <1>14, <3>2, <3>3
  <2>4. QED BY <2>2, <2>3
<1>16. \/ new.maximum = 0 /\ new.line = 0
       \/ \E k \in next :
              /\ D(k) = new.maximum /\ new.maximum # 0
              /\ new.line = StartLine(NodeRange(r, k))
              /\ \A j \in next : j < k => D(j) < new.maximum
  <2>1. CASE d > x
    <3>1. /\ D(m) = new.maximum /\ new.maximum # 0
          /\ new.line = StartLine(NodeRange(r, m)) /\ m \in next
      BY <1>4, <1>14, <2>1
    <3>2. ASSUME NEW j \in next, j < m
          PROVE  D(j) < new.maximum
      <4>1. j # m /\ m \in Nat
        BY <1>4, <3>2
      <4>2. j \in done /\ j \in Reached(r, root)
        BY <1>2, <1>4, <4>1
      <4>3. D(j) \in Nat
        BY <4>2, DeepStep DEF D
      <4>4. D(j) <= x
        BY <1>3, <1>14, <4>2
      <4>5. QED BY <1>14, <2>1, <4>3, <4>4
    <3>3. QED BY <3>1, <3>2
  <2>2. CASE ~(d > x)
    <3>1. new.maximum = acc.maximum /\ new.line = acc.line
      BY <1>14, <2>2
    <3>2. CASE acc.maximum = 0 /\ acc.line = 0
      BY <3>1, <3>2
    <3>3. ASSUME NEW k \in done,
                 D(k) = acc.maximum, acc.maximum # 0, acc.line = StartLine(NodeRange(r, k)),
                 \A j \in done : j < k => D(j) < acc.maximum
          PROVE  \E l \in next :
                    /\ D(l) = new.maximum /\ new.maximum # 0
                    /\ new.line = StartLine(NodeRange(r, l))
                    /\ \A j \in next : j < l => D(j) < new.maximum
      <4>1. k \in next /\ k < m /\ k \in Nat /\ m \in Nat
        BY <1>4, <3>3, <1>8
      <4>2. ASSUME NEW j \in next, j < k
            PROVE  D(j) < new.maximum
        <5>1. j # m
          BY <4>1, <4>2
        <5>2. QED BY <1>4, <3>1, <3>3, <4>2, <5>1
      <4>3. QED BY <3>1, <3>3, <4>1, <4>2
    <3>4. QED BY <1>3, <3>2, <3>3
  <2>3. QED BY <2>1, <2>2
<1>17. \A k \in next, t \in T \ {m} : k < t
  <2>1. SUFFICES ASSUME NEW k \in next, NEW t \in T \ {m} PROVE k < t
    OBVIOUS
  <2>2. t \in Nat /\ m \in Nat /\ m <= t
    BY <1>4
  <2>3. QED BY <1>3, <1>4, <2>2
<1>18. new.left = FactsOf(r, c, T \ {m}) /\ new.maximum \in Nat /\ T \ {m} \subseteq K
  BY <1>3, <1>5, <1>11, <1>14
<1>19. Walking(r, c, new, T \ {m})
  BY <1>1, <1>2, <1>12, <1>13, <1>15, <1>16, <1>17, <1>18 DEF Walking, D
<1>20. QED BY <1>5, <1>11, <1>19 DEF new, f

\* The iterations of _maximum_depth()
Visits(S, k, g) == g = [i \in 0..k |-> IF i = 0 THEN Unvisited(S) ELSE Visit(g[i - 1])]

LEMMA VisitsExist ==
    ASSUME NEW S, NEW n \in Nat, NEW k \in 0..n
    PROVE  \E g : Visits(S, k, g)
<1> DEFINE bad == {j \in 0..n : ~\E g : Visits(S, j, g)}
<1>1. ASSUME bad # {}
      PROVE  FALSE
  <2>1. PICK m \in bad : \A y \in bad : m <= y
    <3>1. bad \subseteq Nat
      OBVIOUS
    <3> HIDE DEF bad
    <3>2. QED BY <1>1, <3>1, Least
  <2>2. m \in 0..n /\ ~\E g : Visits(S, m, g)
    BY <2>1
  <2>3. m # 0
    <3>1. Visits(S, 0, [i \in 0..0 |-> Unvisited(S)])
      BY DEF Visits
    <3>2. QED BY <2>2, <3>1
  <2>4. PICK j \in 0..n : m = j + 1
    BY <2>2, <2>3
  <2>5. PICK g : Visits(S, j, g)
    <3>1. j \notin bad
      BY <2>1, <2>4
    <3>2. QED BY <3>1
  <2> DEFINE h == [i \in 0..m |-> IF i = m THEN Visit(g[j]) ELSE g[i]]
  <2>6. ASSUME NEW i \in 0..m
        PROVE  h[i] = IF i = 0 THEN Unvisited(S) ELSE Visit(h[i - 1])
    <3>1. CASE i = m
      <4>1. h[i] = Visit(g[j]) /\ i # 0 /\ i - 1 = j /\ h[j] = g[j]
        BY <2>2, <2>3, <2>4, <3>1
      <4> HIDE DEF h
      <4>2. QED BY <4>1
    <3>2. CASE i # m
      <4>1. i \in 0..j /\ h[i] = g[i]
        BY <2>4, <3>2
      <4>2. g[i] = IF i = 0 THEN Unvisited(S) ELSE Visit(g[i - 1])
        BY <2>5, <4>1 DEF Visits
      <4>3. i # 0 => h[i - 1] = g[i - 1]
        BY <2>4, <4>1
      <4> HIDE DEF h
      <4>4. QED BY <4>1, <4>2, <4>3
    <3>3. QED BY <3>1, <3>2
  <2>7. h = [i \in 0..m |-> h[i]]
    OBVIOUS
  <2>8. Visits(S, m, h)
    <3> HIDE DEF h
    <3>1. QED BY <2>6, <2>7 DEF Visits
  <2>9. QED BY <2>2, <2>8
<1>2. QED BY <1>1

LEMMA WalkEnds ==
    ASSUME NEW r, IsRegion(r), NEW c \in Nodes(r)
    PROVE  Walking(r, c, MaximumDepth(ControlsOf(r, c)), {})
<1> DEFINE S == ControlsOf(r, c)
           n == Cardinality(S)
           g == CHOOSE g : g = [i \in 0..n |-> IF i = 0 THEN Unvisited(S) ELSE Visit(g[i - 1])]
           W(i) == \E T : /\ Walking(r, c, g[i], T)
                          /\ IsFiniteSet(g[i].left) /\ Cardinality(g[i].left) = n - i
<1>1. /\ ControlNodes(r, c) \subseteq Nodes(r) /\ Nodes(r) \subseteq Nat /\ IsFiniteSet(Nodes(r))
  <2>1. ControlNodes(r, c) \subseteq Nodes(r)
    BY DEF ControlNodes, Reached, Descendants
  <2>2. Nodes(r) = 1..Len(r.tree) /\ Len(r.tree) \in Nat
    BY TreeFacts DEF IsRegion, Nodes
  <2>3. IsFiniteSet(1..Len(r.tree))
    BY <2>2, FS_Interval
  <2>4. QED BY <2>1, <2>2, <2>3
<1>2. IsFiniteSet(S) /\ n \in Nat /\ S = FactsOf(r, c, ControlNodes(r, c))
  <2>1. S = FactsOf(r, c, ControlNodes(r, c))
    BY DEF ControlsOf, FactsOf
  <2>2. IsFiniteSet(ControlNodes(r, c))
    BY <1>1, FS_Subset
  <2>3. IsFiniteSet(FactsOf(r, c, ControlNodes(r, c)))
    <3> DEFINE f == [k \in ControlNodes(r, c) |-> ControlFact(r, c, k)]
    <3>1. f \in Surjection(ControlNodes(r, c), FactsOf(r, c, ControlNodes(r, c)))
      BY DEF Surjection, FactsOf
    <3>2. QED BY <2>2, <3>1, FS_Surjection
  <2> HIDE DEF S
  <2>4. QED BY <2>1, <2>3, FS_CardinalityType
<1> HIDE DEF S, n
<1>3. Visits(S, n, g)
  <2>1. n \in 0..n
    BY <1>2
  <2>2. QED BY <1>2, <2>1, VisitsExist DEF Visits
<1>4. MaximumDepth(S) = g[n]
  BY DEF MaximumDepth, n
<1> HIDE DEF g
<1>5. g[0] = Unvisited(S) /\ \A i \in 0..n : i # 0 => g[i] = Visit(g[i - 1])
  BY <1>2, <1>3 DEF Visits
<1>6. W(0)
  <2>1. g[0].left = S /\ g[0].maximum = 0 /\ g[0].line = 0 /\ DOMAIN g[0].depths = {}
    BY <1>5 DEF Unvisited
  <2>2. Walking(r, c, g[0], ControlNodes(r, c))
    BY <1>2, <2>1 DEF Walking
  <2>3. QED BY <1>2, <2>1, <2>2 DEF n
<1>7. ASSUME NEW i \in 0..n, i # n, W(i)
      PROVE  W(i + 1)
  <2>1. PICK T : /\ Walking(r, c, g[i], T)
                 /\ IsFiniteSet(g[i].left) /\ Cardinality(g[i].left) = n - i
    BY <1>7
  <2>2. T \subseteq ControlNodes(r, c) /\ g[i].left = FactsOf(r, c, T)
    BY <2>1 DEF Walking
  <2>3. T # {}
    <3>1. T = {} => g[i].left = {}
      BY <2>2 DEF FactsOf
    <3>2. n - i # 0
      BY <1>2, <1>7
    <3>3. QED BY <2>1, <3>1, <3>2, FS_EmptySet
  <2>4. PICK m \in T : \A k \in T : m <= k
    <3>1. T \subseteq Nat
      BY <1>1, <2>2
    <3>2. QED BY <2>3, <3>1, Least
  <2>5. g[i + 1] = Visit(g[i])
    BY <1>2, <1>5, <1>7
  <2>6. /\ g[i + 1].left = g[i].left \ {ControlFact(r, c, m)}
        /\ ControlFact(r, c, m) \in g[i].left
        /\ Walking(r, c, g[i + 1], T \ {m})
    <3>1. PICK acc : acc = g[i]
      OBVIOUS
    <3>2. Walking(r, c, acc, T)
      BY <2>1, <3>1
    <3>3. /\ Visit(acc).left = acc.left \ {ControlFact(r, c, m)}
          /\ ControlFact(r, c, m) \in acc.left
          /\ Walking(r, c, Visit(acc), T \ {m})
      BY <2>4, <3>2, VisitWalks
    <3>4. QED BY <2>5, <3>1, <3>3
  <2>7. /\ IsFiniteSet(g[i + 1].left)
        /\ Cardinality(g[i + 1].left) = Cardinality(g[i].left) - 1
    BY <2>1, <2>6, FS_RemoveElement
  <2>8. n - i - 1 = n - (i + 1)
    BY <1>2
  <2>9. QED BY <2>1, <2>6, <2>7, <2>8
<1>8. W(n)
  <2> DEFINE bad == {i \in 0..n : ~W(i)}
  <2>1. ASSUME bad # {}
        PROVE  FALSE
    <3>1. PICK m \in bad : \A y \in bad : m <= y
      <4>1. bad \subseteq Nat
        OBVIOUS
      <4> HIDE DEF bad
      <4>2. QED BY <2>1, <4>1, Least
    <3>2. m \in 0..n /\ ~W(m)
      BY <3>1
    <3>3. m # 0
      BY <1>6, <3>2
    <3>4. PICK j \in 0..n : m = j + 1 /\ j # n
      BY <1>2, <3>2, <3>3
    <3>5. j \notin bad
      <4>1. ~(m <= j)
        BY <3>4
      <4> HIDE DEF bad
      <4>2. QED BY <3>1, <4>1
    <3>6. W(j)
      BY <3>5
    <3> HIDE DEF W, bad
    <3>7. QED BY <1>7, <3>2, <3>4, <3>6
  <2>2. n \notin bad /\ n \in 0..n
    BY <1>2, <2>1
  <2>3. QED BY <2>2
<1>9. PICK T : /\ Walking(r, c, g[n], T)
               /\ IsFiniteSet(g[n].left) /\ Cardinality(g[n].left) = n - n
  BY <1>8
<1>10. T = {}
  <2>1. n - n = 0
    BY <1>2
  <2>2. g[n].left = {}
    BY <1>9, <2>1, FS_EmptySet
  <2>3. g[n].left = FactsOf(r, c, T)
    BY <1>9 DEF Walking
  <2>4. QED BY <2>2, <2>3 DEF FactsOf
<1>11. QED BY <1>4, <1>9, <1>10 DEF S

---------------------------------------------------------------------------
(* What is charged to a callable                                           *)

\* In one tree no two callables have the same range.
LEMMA RangesTell ==
    ASSUME NEW r, IsRegion(r), NEW c \in Callables(r), NEW d \in Callables(r),
           SourceStart(r, c) = SourceStart(r, d),
           LastNode(r, StructuralRoot(r, c)) = LastNode(r, StructuralRoot(r, d))
    PROVE  ~(c < d)
<1> SUFFICES ASSUME c < d PROVE FALSE
  OBVIOUS
<1>1. /\ Nodes(r) = 1..Len(r.tree) /\ Len(r.tree) \in Nat
      /\ c \in Nodes(r) /\ d \in Nodes(r)
      /\ Type(r, c) \in CallableTypes /\ Type(r, d) \in CallableTypes
  BY TreeFacts DEF IsRegion, Nodes, Callables
<1>2. \A x \in {c, d} :
         \/ /\ SourceStart(r, x) = Parent(r, x) /\ Parent(r, x) # 0
            /\ Type(r, Parent(r, x)) = "wrapper"
         \/ /\ SourceStart(r, x) = AssignedOwner(r, x) /\ AssignedOwner(r, x) # 0
         \/ SourceStart(r, x) = x
  BY DEF SourceStart
<1>3. \A x : AssignedOwner(r, x) # 0 =>
         /\ Type(r, x) = "closure"
         /\ AssignedOwner(r, x) = Nearest(r, x, CallableTypes \cup {"declaration"})
         /\ Type(r, AssignedOwner(r, x)) = "declaration"
  BY DEF AssignedOwner
<1>4. PICK s : s = SourceStart(r, c) /\ s = SourceStart(r, d)
  OBVIOUS
<1>5. Type(r, s) \notin {"wrapper", "declaration"} => s = c /\ s = d
  BY <1>2, <1>3, <1>4
<1>6. CASE Type(r, s) = "wrapper"
  <2>1. Parent(r, c) = s /\ Parent(r, d) = s
    BY <1>1, <1>2, <1>3, <1>4, <1>6 DEF CallableTypes
  <2>2. PICK e \in Nodes(r), f \in Nodes(r) :
             /\ e = StructuralRoot(r, c) /\ f = StructuralRoot(r, d) /\ f >= d
             /\ e = c \/ (Type(r, e) = "body" /\ e = LastNode(r, c) + 1)
             /\ f = d \/ (Type(r, f) = "body" /\ f = LastNode(r, d) + 1)
    BY <1>1, RootFacts
  <2>3. Parent(r, e) = s /\ Parent(r, f) = s
    BY <2>1, <2>2 DEF StructuralRoot, DartBody
  <2>4. LastNode(r, c) < d /\ LastNode(r, c) \in Nat
    BY <1>1, <2>1, Siblings, LastNodeFacts
  <2>5. LastNode(r, d) \in Nat /\ d <= LastNode(r, d)
    BY <1>1, LastNodeFacts
  <2>6. e # f
    <3>1. CASE e = c
      BY <1>1, <2>2, <3>1
    <3>2. CASE f = d /\ e # c
      <4>1. e = d => Type(r, d) = "body"
        BY <2>2, <3>2
      <4>2. QED BY <1>1, <3>2, <4>1 DEF CallableTypes
    <3>3. CASE e # c /\ f # d
      BY <1>1, <2>2, <2>4, <2>5, <3>3
    <3>4. QED BY <3>1, <3>2, <3>3
  <2>7. (e < f => LastNode(r, e) < f) /\ (f < e => LastNode(r, f) < e)
    BY <2>3, Siblings
  <2>8. PICK x \in Nat, y \in Nat : /\ x = LastNode(r, e) /\ y = LastNode(r, f)
                                    /\ e <= x /\ f <= y /\ x = y
    BY <1>1, <2>2, LastNodeFacts
  <2>9. QED BY <1>1, <2>6, <2>7, <2>8
<1>7. CASE Type(r, s) = "declaration"
  <2>1. AssignedOwner(r, c) = s /\ AssignedOwner(r, d) = s /\ s # 0
    BY <1>1, <1>2, <1>3, <1>4, <1>7 DEF CallableTypes
  <2>2. /\ Type(r, c) = "closure" /\ Type(r, d) = "closure"
        /\ Nearest(r, c, CallableTypes \cup {"declaration"}) = s
        /\ Nearest(r, d, CallableTypes \cup {"declaration"}) = s
    BY <1>3, <2>1
  <2>3. StructuralRoot(r, c) = c /\ StructuralRoot(r, d) = d
    BY <2>2 DEF StructuralRoot, DartBody
  <2>4. c \in Ancestors(r, d)
    <3>1. d <= LastNode(r, d) /\ LastNode(r, c) = LastNode(r, d)
      BY <1>1, <2>3, LastNodeFacts
    <3>2. QED BY <1>1, <3>1, Within
  <2>5. c <= s
    BY <1>1, <2>2, <2>4, NearestIs
  <2>6. s \in 0..c - 1
    BY <1>1, <2>2, NearestFacts
  <2>7. QED BY <1>1, <2>5, <2>6
<1>8. QED BY <1>1, <1>4, <1>5, <1>6, <1>7

\* Keys tell the callables of an invocation apart.
LEMMA KeysTell ==
    ASSUME IInv, NEW r \in AnalysedRegions, NEW q \in AnalysedRegions,
           NEW c \in Callables(r), NEW d \in Callables(q), Key(r, c) = Key(q, d)
    PROVE  r = q /\ c = d
<1>1. /\ IsRegion(r) /\ IsRegion(q)
      /\ Nodes(r) = 1..Len(r.tree) /\ Len(r.tree) \in Nat
      /\ Nodes(q) = 1..Len(q.tree) /\ Len(q.tree) \in Nat
      /\ r.offset \in Nat /\ q.offset \in Nat /\ r.tail \in {0, 1}
      /\ c \in Nodes(r) /\ d \in Nodes(q)
  BY RegionsTyped, TreeFacts DEF IsRegion, Nodes, Callables
<1>2. /\ r.path = q.path
      /\ CallableRange(r, c) = CallableRange(q, d)
  BY DEF Key
<1>3. PICK s \in Nodes(r), t \in Nodes(q) : s = SourceStart(r, c) /\ t = SourceStart(q, d)
  <2>1. SourceStart(r, c) \in 1..c /\ SourceStart(q, d) \in 1..d
    BY <1>1, RangeInOrder
  <2>2. QED BY <1>1, <2>1
<1>4. /\ r.offset + 2 * (s - 1) = q.offset + 2 * (t - 1)
      /\ r.offset + EndByte(r, StructuralRoot(r, c)) = q.offset + EndByte(q, StructuralRoot(q, d))
  <2>1. \A x, b : Point(x, b).byte = x.offset + b
    BY DEF Point
  <2>2. /\ CallableRange(r, c).start = Point(r, StartByte(s))
        /\ CallableRange(q, d).start = Point(q, StartByte(t))
        /\ CallableRange(r, c).end = Point(r, EndByte(r, StructuralRoot(r, c)))
        /\ CallableRange(q, d).end = Point(q, EndByte(q, StructuralRoot(q, d)))
    BY <1>3 DEF CallableRange, NodesRange
  <2>3. QED BY <1>2, <2>1, <2>2 DEF StartByte
<1> PICK i \in DOMAIN files :
        \E j \in Regions(files[i]) :
           /\ r = ExecutableRegion(i, files[i], files[i].scripts[j])
           /\ j \in DOMAIN files[i].scripts /\ files[i] \in Files
  BY RegionPlace
<1>5. PICK j \in Regions(files[i]) :
           /\ r = ExecutableRegion(i, files[i], files[i].scripts[j])
           /\ j \in DOMAIN files[i].scripts /\ files[i] \in Files
  OBVIOUS
<1>6. PICK k \in Regions(files[i]) :
           /\ q = ExecutableRegion(i, files[i], files[i].scripts[k])
           /\ k \in DOMAIN files[i].scripts
  <2>1. PICK h \in DOMAIN files :
           \E k \in Regions(files[h]) :
             /\ q = ExecutableRegion(h, files[h], files[h].scripts[k])
             /\ k \in DOMAIN files[h].scripts
    BY RegionPlace
  <2>2. r.path = i /\ q.path = h
    BY <1>5, <2>1 DEF ExecutableRegion
  <2>3. QED BY <1>2, <2>1, <2>2
<1>7. r = q
  <2>1. files \in Workloads
    BY DEF IInv, Places
  <2>2. /\ r.offset = files[i].scripts[j].offset /\ r.tree = files[i].scripts[j].tree
        /\ q.offset = files[i].scripts[k].offset /\ q.tree = files[i].scripts[k].tree
    BY <1>5, <1>6 DEF ExecutableRegion
  <2>3. /\ j < k => r.offset + 2 * Len(r.tree) <= q.offset
        /\ k < j => q.offset + 2 * Len(q.tree) <= r.offset
    BY <1>5, <1>6, <2>1, <2>2, AnalysisAssumption
  <2>4. ~(j < k)
    BY <1>1, <1>3, <1>4, <2>3, SMTT(30)
  <2>5. ~(k < j)
    BY <1>1, <1>3, <1>4, <2>3, SMTT(30)
  <2>6. j \in Nat /\ k \in Nat
    <3>1. files[i].scripts \in Seq(Scripts)
      BY <1>5 DEF Files
    <3>2. DOMAIN files[i].scripts = 1..Len(files[i].scripts) /\ Len(files[i].scripts) \in Nat
      BY <3>1
    <3>3. QED BY <1>5, <1>6, <3>2
  <2>7. QED BY <1>5, <1>6, <2>4, <2>5, <2>6
<1>8. c = d
  <2>1. d \in Callables(r) /\ SourceStart(r, d) = t /\ s \in Nat /\ t \in Nat
    BY <1>1, <1>3, <1>7
  <2>2. s = t
    BY <1>1, <1>4, <1>7, <2>1
  <2>3. PICK x \in Nat, y \in Nat : /\ x = LastNode(r, StructuralRoot(r, c))
                                    /\ y = LastNode(r, StructuralRoot(r, d))
    <3>1. StructuralRoot(r, c) \in Nodes(r) /\ StructuralRoot(r, d) \in Nodes(r)
      BY <1>1, <1>7, RootFacts
    <3>2. /\ LastNode(r, StructuralRoot(r, c)) \in Nat
          /\ LastNode(r, StructuralRoot(r, d)) \in Nat
      BY <1>1, <3>1, LastNodeFacts
    <3>3. QED BY <3>2
  <2>4. r.offset + (2 * x - 1 + r.tail) = r.offset + (2 * y - 1 + r.tail)
    BY <1>4, <1>7, <2>3 DEF EndByte
  <2>5. x = y
    <3>1. PICK o \in Nat, e \in Nat : o = r.offset /\ e = r.tail
      BY <1>1
    <3>2. o + (2 * x - 1 + e) = o + (2 * y - 1 + e)
      BY <2>4, <3>1
    <3>3. QED BY <3>2
  <2>6. ~(c < d) /\ ~(d < c)
    BY <1>1, <1>3, <2>1, <2>2, <2>3, <2>5, RangesTell
  <2>7. QED BY <1>1, <1>7, <2>6
<1>9. QED BY <1>7, <1>8

\* What a callable is charged is what was found in it.
LEMMA ChargedAre ==
    ASSUME IInv, NEW r \in AnalysedRegions, NEW c \in Callables(r)
    PROVE  /\ {x \in Batch("controls") : x.callable = Key(r, c)} = ControlsOf(r, c)
           /\ {x \in Batch("decisions") : x.callable = Key(r, c)} = DecisionsOf(r, c)
<1>1. \A k \in DOMAIN NoFacts : \A x :
         x \in Batch(k) <=> \E q \in AnalysedRegions : x \in ExtractFacts(q)[k]
  BY DEF Batch, AnalysedRegions, IInv, WholeFiles, MeasuredWhole
<1>2. "controls" \in DOMAIN NoFacts /\ "decisions" \in DOMAIN NoFacts
  BY DEF NoFacts
<1>3. \A q : /\ ExtractFacts(q)["controls"] = UNION {ControlsOf(q, d) : d \in Callables(q)}
             /\ ExtractFacts(q)["decisions"] = UNION {DecisionsOf(q, d) : d \in Callables(q)}
  BY DEF ExtractFacts
<1>4. \A x, q, d : x \in ControlsOf(q, d) \/ x \in DecisionsOf(q, d) => x.callable = Key(q, d)
  BY DEF ControlsOf, ControlFact, DecisionsOf
<1>5. \A x : x \in Batch("controls") <=>
                \E q \in AnalysedRegions : \E d \in Callables(q) : x \in ControlsOf(q, d)
  BY <1>1, <1>2, <1>3
<1>6. \A x : x \in Batch("decisions") <=>
                \E q \in AnalysedRegions : \E d \in Callables(q) : x \in DecisionsOf(q, d)
  BY <1>1, <1>2, <1>3
<1>7. \A x : x \in Batch("controls") /\ x.callable = Key(r, c) <=> x \in ControlsOf(r, c)
  BY <1>4, <1>5, KeysTell
<1>8. \A x : x \in Batch("decisions") /\ x.callable = Key(r, c) <=> x \in DecisionsOf(r, c)
  BY <1>4, <1>6, KeysTell
<1>9. QED BY <1>7, <1>8

---------------------------------------------------------------------------
(* The depth of a callable                                                 *)

OwnLevels(r, c, n) == {a \in {n} \cup Ancestors(r, n) : a \in Own(r, c) /\ Level(r, a)}

LEMMA LevelsAre ==
    ASSUME NEW r, IsRegion(r), Grammatical(r), NEW c \in Callables(r),
           \A n \in Own(r, c) : ~Braceless(r, n),
           NEW root, root = StructuralRoot(r, c), NEW m \in Reached(r, root)
    PROVE  OwnLevels(r, c, m) = Levels(r, root, m)
<1>1. /\ Nodes(r) \subseteq Nat /\ root \in Nodes(r) /\ m \in Descendants(r, root) /\ m \in Nodes(r)
      /\ c \in Nodes(r)
  BY TreeFacts, RootFacts DEF IsRegion, Nodes, Reached, Descendants, Callables
<1>2. /\ Path(r, root, m) = {a \in {m} \cup Ancestors(r, m) : a > root}
      /\ \A a \in Path(r, root, m) : a \in Descendants(r, root) /\ a <= m
  BY <1>1, PathIs
<1>3. /\ \A a \in Own(r, c) : Level(r, a) <=> a \in Reached(r, root) /\ IncreasesNesting(r, a)
      /\ \A a \in Reached(r, root) : IncreasesNesting(r, a) => a \in Own(r, c)
  BY LevelsOwn
<1>4. ASSUME NEW a \in Levels(r, root, m)
      PROVE  a \in OwnLevels(r, c, m)
  <2>1. /\ a \in Path(r, root, m) /\ IncreasesNesting(r, a) /\ a \in Descendants(r, root)
        /\ a \in {m} \cup Ancestors(r, m)
    BY <1>2 DEF Levels
  <2>2. Path(r, root, a) \subseteq Path(r, root, m)
    <3>1. Path(r, root, a) = {x \in {a} \cup Ancestors(r, a) : x > root}
      BY <1>1, <2>1, PathIs
    <3>2. Ancestors(r, a) \subseteq Ancestors(r, m)
      BY <1>1, <2>1, AncestorsBefore
    <3>3. QED BY <1>2, <2>1, <3>1, <3>2
  <2>3. a \in Reached(r, root)
    BY <2>1, <2>2 DEF Reached
  <2>4. QED BY <1>3, <2>1, <2>3 DEF OwnLevels
<1>5. ASSUME NEW a \in OwnLevels(r, c, m)
      PROVE  a \in Levels(r, root, m)
  <2>1. a \in {m} \cup Ancestors(r, m) /\ a \in Reached(r, root) /\ IncreasesNesting(r, a)
    BY <1>3 DEF OwnLevels
  <2>2. a \in Nodes(r) /\ root \in Ancestors(r, a)
    BY <2>1 DEF Reached, Descendants
  <2>3. a > root
    BY <1>1, <2>2, Within
  <2>4. QED BY <1>2, <2>1, <2>3 DEF Levels
<1>6. QED BY <1>4, <1>5

\* A node is as deep as the innermost level around it.
LEMMA DepthAt ==
    ASSUME NEW r, IsRegion(r), Grammatical(r), NEW c \in Callables(r),
           \A n \in Own(r, c) : ~Braceless(r, n),
           NEW root, root = StructuralRoot(r, c), NEW n \in Nodes(r)
    PROVE  \/ Depth(r, c, n) = 0 /\ OwnLevels(r, c, n) = {}
           \/ \E g \in Reached(r, root) :
                 /\ IncreasesNesting(r, g) /\ g \in OwnLevels(r, c, n)
                 /\ Depth(r, c, n) = Deep(r, root, g)
<1> DEFINE S == OwnLevels(r, c, n)
<1>1. Depth(r, c, n) = Cardinality(S)
  BY DEF Depth, OwnLevels
<1>2. CASE S = {}
  BY <1>1, <1>2, FS_EmptySet
<1>3. CASE S # {}
  <2>1. /\ Nodes(r) \subseteq Nat /\ Ancestors(r, n) \subseteq 1..n - 1 /\ n \in Nat
        /\ \A a \in Ancestors(r, n) : a \in Nodes(r)
    <3>1. Nodes(r) = 1..Len(r.tree) /\ Len(r.tree) \in Nat /\ Ancestors(r, n) \subseteq 1..n - 1
      BY TreeFacts, AncestorsBefore DEF IsRegion, Nodes
    <3>2. QED BY <3>1
  <2>2. S \subseteq Nat /\ \A a \in S : a <= n
    BY <2>1 DEF OwnLevels
  <2>3. PICK g \in S : \A a \in S : g >= a
    <3> HIDE DEF S
    <3>1. QED BY <1>3, <2>1, <2>2, Greatest
  <2>4. g \in {n} \cup Ancestors(r, n) /\ g \in Own(r, c) /\ Level(r, g) /\ g \in Nodes(r)
    BY <2>1, <2>3 DEF OwnLevels
  <2>5. g \in Reached(r, root) /\ IncreasesNesting(r, g)
    BY <2>4, LevelsOwn
  <2>6. Ancestors(r, g) \subseteq Ancestors(r, n)
    BY <2>4, AncestorsBefore
  <2>7. ASSUME NEW a \in S
        PROVE  a \in {g} \cup Ancestors(r, g)
    <3>1. a \in {n} \cup Ancestors(r, n) /\ a \in Nodes(r) /\ a <= g
      BY <2>1, <2>3 DEF OwnLevels
    <3>2. CASE a = g
      BY <3>2
    <3>3. CASE a # g
      <4>1. a < g /\ g <= n /\ a # n
        BY <2>1, <2>2, <3>1, <3>3
      <4>2. a \in Ancestors(r, g)
        BY <2>1, <2>4, <3>1, <4>1, Contiguous
      <4>3. QED BY <4>2
    <3>4. QED BY <3>2, <3>3
  <2>8. S = OwnLevels(r, c, g)
    BY <2>4, <2>6, <2>7 DEF OwnLevels
  <2>9. S = Levels(r, root, g)
    BY <2>5, <2>8, LevelsAre
  <2> HIDE DEF S
  <2>10. QED BY <1>1, <2>3, <2>5, <2>9 DEF Deep, S
<1>4. QED BY <1>2, <1>3

\* The guard's walk finds the greatest depth, and where it is reached first.
LEMMA WalkIsExact ==
    ASSUME NEW r, IsRegion(r), Grammatical(r), NEW c \in Callables(r),
           \A n \in Own(r, c) : ~Braceless(r, n)
    PROVE  LET deepest == Max({0} \cup {Depth(r, c, n) : n \in Own(r, c)})
               there == {n \in Own(r, c) : Level(r, n) /\ Depth(r, c, n) = deepest}
               walk == MaximumDepth(ControlsOf(r, c))
           IN  /\ walk.maximum = deepest /\ walk.maximum \in Nat
               /\ walk.line = IF deepest = 0 THEN 0 ELSE Line(r, StartByte(Min(there)))
<1>1. PICK root \in Nodes(r) : root = StructuralRoot(r, c)
  BY RootFacts DEF Callables
<1>2. /\ Nodes(r) \subseteq Nat /\ c \in Nodes(r)
      /\ \A n \in Own(r, c) : n \in Nodes(r)
      /\ \A n \in Reached(r, root) : n \in Nodes(r)
  BY TreeFacts DEF IsRegion, Nodes, Callables, Own, Reached, Descendants
<1>3. PICK walk : walk = MaximumDepth(ControlsOf(r, c))
  OBVIOUS
<1>4. PICK x \in Nat :
         /\ x = walk.maximum
         /\ \A k \in ControlNodes(r, c) : Deep(r, root, k) <= x
         /\ \/ x = 0 /\ walk.line = 0
            \/ \E k \in ControlNodes(r, c) :
                  /\ Deep(r, root, k) = x /\ x # 0
                  /\ walk.line = StartLine(NodeRange(r, k))
                  /\ \A j \in ControlNodes(r, c) : j < k => Deep(r, root, j) < x
  <2>1. Walking(r, c, walk, {})
    BY <1>2, <1>3, WalkEnds
  <2>2. QED BY <1>1, <2>1 DEF Walking
<1>5. \A k \in Reached(r, root) :
         /\ IncreasesNesting(r, k) => k \in ControlNodes(r, c)
         /\ Deep(r, root, k) \in Nat
  BY <1>1, DeepStep DEF ControlNodes, IncreasesNesting
<1>6. /\ \A a \in Own(r, c) : Level(r, a) <=> a \in Reached(r, root) /\ IncreasesNesting(r, a)
      /\ \A a \in Reached(r, root) : IncreasesNesting(r, a) => a \in Own(r, c)
  BY <1>1, LevelsOwn
<1> DEFINE D == {0} \cup {Depth(r, c, n) : n \in Own(r, c)}
<1>7. \A n \in Nodes(r) :
         \/ Depth(r, c, n) = 0 /\ OwnLevels(r, c, n) = {}
         \/ \E g \in Reached(r, root) :
               /\ IncreasesNesting(r, g) /\ g \in OwnLevels(r, c, n)
               /\ Depth(r, c, n) = Deep(r, root, g)
  BY <1>1, DepthAt
<1>8. D \subseteq Nat /\ D # {} /\ \A d \in D : d <= x
  BY <1>2, <1>3, <1>4, <1>5, <1>7
<1>9. \A k \in Reached(r, root) : Depth(r, c, k) = Deep(r, root, k)
  BY <1>1, LevelsAre DEF Depth, Deep, OwnLevels
<1>10. PICK deepest \in D : deepest = Max(D) /\ \A d \in D : deepest >= d
  <2> HIDE DEF D
  <2>1. QED BY <1>3, <1>4, <1>8, Greatest
<1> DEFINE there == {n \in Own(r, c) : Level(r, n) /\ Depth(r, c, n) = deepest}
<1>11. CASE x = 0 /\ walk.line = 0
  <2>1. deepest = 0
    BY <1>8, <1>10, <1>11
  <2> HIDE DEF D
  <2>2. QED BY <1>3, <1>4, <1>10, <1>11, <2>1 DEF D
<1>12. ASSUME NEW k \in ControlNodes(r, c), Deep(r, root, k) = x, x # 0,
              walk.line = StartLine(NodeRange(r, k)),
              \A j \in ControlNodes(r, c) : j < k => Deep(r, root, j) < x
       PROVE  deepest = x /\ walk.line = Line(r, StartByte(Min(there)))
  <2>1. k \in Reached(r, root) /\ k \in Nodes(r) /\ k \in Nat
    BY <1>1, <1>2 DEF ControlNodes
  <2>2. IncreasesNesting(r, k)
    <3>1. SUFFICES ASSUME ~IncreasesNesting(r, k) PROVE FALSE
      OBVIOUS
    <3>2. Depth(r, c, k) = x
      BY <1>9, <1>12, <2>1
    <3>3. PICK g \in Reached(r, root) : /\ IncreasesNesting(r, g) /\ g \in OwnLevels(r, c, k)
                                        /\ Deep(r, root, g) = x
      BY <1>7, <1>12, <2>1, <3>2
    <3>4. g < k
      <4>1. g \in Ancestors(r, k)
        BY <3>1, <3>3 DEF OwnLevels
      <4>2. Ancestors(r, k) \subseteq 1..k - 1
        BY <2>1, AncestorsBefore
      <4>3. QED BY <2>1, <4>1, <4>2
    <3>5. Deep(r, root, g) < x
      BY <1>5, <1>12, <3>3, <3>4
    <3>6. QED BY <1>3, <1>4, <3>3, <3>5
  <2>3. k \in Own(r, c) /\ Level(r, k) /\ Depth(r, c, k) = x
    BY <1>6, <1>9, <1>12, <2>1, <2>2
  <2>4. deepest = x
    <3>1. x \in D
      BY <2>3
    <3> HIDE DEF D
    <3>2. QED BY <1>3, <1>4, <1>8, <1>10, <3>1
  <2>5. k \in there
    BY <2>3, <2>4
  <2>6. ASSUME NEW j \in there
        PROVE  j \in Nat /\ k <= j
    <3>1. j \in Own(r, c) /\ Level(r, j) /\ Depth(r, c, j) = x
      BY <2>4
    <3>2. j \in Reached(r, root) /\ j \in ControlNodes(r, c) /\ j \in Nat
      BY <1>2, <1>5, <1>6, <3>1
    <3>3. Deep(r, root, j) = x
      BY <1>9, <3>1, <3>2
    <3>4. ~(j < k)
      BY <1>3, <1>4, <1>12, <3>2, <3>3
    <3>5. QED BY <2>1, <3>2, <3>4
  <2>7. Min(there) = k
    <3> HIDE DEF there
    <3>1. \A j \in there : (\A i \in there : j <= i) => j = k
      BY <2>1, <2>5, <2>6
    <3>2. QED BY <2>5, <2>6, <3>1 DEF Min
  <2>8. StartLine(NodeRange(r, k)) = Line(r, StartByte(k))
    BY <2>1, RangesApart
  <2>9. QED BY <1>12, <2>4, <2>7, <2>8
<1>13. CASE \E k \in ControlNodes(r, c) :
                  /\ Deep(r, root, k) = x /\ x # 0
                  /\ walk.line = StartLine(NodeRange(r, k))
                  /\ \A j \in ControlNodes(r, c) : j < k => Deep(r, root, j) < x
  <2>1. deepest = x /\ walk.line = Line(r, StartByte(Min(there))) /\ x # 0
    BY <1>12, <1>13
  <2>2. QED BY <1>3, <1>4, <1>10, <2>1
<1>14. QED BY <1>3, <1>4, <1>11, <1>13

LEMMA DepthFollows == IInv /\ Evaluated => DepthExact
<1> SUFFICES ASSUME IInv, Evaluated, step = "done", NEW r \in AnalysedRegions,
                    NEW c \in Callables(r), \A n \in Own(r, c) : ~Braceless(r, n)
             PROVE  LET deepest == Max({0} \cup {Depth(r, c, n) : n \in Own(r, c)})
                        there == {n \in Own(r, c) : Level(r, n) /\ Depth(r, c, n) = deepest}
                    IN  \E f \in FindingsFor("nesting", r, c) :
                          /\ f.measured = deepest
                          /\ f.line = IF deepest = 0 THEN 0 ELSE Line(r, StartByte(Min(there)))
  BY DEF DepthExact
<1>1. IsRegion(r) /\ Grammatical(r) /\ Key(r, c) \in Batch("callables")
  BY RegionsTyped, CallablesInBatch
<1> DEFINE f == Evaluate("nesting", Key(r, c))
           walk == MaximumDepth(ControlsOf(r, c))
<1>2. f \in findings["nesting"]
  BY <1>1 DEF Evaluated, Guards
<1>3. f.callable = Key(r, c) /\ f.measured = walk.maximum /\ f.line = walk.line
  BY ChargedAre DEF Evaluate, Measured, DeepestLine
<1>4. f \in FindingsFor("nesting", r, c)
  BY <1>2, <1>3 DEF FindingsFor
<1> HIDE DEF f, walk
<1>5. QED BY <1>1, <1>3, <1>4, WalkIsExact DEF walk

\* The depth a callable is charged is the largest number of its own controls
\* around one point, and the line reported that of the first so deep, whatever
\* the callables, regions and files around it (docs/analyzer-feasibility.md,
\* _structural_facts() of analysis/adapters.py, _maximum_depth() of
\* guards/nesting.py).
THEOREM DepthIsExact == Spec => []DepthExact
<1>1. Init => Evaluated
  BY DEF Init, Evaluated
<1>2. QED BY InitInv, NextInv, <1>1, EvaluatedInv, DepthFollows, PTL DEF Spec

---------------------------------------------------------------------------
(* The labels of a switch                                                  *)

\* Ascending() lists the elements of a set in their order.
LEMMA AscendingIs ==
    ASSUME NEW S, S \subseteq Nat, IsFiniteSet(S)
    PROVE  LET L == Ascending(S)
           IN  /\ L \in Seq(S) /\ Len(L) \in Nat /\ DOMAIN L = 1..Len(L)
               /\ \A i \in 1..Len(L) : L[i] \in S
               /\ \A n \in S : \E i \in 1..Len(L) : L[i] = n
               /\ \A i, j \in 1..Len(L) : i < j => L[i] < L[j]
<1> DEFINE upTo(n) == {m \in S : m <= n}
           rank == [n \in S |-> Cardinality(upTo(n))]
<1>1. PICK N \in Nat : N = Cardinality(S)
  BY FS_CardinalityType
<1>2. ASSUME NEW n
      PROVE  IsFiniteSet(upTo(n)) /\ Cardinality(upTo(n)) \in Nat /\ Cardinality(upTo(n)) <= N
  <2>1. upTo(n) \in SUBSET S
    OBVIOUS
  <2> HIDE DEF upTo
  <2>2. QED BY <1>1, <2>1, FS_Subset, FS_CardinalityType
<1>3. ASSUME NEW n \in S, NEW k \in S, n < k
      PROVE  rank[n] < rank[k]
  <2>1. n \in Nat /\ k \in Nat
    OBVIOUS
  <2>2. upTo(n) \in SUBSET upTo(k) /\ k \in upTo(k) /\ k \notin upTo(n)
    <3>1. \A m \in S : m \in Nat
      OBVIOUS
    <3>2. \A m \in S : m <= n => m <= k
      BY <1>3, <2>1, <3>1
    <3>3. k <= k /\ ~(k <= n)
      BY <1>3, <2>1
    <3>4. QED BY <3>2, <3>3
  <2>3. rank[n] = Cardinality(upTo(n)) /\ rank[k] = Cardinality(upTo(k))
    OBVIOUS
  <2> HIDE DEF upTo, rank
  <2>4. Cardinality(upTo(n)) <= Cardinality(upTo(k)) /\ Cardinality(upTo(n)) # Cardinality(upTo(k))
    BY <1>2, <2>2, FS_Subset
  <2>5. PICK x \in Nat, y \in Nat : x = Cardinality(upTo(n)) /\ y = Cardinality(upTo(k))
    BY <1>2
  <2>6. QED BY <2>3, <2>4, <2>5
<1>4. ASSUME NEW n \in S
      PROVE  rank[n] \in 1..N
  <2>1. n \in upTo(n) /\ rank[n] = Cardinality(upTo(n))
    OBVIOUS
  <2> HIDE DEF upTo, rank
  <2>2. PICK x \in Nat : x = Cardinality(upTo(n)) /\ x <= N
    BY <1>2
  <2>3. x # 0
    BY <1>2, <2>1, <2>2, FS_EmptySet
  <2>4. QED BY <2>1, <2>2, <2>3
<1>5. ASSUME NEW n \in S, NEW k \in S, rank[n] = rank[k]
      PROVE  n = k
  <2>1. ~(n < k) /\ ~(k < n)
    <3>1. rank[n] \in Nat /\ rank[k] \in Nat
      BY <1>4
    <3> HIDE DEF rank
    <3>2. QED BY <1>3, <1>5, <3>1
  <2>2. n \in Nat /\ k \in Nat
    OBVIOUS
  <2>3. QED BY <2>1, <2>2
<1>6. ASSUME NEW i \in 1..N
      PROVE  \E n \in S : rank[n] = i
  <2>1. rank \in Injection(S, 1..N)
    <3>1. rank \in [S -> 1..N]
      BY <1>4
    <3> HIDE DEF rank
    <3>2. QED BY <1>5, <3>1 DEF Injection, IsInjective
  <2>2. IsFiniteSet(1..N) /\ Cardinality(1..N) = N
    BY FS_Interval
  <2>3. rank \in Surjection(S, 1..N)
    BY <1>1, <2>1, <2>2, FS_Injection
  <2>4. QED BY <2>3 DEF Surjection
<1> DEFINE L == Ascending(S)
<1>7. DOMAIN L = 1..N /\ \A i \in 1..N : L[i] = CHOOSE n \in S : rank[n] = i
  BY <1>1 DEF Ascending
<1> HIDE DEF rank, L, upTo
<1>8. \A i \in 1..N : L[i] \in S /\ rank[L[i]] = i
  BY <1>6, <1>7
<1>9. L \in Seq(S) /\ Len(L) = N
  <2>1. L = [i \in 1..N |-> L[i]]
    BY <1>1 DEF L, Ascending
  <2>2. L \in [1..N -> S]
    BY <1>8, <2>1
  <2>3. L \in Seq(S)
    BY <1>1, <2>2, SeqDef
  <2>4. Len(L) \in Nat /\ DOMAIN L = 1..Len(L)
    BY <2>3
  <2>5. 1..Len(L) = 1..N
    BY <1>7, <2>4
  <2>6. Len(L) = N
    <3>1. PICK k \in Nat : k = Len(L)
      BY <2>4
    <3>2. 1..k = 1..N
      BY <2>5, <3>1
    <3>3. k = N
      BY <3>2
    <3>4. QED BY <3>1, <3>3
  <2>7. QED BY <2>3, <2>6
<1>10. \A n \in S : \E i \in 1..N : L[i] = n
  BY <1>4, <1>5, <1>8
<1>11. ASSUME NEW i \in 1..N, NEW j \in 1..N, i < j
       PROVE  L[i] < L[j]
  <2>1. L[i] \in S /\ L[j] \in S /\ rank[L[i]] = i /\ rank[L[j]] = j
    BY <1>8
  <2>2. L[i] # L[j] /\ ~(L[j] < L[i])
    <3>1. \A n \in S, k \in S : n < k => rank[n] < rank[k]
      BY <1>3
    <3>2. rank[L[j]] < rank[L[i]] => FALSE
      BY <1>11, <2>1
    <3>3. L[i] # L[j]
      BY <1>11, <2>1
    <3>4. QED BY <2>1, <3>1, <3>2, <3>3
  <2>3. L[i] \in Nat /\ L[j] \in Nat
    BY <2>1
  <2>4. QED BY <2>2, <2>3
<1>12. QED BY <1>7, <1>8, <1>9, <1>10, <1>11 DEF L

\* The child through which a node is reached from above
LEMMA ChildOnPath ==
    ASSUME NEW r, IsRegion(r), NEW m \in Nodes(r), NEW a \in Ancestors(r, m)
    PROVE  \E g \in Nodes(r) :
              /\ g \in Children(r, a)
              /\ g = m \/ g \in Ancestors(r, m)
              /\ a < g /\ g <= m
<1>1. /\ Nodes(r) \subseteq Nat /\ m \in Nat /\ a \in Nodes(r) /\ a < m
      /\ \A x \in Ancestors(r, m) : x \in Nodes(r) /\ x < m
  <2>1. Nodes(r) = 1..Len(r.tree) /\ Len(r.tree) \in Nat /\ Ancestors(r, m) \subseteq 1..m - 1
    BY TreeFacts, AncestorsBefore DEF IsRegion, Nodes
  <2>2. QED BY <2>1
<1> DEFINE S == {x \in {m} \cup Ancestors(r, m) : a < x}
<1>2. PICK g \in S : \A x \in S : g <= x
  <2>1. S \subseteq Nat /\ m \in S
    BY <1>1
  <2> HIDE DEF S
  <2>2. QED BY <2>1, Least
<1>3. /\ g \in {m} \cup Ancestors(r, m) /\ a < g /\ g <= m /\ g \in Nodes(r)
  BY <1>1, <1>2
<1>4. a \in Ancestors(r, g) /\ Ancestors(r, g) \subseteq Ancestors(r, m)
  <2>1. a \in Ancestors(r, g)
    BY <1>1, <1>3, Contiguous
  <2>2. QED BY <1>3, <2>1, AncestorsBefore
<1>5. Parent(r, g) = a
  <2>1. PICK p : p = Parent(r, g)
    OBVIOUS
  <2>2. /\ p = 0 \/ p \in Nodes(r)
        /\ Ancestors(r, g) = IF p = 0 THEN {} ELSE {p} \cup Ancestors(r, p)
    BY <1>3, <2>1, AncestorStep
  <2>3. SUFFICES ASSUME p # a PROVE FALSE
    BY <2>1
  <2>4. p \in Nodes(r) /\ a \in Ancestors(r, p) /\ p \in Ancestors(r, g)
    BY <1>4, <2>2, <2>3
  <2>5. a < p /\ p < g
    <3>1. Ancestors(r, p) \subseteq 1..p - 1 /\ Ancestors(r, g) \subseteq 1..g - 1
      BY <1>3, <2>4, AncestorsBefore
    <3>2. p \in Nat /\ g \in Nat
      BY <1>1, <1>3, <2>4
    <3>3. QED BY <2>4, <3>1, <3>2
  <2>6. p \in S
    BY <1>4, <2>4, <2>5
  <2>7. p \in Nat /\ g \in Nat /\ g <= p
    BY <1>1, <1>2, <1>3, <2>4, <2>6
  <2>8. QED BY <2>5, <2>7
<1>6. QED BY <1>3, <1>5 DEF Children

LEMMA ClausesAre ==
    ASSUME NEW r, IsRegion(r), NEW n \in Nodes(r)
    PROVE  LET L == Clauses(r, n)
           IN  /\ Len(L) \in Nat /\ DOMAIN L = 1..Len(L)
               /\ \A i, j \in 1..Len(L) : i < j => L[i] < L[j]
               /\ \A i \in 1..Len(L) :
                     /\ L[i] \in Nodes(r) /\ Type(r, L[i]) = "clause" /\ n \in Ancestors(r, L[i])
                     /\ IF r.language = "cpp" THEN Nearest(r, L[i], {"switch"}) = n
                                              ELSE Parent(r, L[i]) = n
               /\ r.language = "cpp" =>
                     \A m \in Descendants(r, n) :
                        Type(r, m) = "clause" /\ Nearest(r, m, {"switch"}) = n =>
                           \E i \in 1..Len(L) : L[i] = m
<1> DEFINE own == IF r.language = "cpp"
                  THEN {m \in Descendants(r, n) : Nearest(r, m, {"switch"}) = n}
                  ELSE Children(r, n)
           S == {m \in own : Type(r, m) = "clause"}
<1>1. Nodes(r) = 1..Len(r.tree) /\ Len(r.tree) \in Nat
  BY TreeFacts DEF IsRegion, Nodes
<1>2. \A m \in own : /\ m \in Nodes(r) /\ n \in Ancestors(r, m)
                     /\ IF r.language = "cpp" THEN Nearest(r, m, {"switch"}) = n
                                              ELSE Parent(r, m) = n
  <2>1. CASE r.language = "cpp"
    BY <2>1 DEF Descendants
  <2>2. CASE r.language # "cpp"
    <3>1. \A m \in own : m \in Nodes(r) /\ Parent(r, m) = n /\ n # 0
      BY <1>1, <2>2 DEF Children
    <3> HIDE DEF own
    <3>2. QED BY <2>2, <3>1, AncestorsBefore
  <2>3. QED BY <2>1, <2>2
<1>3. S \subseteq Nat /\ IsFiniteSet(S)
  <2>1. S \in SUBSET (1..Len(r.tree))
    BY <1>1, <1>2
  <2>2. IsFiniteSet(1..Len(r.tree))
    BY <1>1, FS_Interval
  <2> HIDE DEF S
  <2>3. S \subseteq Nat
    BY <1>1, <2>1
  <2>4. QED BY <2>1, <2>2, <2>3, FS_Subset
<1>4. Clauses(r, n) = Ascending(S)
  BY DEF Clauses
<1>5. r.language = "cpp" =>
         \A m \in Descendants(r, n) :
            Type(r, m) = "clause" /\ Nearest(r, m, {"switch"}) = n => m \in S
  OBVIOUS
<1>6. \A m \in S : m \in own /\ Type(r, m) = "clause"
  OBVIOUS
<1> HIDE DEF S, own
<1>7. PICK L : L = Ascending(S)
  OBVIOUS
<1>8. /\ Len(L) \in Nat /\ DOMAIN L = 1..Len(L)
      /\ \A i \in 1..Len(L) : L[i] \in S
      /\ \A m \in S : \E i \in 1..Len(L) : L[i] = m
      /\ \A i, j \in 1..Len(L) : i < j => L[i] < L[j]
  BY <1>3, <1>7, AscendingIs
<1>9. QED BY <1>2, <1>4, <1>5, <1>6, <1>7, <1>8

\* Nothing is under a comment among what a label heads.
LEMMA CommentsAreLeaves ==
    ASSUME NEW r, IsRegion(r), Grammatical(r), NEW q \in Nodes(r), Type(r, q) = "clause",
           NEW g \in Nodes(r), Type(r, g) = "comment", q \in Ancestors(r, g),
           NEW m \in Nodes(r)
    PROVE  g \notin Ancestors(r, m)
<1> SUFFICES ASSUME g \in Ancestors(r, m) PROVE FALSE
  OBVIOUS
<1>1. PICK x \in Nodes(r) : x \in Children(r, g)
  BY ChildOnPath
<1>2. Parent(r, x) = g /\ g # 0 /\ q # 0 /\ q \in Nat
  BY <1>1, TreeFacts DEF IsRegion, Nodes, Children
<1>3. Nearest(r, x, {"clause"}) = 0
  BY <1>2 DEF Grammatical
<1>4. q \in Ancestors(r, x)
  BY <1>2, AncestorsBefore
<1>5. q <= Nearest(r, x, {"clause"})
  BY <1>4, NearestIs
<1>6. QED BY <1>2, <1>3, <1>5

\* What the code counts as a body is something that runs.
LEMMA BodyRuns ==
    ASSUME NEW r, IsRegion(r), Grammatical(r), NEW n \in Nodes(r), Type(r, n) = "switch",
           NEW i \in 1..Len(Clauses(r, n))
    PROVE  LabelHasBody(r, Clauses(r, n), i) <=> Runs(r, Clauses(r, n), i)
<1>1. PICK L : L = Clauses(r, n)
  OBVIOUS
<1>2. PICK N \in Nat : /\ N = Len(L) /\ i \in 1..N
                       /\ \A k, j \in 1..N : k < j => L[k] < L[j]
                       /\ \A k \in 1..N :
                             /\ L[k] \in Nodes(r) /\ Type(r, L[k]) = "clause"
                             /\ n \in Ancestors(r, L[k])
                             /\ r.language = "cpp" => Nearest(r, L[k], {"switch"}) = n
                             /\ r.language # "cpp" => Parent(r, L[k]) = n
                       /\ r.language = "cpp" =>
                             \A m \in Descendants(r, n) :
                                Type(r, m) = "clause" /\ Nearest(r, m, {"switch"}) = n =>
                                   \E k \in 1..N : L[k] = m
  <2>1. Len(L) \in Nat /\ i \in 1..Len(L)
    BY <1>1, ClausesAre
  <2>2. QED BY <1>1, <2>1, ClausesAre
<1>3. PICK q \in Nodes(r) : q = L[i] /\ Type(r, q) = "clause"
  BY <1>2
<1>4. PICK next : next = IF i < N THEN L[i + 1] ELSE 0
  OBVIOUS
<1>5. /\ Nodes(r) \subseteq Nat /\ 0 \notin Nodes(r)
      /\ \A m \in Nodes(r) : /\ LastNode(r, m) \in Nat
                             /\ \A a \in Ancestors(r, m) : a \in Nodes(r) /\ a < m
  <2>1. Nodes(r) = 1..Len(r.tree) /\ Len(r.tree) \in Nat
    BY TreeFacts DEF IsRegion, Nodes
  <2>2. \A m \in Nodes(r) : LastNode(r, m) \in m..Len(r.tree) /\ Ancestors(r, m) \subseteq 1..m - 1
    BY LastNodeFacts, AncestorsBefore
  <2>3. \A m \in Nodes(r) : m \in Nat /\ m <= Len(r.tree)
    BY <2>1
  <2>4. QED BY <2>1, <2>2, <2>3
<1>6. i < N => /\ i + 1 \in 1..N /\ next = L[i + 1] /\ next \in Nodes(r) /\ q < next
               /\ Type(r, next) = "clause"
  <2>1. i < N => i + 1 \in 1..N /\ i < i + 1
    BY <1>2
  <2>2. QED BY <1>2, <1>3, <1>4, <2>1
<1>7. ~(i < N) => next = 0
  BY <1>4
<1> DEFINE items == {m \in Children(r, q) : Type(r, m) # "comment"}
<1>8. ASSUME NEW m \in Nodes(r), q \in Ancestors(r, m)
      PROVE  \E g \in Nodes(r) : /\ g \in Children(r, q) /\ q < g /\ g <= m
                                 /\ g = m \/ g \in Ancestors(r, m)
                                 /\ Type(r, g) # "clause"
                                 /\ Type(r, m) # "comment" => g \in items
  <2>1. PICK g \in Nodes(r) : /\ g \in Children(r, q) /\ q < g /\ g <= m
                              /\ g = m \/ g \in Ancestors(r, m)
    BY <1>8, ChildOnPath
  <2>2. Parent(r, g) = q /\ q # 0
    BY <1>5, <2>1 DEF Children
  <2>3. Type(r, g) # "clause"
    BY <1>3, <2>2 DEF Grammatical
  <2>4. Type(r, g) = "comment" => g = m
    <3>1. q \in Ancestors(r, g)
      BY <2>2, AncestorsBefore
    <3>2. QED BY <1>3, <2>1, <3>1, CommentsAreLeaves
  <2>5. QED BY <2>1, <2>3, <2>4
<1>9. \A x : x \in items => x \in Nodes(r) /\ Parent(r, x) = q /\ Type(r, x) # "comment"
                            /\ Type(r, x) # "clause" /\ q \in Ancestors(r, x)
  <2>1. ASSUME NEW x, x \in items
        PROVE  /\ x \in Nodes(r) /\ Parent(r, x) = q /\ Type(r, x) # "comment"
               /\ Type(r, x) # "clause" /\ q \in Ancestors(r, x)
    <3>1. x \in Nodes(r) /\ Parent(r, x) = q /\ Type(r, x) # "comment" /\ q # 0
      BY <1>5, <2>1 DEF Children
    <3>2. Type(r, x) # "clause"
      BY <1>3, <3>1 DEF Grammatical
    <3>3. q \in Ancestors(r, x)
      BY <3>1, AncestorsBefore
    <3>4. QED BY <3>1, <3>2, <3>3
  <2>2. QED BY <2>1
<1>10. items # {} => /\ Min(items) \in items
                     /\ \A x \in items : Min(items) <= x
  <2>1. items \subseteq Nat
    BY <1>5, <1>9
  <2> HIDE DEF items
  <2>2. QED BY <2>1, Least DEF Min
<1> DEFINE f == Min(items)
<1>11. LabelHasBody(r, L, i) <=>
          /\ items # {}
          /\ (/\ r.language = "cpp" /\ next \in Descendants(r, f)
              /\ Type(r, f) = "block") => ExecutableBefore(r, f, next)
  BY <1>2, <1>3, <1>4 DEF LabelHasBody, ClauseHasBody
<1>12. Runs(r, L, i) <=>
          \E m \in Nodes(r) :
             /\ q \in Ancestors(r, m)
             /\ i < N => m < next
             /\ \/ Type(r, m) \notin {"comment", "clause", "block"}
                \/ /\ Type(r, m) = "block" /\ Parent(r, m) = q
                   /\ i < N => LastNode(r, m) < next
  BY <1>2, <1>3, <1>4 DEF Runs, Descendants
<1> HIDE DEF items, f
<1>13. items # {} => /\ f \in items /\ f \in Nodes(r) /\ f \in Nat /\ LastNode(r, f) \in Nat
                     /\ Parent(r, f) = q /\ q \in Ancestors(r, f) /\ q < f
                     /\ Type(r, f) \notin {"comment", "clause"}
                     /\ \A x \in items : f <= x
  BY <1>5, <1>9, <1>10 DEF f
<1>14. ASSUME LabelHasBody(r, L, i)
       PROVE  Runs(r, L, i)
  <2>1. items # {}
    BY <1>11, <1>14
  <2>2. i < N => f < next
    <3>1. SUFFICES ASSUME i < N PROVE f < next
      OBVIOUS
    <3>2. next \in Nodes(r) /\ next \in Nat /\ q < next /\ Type(r, next) = "clause"
      BY <1>5, <1>6, <3>1
    <3>3. CASE q \in Ancestors(r, next)
      <4>1. PICK g \in Nodes(r) : g \in items /\ g <= next /\ Type(r, g) # "clause"
        BY <1>8, <3>2, <3>3
      <4>2. g \in Nat /\ f <= g /\ g # next
        BY <1>5, <1>13, <2>1, <3>2, <4>1
      <4>3. QED BY <1>13, <2>1, <3>2, <4>1, <4>2
    <3>4. CASE q \notin Ancestors(r, next)
      <4>1. f <= LastNode(r, q) /\ ~(next <= LastNode(r, q))
        BY <1>13, <2>1, <3>2, <3>4, Within
      <4>2. LastNode(r, q) \in Nat
        BY <1>5
      <4>3. QED BY <1>13, <2>1, <3>2, <4>1, <4>2
    <3>5. QED BY <3>3, <3>4
  <2>3. CASE Type(r, f) # "block"
    BY <1>12, <1>13, <2>1, <2>2, <2>3
  <2>4. CASE Type(r, f) = "block" /\ ~(i < N)
    BY <1>12, <1>13, <2>1, <2>4
  <2>5. CASE Type(r, f) = "block" /\ i < N /\ f \notin Ancestors(r, next)
    <3>1. next \in Nodes(r) /\ next \in Nat
      BY <1>5, <1>6, <2>5
    <3>2. ~(next <= LastNode(r, f))
      BY <1>13, <2>1, <2>2, <2>5, <3>1, Within
    <3>3. LastNode(r, f) < next
      BY <1>13, <2>1, <3>1, <3>2
    <3>4. QED BY <1>12, <1>13, <2>1, <2>2, <2>5, <3>3
  <2>6. CASE Type(r, f) = "block" /\ i < N /\ f \in Ancestors(r, next)
    <3>1. next \in Descendants(r, f)
      BY <1>6, <2>6 DEF Descendants
    <3>2. r.language = "cpp"
      <4>1. SUFFICES ASSUME r.language # "cpp" PROVE FALSE
        OBVIOUS
      <4>2. Parent(r, q) = n /\ Parent(r, next) = n
        BY <1>2, <1>3, <1>6, <2>6, <4>1
      <4>3. LastNode(r, q) < next
        BY <1>3, <1>6, <2>6, <4>2, Siblings
      <4>4. q \in Ancestors(r, next)
        <5>1. Ancestors(r, f) \subseteq Ancestors(r, next)
          BY <1>6, <2>6, AncestorsBefore
        <5>2. QED BY <1>13, <2>1, <5>1
      <4>5. next <= LastNode(r, q)
        BY <1>6, <2>6, <4>4, Within
      <4>6. next \in Nat /\ LastNode(r, q) \in Nat
        BY <1>5, <1>6, <2>6
      <4>7. QED BY <4>3, <4>5, <4>6
    <3>3. ExecutableBefore(r, f, next)
      BY <1>11, <1>14, <2>6, <3>1, <3>2
    <3>4. PICK m \in Nodes(r) : /\ f \in Ancestors(r, m) /\ m < next
                                /\ Type(r, m) \notin {"block", "clause", "comment"}
      BY <3>3 DEF ExecutableBefore, Descendants
    <3>5. q \in Ancestors(r, m)
      <4>1. Ancestors(r, f) \subseteq Ancestors(r, m)
        BY <3>4, AncestorsBefore
      <4>2. QED BY <1>13, <2>1, <4>1
    <3>6. QED BY <1>12, <2>6, <3>4, <3>5
  <2>7. QED BY <2>3, <2>4, <2>5, <2>6
<1>15. ASSUME Runs(r, L, i)
       PROVE  LabelHasBody(r, L, i)
  <2>1. PICK m \in Nodes(r) :
           /\ q \in Ancestors(r, m)
           /\ i < N => m < next
           /\ \/ Type(r, m) \notin {"comment", "clause", "block"}
              \/ /\ Type(r, m) = "block" /\ Parent(r, m) = q
                 /\ i < N => LastNode(r, m) < next
    BY <1>12, <1>15
  <2>2. PICK g \in Nodes(r) : /\ g \in items /\ q < g /\ g <= m
                              /\ g = m \/ g \in Ancestors(r, m)
    BY <1>8, <2>1
  <2>3. items # {} /\ f <= g /\ g \in Nat /\ m \in Nat
    BY <1>5, <1>13, <2>2
  <2>4. SUFFICES ASSUME r.language = "cpp", next \in Descendants(r, f), Type(r, f) = "block"
                 PROVE  ExecutableBefore(r, f, next)
    BY <1>11, <2>3
  <2>5. next \in Nodes(r) /\ f \in Ancestors(r, next) /\ next \in Nat
    BY <1>5, <2>4 DEF Descendants
  <2>6. i < N /\ next = L[i + 1] /\ i + 1 \in 1..N
    BY <1>5, <1>6, <1>7, <2>5
  <2>7. next <= LastNode(r, f) /\ m < next
    BY <1>13, <2>1, <2>3, <2>5, <2>6, Within
  <2>8. g = f
    <3>1. SUFFICES ASSUME f < g PROVE FALSE
      BY <1>13, <2>3
    <3>2. Parent(r, f) = q /\ Parent(r, g) = q
      BY <1>9, <1>13, <2>2, <2>3
    <3>3. LastNode(r, f) < g
      BY <1>13, <2>3, <3>1, <3>2, Siblings
    <3>4. QED BY <1>13, <2>2, <2>3, <2>5, <2>7, <3>3
  <2>9. m # f
    <3>1. SUFFICES ASSUME m = f PROVE FALSE
      OBVIOUS
    <3>2. LastNode(r, f) < next
      BY <2>1, <2>4, <2>6, <3>1
    <3>3. QED BY <1>13, <2>3, <2>5, <2>7, <3>2
  <2>10. f \in Ancestors(r, m)
    BY <2>2, <2>8, <2>9
  <2>11. Type(r, m) \notin {"comment", "clause", "block"}
    <3>1. SUFFICES ASSUME Parent(r, m) = q PROVE FALSE
      BY <2>1
    <3>2. Ancestors(r, m) = {q} \cup Ancestors(r, q)
      BY <1>5, <3>1, AncestorStep
    <3>3. f \in {q} \cup Ancestors(r, q) /\ q < f /\ q \in Nat /\ f \in Nat
      BY <1>5, <1>13, <2>3, <2>10, <3>2
    <3>4. \A a \in Ancestors(r, q) : a < q /\ a \in Nat
      BY <1>5
    <3>5. QED BY <3>3, <3>4
  \* The outermost node there that is no block
  <2> DEFINE T == {x \in {m} \cup Ancestors(r, m) : f < x /\ Type(r, x) # "block"}
  <2>12. PICK y \in T : \A x \in T : y <= x
    <3>1. T \subseteq Nat /\ m \in T
      <4>1. \A x \in {m} \cup Ancestors(r, m) : x \in Nat
        BY <1>5, <2>3
      <4>2. f < m
        BY <1>5, <2>10
      <4>3. QED BY <2>11, <4>1, <4>2
    <3> HIDE DEF T
    <3>2. QED BY <3>1, Least
  <2>13. /\ y \in {m} \cup Ancestors(r, m) /\ y \in Nodes(r) /\ y \in Nat /\ f < y /\ y <= m
         /\ Type(r, y) # "block" /\ f \in Ancestors(r, y) /\ y < next
    <3>1. y \in {m} \cup Ancestors(r, m) /\ f < y /\ Type(r, y) # "block"
      BY <2>12
    <3>2. y \in Nodes(r) /\ y \in Nat /\ y <= m
      BY <1>5, <2>3, <3>1
    <3>3. f \in Ancestors(r, y)
      BY <1>13, <2>3, <2>10, <3>1, <3>2, Contiguous
    <3>4. y < next
      BY <2>3, <2>5, <2>7, <3>2
    <3>5. QED BY <3>1, <3>2, <3>3, <3>4
  <2>14. Ancestors(r, y) \subseteq Ancestors(r, m) \cup {m} /\ q \in Ancestors(r, y)
         /\ Ancestors(r, f) \subseteq Ancestors(r, y)
    <3>1. Ancestors(r, y) \subseteq Ancestors(r, m) \cup {m}
      BY <2>13, AncestorsBefore
    <3>2. Ancestors(r, f) \subseteq Ancestors(r, y)
      BY <2>13, AncestorsBefore
    <3>3. QED BY <1>13, <2>3, <3>1, <3>2
  <2>15. ASSUME NEW a \in Ancestors(r, y), f < a
         PROVE  Type(r, a) = "block"
    <3>1. a < y /\ a \in Nat
      BY <1>5, <2>13
    <3>2. a \notin T
      <4> HIDE DEF T
      <4>1. QED BY <2>12, <2>13, <3>1
    <3>3. QED BY <2>14, <2>15, <3>2
  <2>16. \A a \in Ancestors(r, y) : a = f \/ f < a \/ a \in Ancestors(r, f)
    <3>1. SUFFICES ASSUME NEW a \in Ancestors(r, y), a < f PROVE a \in Ancestors(r, f)
      BY <1>5, <1>13, <2>3, <2>13
    <3>2. a \in Nodes(r) /\ f \in Nodes(r) /\ f <= y
      BY <1>5, <1>13, <2>3, <2>13
    <3>3. QED BY <2>13, <3>1, <3>2, Contiguous
  <2>17. Type(r, y) # "comment"
    <3>1. SUFFICES ASSUME Type(r, y) = "comment" PROVE FALSE
      OBVIOUS
    <3>2. y \in Ancestors(r, m)
      BY <2>11, <2>13, <3>1
    <3>3. QED BY <1>3, <2>13, <2>14, <3>1, <3>2, CommentsAreLeaves
  <2>18. Type(r, y) # "clause"
    <3>1. SUFFICES ASSUME Type(r, y) = "clause" PROVE FALSE
      OBVIOUS
    <3>2. Ancestors(r, f) = {q} \cup Ancestors(r, q)
      BY <1>5, <1>13, <2>3, AncestorStep
    <3>3. /\ Nearest(r, q, {"switch"}) = n /\ n \in Ancestors(r, q)
      BY <1>2, <1>3, <2>4
    <3>4. n \in Ancestors(r, y)
      BY <2>14, <3>2, <3>3
    <3>5. \A a \in Ancestors(r, y) : Type(r, a) = "switch" => a <= n
      <4>1. SUFFICES ASSUME NEW a \in Ancestors(r, y), Type(r, a) = "switch" PROVE a <= n
        OBVIOUS
      <4>2. a \in Ancestors(r, f)
        BY <2>4, <2>15, <2>16, <4>1
      <4>3. a \in Ancestors(r, q)
        BY <1>3, <3>2, <4>1, <4>2
      <4>4. QED BY <3>3, <4>1, <4>3, NearestIs
    <3>6. Nearest(r, y, {"switch"}) = n
      <4>1. PICK z : z = Nearest(r, y, {"switch"})
        OBVIOUS
      <4>2. /\ z = 0 \/ (z \in Ancestors(r, y) /\ Type(r, z) = "switch")
            /\ n <= z
        BY <2>13, <3>4, <4>1, NearestIs
      <4>3. z = 0 \/ (z \in Nat /\ z <= n)
        BY <1>5, <2>13, <3>5, <4>2
      <4>4. n \in Nat /\ n # 0
        BY <1>5
      <4>5. QED BY <4>1, <4>2, <4>3, <4>4
    <3>7. PICK k \in 1..N : L[k] = y
      BY <1>2, <2>4, <2>13, <3>1, <3>4, <3>6 DEF Descendants
    <3>8. L[i] < L[k] /\ L[k] < L[i + 1]
      BY <1>3, <1>5, <1>13, <2>3, <2>6, <2>13, <3>7, SMTT(30)
    <3>9. ~(k < i) /\ k # i /\ ~(i + 1 < k) /\ k # i + 1
      <4>1. L[i] \in Nat /\ L[k] \in Nat /\ L[i + 1] \in Nat
        BY <1>2, <1>5, <2>6
      <4>2. QED BY <1>2, <2>6, <3>8, <4>1
    <3>10. QED BY <1>2, <3>9
  <2> HIDE DEF T
  <2>19. QED BY <2>13, <2>15, <2>16, <2>17, <2>18, <2>4 DEF ExecutableBefore, Descendants
<1>16. QED BY <1>1, <1>14, <1>15

\* The labels other than default that lead to the body of a label, if it has
\* one, and those that still wait for one after it
Leads(r, L, i) == {j \in 1..i : ~IsDefaultBranch(r, L[j]) /\ \A k \in j..i - 1 : ~LabelHasBody(r, L, k)}
Waiting(r, L, i) == {j \in 1..i : ~IsDefaultBranch(r, L[j]) /\ \A k \in j..i : ~LabelHasBody(r, L, k)}
Led(r, L, i) == {b \in 1..i : LabelHasBody(r, L, b) /\ Leads(r, L, b) # {}}

LEMMA LeadsStep ==
    ASSUME NEW r, NEW L, NEW i \in Nat
    PROVE  /\ Waiting(r, L, i) \subseteq 1..i
           /\ Leads(r, L, i + 1) = Waiting(r, L, i) \cup (IF IsDefaultBranch(r, L[i + 1]) THEN {} ELSE {i + 1})
           /\ Waiting(r, L, i + 1) = IF LabelHasBody(r, L, i + 1) THEN {} ELSE Leads(r, L, i + 1)
           /\ Led(r, L, i + 1) = Led(r, L, i) \cup
                 (IF LabelHasBody(r, L, i + 1) /\ Leads(r, L, i + 1) # {} THEN {i + 1} ELSE {})
<1>1. /\ 1..i + 1 = 1..i \cup {i + 1} /\ i + 1 \notin 1..i
      /\ i + 1 - 1 = i /\ (i + 1)..i = {}
      /\ \A j \in 1..i : j..i + 1 = j..i \cup {i + 1}
  OBVIOUS
<1>2. Waiting(r, L, i) \subseteq 1..i
  BY DEF Waiting
<1>3. Leads(r, L, i + 1) = Waiting(r, L, i) \cup (IF IsDefaultBranch(r, L[i + 1]) THEN {} ELSE {i + 1})
  BY <1>1 DEF Leads, Waiting
<1>4. Waiting(r, L, i + 1) = IF LabelHasBody(r, L, i + 1) THEN {} ELSE Leads(r, L, i + 1)
  <2>1. \A j \in 1..i + 1 : (\A k \in j..i + 1 : ~LabelHasBody(r, L, k)) <=>
                               ~LabelHasBody(r, L, i + 1) /\ \A k \in j..i : ~LabelHasBody(r, L, k)
    <3>1. \A j \in 1..i + 1 : j..i + 1 = j..i \cup {i + 1}
      BY <1>1
    <3>2. QED BY <3>1
  <2>2. QED BY <1>1, <2>1 DEF Leads, Waiting
<1>5. Led(r, L, i + 1) = Led(r, L, i) \cup
         (IF LabelHasBody(r, L, i + 1) /\ Leads(r, L, i + 1) # {} THEN {i + 1} ELSE {})
  BY <1>1 DEF Led
<1>6. QED BY <1>2, <1>3, <1>4, <1>5

\* The label an arm is charged at
FirstLead(r, L, i) == Min(Leads(r, L, i))

LEMMA FirstLeadIs ==
    ASSUME NEW r, NEW L, NEW i \in Nat
    PROVE  /\ Leads(r, L, i + 1) # {} =>
                 /\ FirstLead(r, L, i + 1) \in Leads(r, L, i + 1)
                 /\ \A j \in Leads(r, L, i + 1) : FirstLead(r, L, i + 1) <= j
           /\ Waiting(r, L, i) # {} => FirstLead(r, L, i + 1) = Min(Waiting(r, L, i))
           /\ Waiting(r, L, i) = {} /\ ~IsDefaultBranch(r, L[i + 1]) => FirstLead(r, L, i + 1) = i + 1
           /\ Waiting(r, L, i) # {} => Min(Waiting(r, L, i)) \in Waiting(r, L, i)
<1> DEFINE W == Waiting(r, L, i)
           S == Leads(r, L, i + 1)
<1>1. /\ W \subseteq 1..i /\ S = W \cup (IF IsDefaultBranch(r, L[i + 1]) THEN {} ELSE {i + 1})
      /\ W \subseteq Nat /\ S \subseteq Nat
  <2>1. W \subseteq 1..i /\ S = W \cup (IF IsDefaultBranch(r, L[i + 1]) THEN {} ELSE {i + 1})
    BY LeadsStep
  <2> HIDE DEF W, S
  <2>2. W \subseteq Nat
    BY <2>1
  <2>3. QED BY <2>1, <2>2
<1> HIDE DEF W, S
<1>2. S # {} => Min(S) \in S /\ \A j \in S : Min(S) <= j
  BY <1>1, Least DEF Min
<1>3. W # {} => Min(W) \in W /\ \A j \in W : Min(W) <= j
  BY <1>1, Least DEF Min
<1>4. ASSUME W # {}
      PROVE  Min(S) = Min(W)
  <2>1. PICK a \in W : a = Min(W) /\ \A j \in W : a <= j
    BY <1>3, <1>4
  <2>2. PICK b \in S : b = Min(S) /\ \A j \in S : b <= j
    BY <1>1, <1>2, <1>4
  <2>3. b <= a /\ a \in 1..i /\ b \in Nat
    BY <1>1, <2>1, <2>2
  <2>4. b # i + 1
    BY <2>3
  <2>5. b \in W
    BY <1>1, <2>2, <2>4
  <2>6. a <= b
    BY <2>1, <2>5
  <2>7. QED BY <2>1, <2>2, <2>3, <2>6
<1>5. W = {} /\ ~IsDefaultBranch(r, L[i + 1]) => Min(S) = i + 1
  BY <1>1, <1>2
<1>6. QED BY <1>2, <1>3, <1>4, <1>5 DEF W, S, FirstLead

NoArms == [pending |-> 0, arms |-> {}]
Relabels(r, L, k, g) == g = [i \in 0..k |-> IF i = 0 THEN NoArms ELSE NextLabel(r, L, i, g[i - 1])]

LEMMA RelabelsExist ==
    ASSUME NEW r, NEW L, NEW n \in Nat, NEW k \in 0..n
    PROVE  \E g : Relabels(r, L, k, g)
<1> DEFINE bad == {j \in 0..n : ~\E g : Relabels(r, L, j, g)}
<1>1. ASSUME bad # {}
      PROVE  FALSE
  <2>1. PICK m \in bad : \A y \in bad : m <= y
    <3>1. bad \subseteq Nat
      OBVIOUS
    <3> HIDE DEF bad
    <3>2. QED BY <1>1, <3>1, Least
  <2>2. m \in 0..n /\ ~\E g : Relabels(r, L, m, g)
    BY <2>1
  <2>3. m # 0
    <3>1. Relabels(r, L, 0, [i \in 0..0 |-> NoArms])
      BY DEF Relabels
    <3>2. QED BY <2>2, <3>1
  <2>4. PICK j \in 0..n : m = j + 1
    BY <2>2, <2>3
  <2>5. PICK g : Relabels(r, L, j, g)
    <3>1. j \notin bad
      BY <2>1, <2>4
    <3>2. QED BY <3>1
  <2> DEFINE h == [i \in 0..m |-> IF i = m THEN NextLabel(r, L, m, g[j]) ELSE g[i]]
  <2>6. ASSUME NEW i \in 0..m
        PROVE  h[i] = IF i = 0 THEN NoArms ELSE NextLabel(r, L, i, h[i - 1])
    <3>1. CASE i = m
      <4>1. h[i] = NextLabel(r, L, i, g[j]) /\ i # 0 /\ i - 1 = j /\ h[j] = g[j]
        BY <2>2, <2>3, <2>4, <3>1
      <4> HIDE DEF h
      <4>2. QED BY <4>1
    <3>2. CASE i # m
      <4>1. i \in 0..j /\ h[i] = g[i]
        BY <2>4, <3>2
      <4>2. g[i] = IF i = 0 THEN NoArms ELSE NextLabel(r, L, i, g[i - 1])
        BY <2>5, <4>1 DEF Relabels
      <4>3. i # 0 => h[i - 1] = g[i - 1]
        BY <2>4, <4>1
      <4> HIDE DEF h
      <4>4. QED BY <4>1, <4>2, <4>3
    <3>3. QED BY <3>1, <3>2
  <2>7. h = [i \in 0..m |-> h[i]]
    OBVIOUS
  <2>8. Relabels(r, L, m, h)
    <3> HIDE DEF h
    <3>1. QED BY <2>6, <2>7 DEF Relabels
  <2>9. QED BY <2>2, <2>8
<1>2. QED BY <1>1

\* What has been found when the labels up to i have been looked at
Relabelled(r, L, i, acc) ==
    acc = [pending |-> IF Waiting(r, L, i) = {} THEN 0 ELSE L[Min(Waiting(r, L, i))],
           arms |-> {L[FirstLead(r, L, b)] : b \in Led(r, L, i)}]

LEMMA RelabelStep ==
    ASSUME NEW r, NEW L, NEW i \in Nat, NEW acc, Relabelled(r, L, i, acc),
           \A j \in 1..i : L[j] # 0
    PROVE  Relabelled(r, L, i + 1, NextLabel(r, L, i + 1, acc))
<1> DEFINE W == Waiting(r, L, i)
           S == Leads(r, L, i + 1)
           p == IF W = {} THEN 0 ELSE L[Min(W)]
           A == {L[FirstLead(r, L, b)] : b \in Led(r, L, i)}
           new == NextLabel(r, L, i + 1, acc)
<1>1. acc = [pending |-> p, arms |-> A]
  BY DEF Relabelled
<1>2. /\ S = W \cup (IF IsDefaultBranch(r, L[i + 1]) THEN {} ELSE {i + 1})
      /\ Waiting(r, L, i + 1) = IF LabelHasBody(r, L, i + 1) THEN {} ELSE S
      /\ Led(r, L, i + 1) = Led(r, L, i) \cup
            (IF LabelHasBody(r, L, i + 1) /\ S # {} THEN {i + 1} ELSE {})
      /\ W \subseteq 1..i
  BY LeadsStep
<1>3. /\ W # {} => Min(S) = Min(W) /\ FirstLead(r, L, i + 1) = Min(W) /\ Min(W) \in W
      /\ W = {} /\ ~IsDefaultBranch(r, L[i + 1]) => Min(S) = i + 1 /\ FirstLead(r, L, i + 1) = i + 1
  BY FirstLeadIs DEF FirstLead
<1>4. (p = 0 <=> W = {}) /\ (W # {} => p = L[Min(W)])
  BY <1>2, <1>3
<1>5. {L[FirstLead(r, L, b)] : b \in Led(r, L, i + 1)} =
         A \cup (IF LabelHasBody(r, L, i + 1) /\ S # {} THEN {L[FirstLead(r, L, i + 1)]} ELSE {})
  BY <1>2
<1> HIDE DEF W, S, p, A
<1>6. CASE ~LabelHasBody(r, L, i + 1)
  <2>1. new = [acc EXCEPT !.pending = IF ~IsDefaultBranch(r, L[i + 1]) /\ @ = 0 THEN L[i + 1] ELSE @]
    BY <1>6 DEF NextLabel
  <2>2. new = [pending |-> IF ~IsDefaultBranch(r, L[i + 1]) /\ p = 0 THEN L[i + 1] ELSE p, arms |-> A]
    BY <1>1, <2>1
  <2>3. (IF ~IsDefaultBranch(r, L[i + 1]) /\ p = 0 THEN L[i + 1] ELSE p) =
           IF S = {} THEN 0 ELSE L[Min(S)]
    <3>1. CASE W # {}
      BY <1>2, <1>3, <1>4, <3>1
    <3>2. CASE W = {} /\ ~IsDefaultBranch(r, L[i + 1])
      BY <1>2, <1>3, <1>4, <3>2
    <3>3. CASE W = {} /\ IsDefaultBranch(r, L[i + 1])
      BY <1>2, <1>4, <3>3
    <3>4. QED BY <3>1, <3>2, <3>3
  <2>4. {L[FirstLead(r, L, b)] : b \in Led(r, L, i + 1)} = A
    BY <1>5, <1>6
  <2>5. Waiting(r, L, i + 1) = S
    BY <1>2, <1>6
  <2>6. QED BY <2>2, <2>3, <2>4, <2>5 DEF Relabelled
<1>7. CASE LabelHasBody(r, L, i + 1)
  <2>1. new = [pending |-> 0,
               arms |-> A \cup (IF p # 0 THEN {p}
                                ELSE IF ~IsDefaultBranch(r, L[i + 1]) THEN {L[i + 1]} ELSE {})]
    BY <1>1, <1>7 DEF NextLabel
  <2>2. (IF p # 0 THEN {p} ELSE IF ~IsDefaultBranch(r, L[i + 1]) THEN {L[i + 1]} ELSE {}) =
           IF S # {} THEN {L[FirstLead(r, L, i + 1)]} ELSE {}
    <3>1. CASE W # {}
      BY <1>2, <1>3, <1>4, <3>1
    <3>2. CASE W = {} /\ ~IsDefaultBranch(r, L[i + 1])
      BY <1>2, <1>3, <1>4, <3>2
    <3>3. CASE W = {} /\ IsDefaultBranch(r, L[i + 1])
      BY <1>2, <1>4, <3>3
    <3>4. QED BY <3>1, <3>2, <3>3
  <2>3. Waiting(r, L, i + 1) = {}
    BY <1>2, <1>7
  <2>4. QED BY <1>5, <1>7, <2>1, <2>2, <2>3 DEF Relabelled
<1>8. QED BY <1>6, <1>7

\* The arms of a switch are the first labels, other than default, that lead to
\* each of its bodies.
LEMMA ArmsAre ==
    ASSUME NEW r, IsRegion(r), NEW n \in Nodes(r)
    PROVE  LET L == Clauses(r, n)
           IN  SwitchArms(r, n) = {L[FirstLead(r, L, b)] : b \in Led(r, L, Len(L))}
<1>1. PICK L : L = Clauses(r, n)
  BY Zenon
<1>2. PICK N \in Nat : /\ N = Len(L) /\ DOMAIN L = 1..N
                       /\ \A i \in 1..N : L[i] # 0
  <2>1. Len(L) \in Nat /\ DOMAIN L = 1..Len(L) /\ \A i \in 1..Len(L) : L[i] \in Nodes(r)
    BY <1>1, ClausesAre
  <2>2. 0 \notin Nodes(r)
    BY TreeFacts DEF IsRegion, Nodes
  <2>3. QED BY <1>1, <2>1, <2>2
<1> DEFINE g == CHOOSE g : g = [i \in 0..Len(L) |->
                    IF i = 0 THEN [pending |-> 0, arms |-> {}] ELSE NextLabel(r, L, i, g[i - 1])]
<1>3. Relabels(r, L, N, g)
  <2>1. N \in 0..N
    BY <1>2
  <2>2. \E h : Relabels(r, L, N, h)
    BY <2>1, RelabelsExist
  <2>3. \A h : Relabels(r, L, N, h) <=>
                h = [i \in 0..Len(L) |-> IF i = 0 THEN [pending |-> 0, arms |-> {}]
                                         ELSE NextLabel(r, L, i, h[i - 1])]
    BY <1>2 DEF Relabels, NoArms
  <2>4. QED BY <2>2, <2>3
<1>4. SwitchArms(r, n) = g[N].arms
  BY <1>1, <1>2 DEF SwitchArms
<1> HIDE DEF g
<1>5. g[0] = NoArms /\ \A i \in 0..N : i # 0 => g[i] = NextLabel(r, L, i, g[i - 1])
  BY <1>2, <1>3 DEF Relabels
<1>6. Relabelled(r, L, 0, g[0])
  <2>1. Waiting(r, L, 0) = {} /\ Led(r, L, 0) = {}
    BY DEF Waiting, Led
  <2>2. {L[FirstLead(r, L, b)] : b \in {}} = {}
    OBVIOUS
  <2>3. QED BY <1>5, <2>1, <2>2 DEF Relabelled, NoArms
<1>7. ASSUME NEW i \in 0..N, i # N, Relabelled(r, L, i, g[i])
      PROVE  Relabelled(r, L, i + 1, g[i + 1])
  <2>1. PICK acc : acc = g[i]
    OBVIOUS
  <2>2. i \in Nat /\ i + 1 \in 1..N /\ i + 1 \in 0..N /\ i + 1 # 0 /\ i + 1 - 1 = i
        /\ \A j \in 1..i : j \in 1..N
    BY <1>2, <1>7
  <2>3. Relabelled(r, L, i + 1, NextLabel(r, L, i + 1, acc))
    <3>1. Relabelled(r, L, i, acc)
      BY <1>7, <2>1
    <3>2. \A j \in 1..i : L[j] # 0
      BY <1>2, <2>2
    <3>3. QED BY <2>2, <3>1, <3>2, RelabelStep
  <2>4. g[i + 1] = NextLabel(r, L, i + 1, acc)
    BY <1>5, <2>1, <2>2
  <2>5. QED BY <2>3, <2>4
<1>8. Relabelled(r, L, N, g[N])
  <2> DEFINE bad == {i \in 0..N : ~Relabelled(r, L, i, g[i])}
  <2>1. ASSUME bad # {}
        PROVE  FALSE
    <3>1. PICK m \in bad : \A y \in bad : m <= y
      <4>1. bad \subseteq Nat
        OBVIOUS
      <4> HIDE DEF bad
      <4>2. QED BY <2>1, <4>1, Least
    <3>2. m \in 0..N /\ ~Relabelled(r, L, m, g[m])
      BY <3>1
    <3>3. m # 0
      BY <1>6, <3>2
    <3>4. PICK j \in 0..N : m = j + 1 /\ j # N /\ ~(m <= j)
      BY <1>2, <3>2, <3>3
    <3>5. j \notin bad
      <4> HIDE DEF bad
      <4>1. QED BY <3>1, <3>4
    <3>6. Relabelled(r, L, j, g[j])
      BY <3>5
    <3> HIDE DEF bad
    <3>7. QED BY <1>7, <3>2, <3>4, <3>6
  <2>2. N \notin bad /\ N \in 0..N
    BY <1>2, <2>1
  <2>3. QED BY <2>2
<1>9. g[N].arms = {L[FirstLead(r, L, b)] : b \in Led(r, L, N)}
  BY <1>8 DEF Relabelled
<1>10. QED BY <1>1, <1>2, <1>4, <1>9

\* Text that is not misread tells a default branch.
LEMMA DefaultIs ==
    ASSUME NEW r, NEW n, ~Misread(r, n)
    PROVE  IsDefaultBranch(r, n) <=> Default(r, n)
BY DEF Misread, IsDefaultBranch, Default


\* Where no label is misread they are as many as the bodies, each of its own.
LEMMA ArmsOfBodies ==
    ASSUME NEW r, IsRegion(r), Grammatical(r), NEW n \in Nodes(r), Type(r, n) = "switch",
           \A i \in DOMAIN Clauses(r, n) : ~Misread(r, Clauses(r, n)[i])
    PROVE  LET L == Clauses(r, n)
           IN  /\ SwitchArms(r, n) = {L[FirstLead(r, L, b)] : b \in Bodies(r, n)}
               /\ \A b \in Bodies(r, n) : FirstLead(r, L, b) \in 1..Len(L)
               /\ \A a, b \in Bodies(r, n) :
                     L[FirstLead(r, L, a)] = L[FirstLead(r, L, b)] => a = b
<1>1. PICK L : L = Clauses(r, n)
  BY Zenon
<1>2. PICK N \in Nat : /\ N = Len(L) /\ DOMAIN L = 1..N
                       /\ \A i, j \in 1..N : i < j => L[i] < L[j]
                       /\ \A i \in 1..N : L[i] \in Nat
                       /\ \A i \in 1..N : LabelHasBody(r, L, i) <=> Runs(r, L, i)
                       /\ \A i \in 1..N : IsDefaultBranch(r, L[i]) <=> Default(r, L[i])
  <2>1. /\ Len(L) \in Nat /\ DOMAIN L = 1..Len(L) /\ \A i \in 1..Len(L) : L[i] \in Nodes(r)
        /\ \A i, j \in 1..Len(L) : i < j => L[i] < L[j]
    BY <1>1, ClausesAre
  <2>2. Nodes(r) \subseteq Nat
    BY TreeFacts DEF IsRegion, Nodes
  <2>3. \A i \in 1..Len(L) : LabelHasBody(r, L, i) <=> Runs(r, L, i)
    BY <1>1, BodyRuns
  <2>4. \A i \in 1..Len(L) : IsDefaultBranch(r, L[i]) <=> Default(r, L[i])
    BY <1>1, <2>1, DefaultIs
  <2>5. QED BY <2>1, <2>2, <2>3, <2>4
<1>3. Led(r, L, N) = Bodies(r, n)
  <2>1. \A i \in 1..N : 1..i \subseteq 1..N /\ \A j \in 1..i : j..i - 1 \subseteq 1..N
    BY <1>2
  <2>2. \A i \in 1..N :
           Leads(r, L, i) = {j \in 1..i : /\ ~Default(r, L[j])
                                          /\ \A k \in j..i - 1 : ~Runs(r, L, k)}
    BY <1>2, <2>1 DEF Leads
  <2>3. \A b \in 1..N :
           Leads(r, L, b) # {} <=> \E j \in 1..b : /\ ~Default(r, L[j])
                                                  /\ \A k \in j..b - 1 : ~Runs(r, L, k)
    BY <2>2
  <2>4. Bodies(r, n) = {b \in 1..N : /\ Runs(r, L, b)
                                    /\ \E j \in 1..b : /\ ~Default(r, L[j])
                                                       /\ \A k \in j..b - 1 : ~Runs(r, L, k)}
    BY <1>1, <1>2, Zenon DEF Bodies
  <2>5. Led(r, L, N) = {b \in 1..N : LabelHasBody(r, L, b) /\ Leads(r, L, b) # {}}
    BY DEF Led
  <2>6. \A b \in 1..N : LabelHasBody(r, L, b) <=> Runs(r, L, b)
    BY <1>2
  <2>7. QED BY <2>3, <2>4, <2>5, <2>6, Zenon
<1>4. ASSUME NEW b \in Bodies(r, n)
      PROVE  /\ b \in 1..N /\ FirstLead(r, L, b) \in 1..b
             /\ LabelHasBody(r, L, b)
             /\ \A k \in FirstLead(r, L, b)..b - 1 : ~LabelHasBody(r, L, k)
  <2>1. b \in 1..N /\ LabelHasBody(r, L, b) /\ Leads(r, L, b) # {}
    BY <1>3 DEF Led
  <2>2. PICK i \in Nat : b = i + 1
    BY <2>1
  <2>3. FirstLead(r, L, b) \in Leads(r, L, b)
    BY <2>1, <2>2, FirstLeadIs
  <2>4. QED BY <2>1, <2>3 DEF Leads
<1>5. ASSUME NEW a \in Bodies(r, n), NEW b \in Bodies(r, n), a < b,
             FirstLead(r, L, a) = FirstLead(r, L, b)
      PROVE  FALSE
  <2>1. PICK x \in 1..a : x = FirstLead(r, L, a) /\ x = FirstLead(r, L, b)
    BY <1>4, <1>5
  <2>2. a \in 1..N /\ b \in 1..N /\ a \in x..b - 1
    BY <1>4, <1>5, <2>1
  <2>3. QED BY <1>4, <2>1, <2>2
<1>6. ASSUME NEW a \in Bodies(r, n), NEW b \in Bodies(r, n),
             L[FirstLead(r, L, a)] = L[FirstLead(r, L, b)]
      PROVE  a = b
  <2>1. PICK x \in 1..N, y \in 1..N : x = FirstLead(r, L, a) /\ y = FirstLead(r, L, b)
    BY <1>2, <1>4
  <2>2. ~(x < y) /\ ~(y < x)
    BY <1>2, <1>6, <2>1
  <2>3. x = y
    BY <2>1, <2>2
  <2>4. a \in 1..N /\ b \in 1..N /\ ~(a < b) /\ ~(b < a)
    BY <1>4, <1>5, <2>1, <2>3
  <2>5. QED BY <2>4
<1>7. \A b \in Bodies(r, n) : FirstLead(r, L, b) \in 1..N
  BY <1>2, <1>4
<1>8. SwitchArms(r, n) = {L[FirstLead(r, L, b)] : b \in Bodies(r, n)}
  BY <1>1, <1>2, <1>3, ArmsAre
<1>9. QED BY <1>1, <1>2, <1>6, <1>7, <1>8

---------------------------------------------------------------------------
(* The decisions of a callable                                             *)

\* A set and its image under a one-to-one function are equally large.
LEMMA ImageCount ==
    ASSUME NEW S, IsFiniteSet(S), NEW f, f = [x \in S |-> f[x]],
           \A x, y \in S : f[x] = f[y] => x = y
    PROVE  /\ IsFiniteSet({f[x] : x \in S})
           /\ Cardinality({f[x] : x \in S}) = Cardinality(S)
<1> DEFINE T == {f[x] : x \in S}
<1>1. f \in [S -> T]
  OBVIOUS
<1>2. \A t \in T : \E x \in S : f[x] = t
  OBVIOUS
<1> HIDE DEF T
<1>3. f \in Bijection(S, T)
  BY <1>1, <1>2 DEF Bijection, Injection, Surjection, IsInjective
<1>4. ExistsBijection(S, T)
  BY <1>3 DEF ExistsBijection
<1>5. QED BY <1>4, FS_Bijection DEF T

\* Sets without a common element add up.
LEMMA CountsAdd ==
    ASSUME NEW S, IsFiniteSet(S), NEW T, IsFiniteSet(T), S \cap T = {}
    PROVE  IsFiniteSet(S \cup T) /\ Cardinality(S \cup T) = Cardinality(S) + Cardinality(T)
<1>1. /\ IsFiniteSet(S \cup T)
      /\ Cardinality(S \cup T) = Cardinality(S) + Cardinality(T) - Cardinality(S \cap T)
  BY FS_Union
<1>2. PICK s \in Nat, t \in Nat : s = Cardinality(S) /\ t = Cardinality(T)
  BY FS_CardinalityType
<1>3. Cardinality(S \cap T) = 0
  BY FS_EmptySet
<1>4. QED BY <1>1, <1>2, <1>3

\* The nodes a callable is charged for, by category
ChargedNodes(r, root, category) ==
    CASE category = "branch" ->
            {n \in Reached(r, root) : Type(r, n) \in BranchTypes /\ ~IsDefaultBranch(r, n)}
      [] category = "pattern_guard" ->
            {n \in Reached(r, root) : Type(r, n) = "arm" /\ Marked(r, n, "guard")}
      [] OTHER -> UNION {SwitchArms(r, n) : n \in {m \in Reached(r, root) : Type(r, m) = "switch"}}

DecisionFacts(r, c, category) ==
    {[callable |-> Key(r, c), category |-> category, range |-> NodeRange(r, n)] :
        n \in ChargedNodes(r, StructuralRoot(r, c), category)}

LEMMA ChargedAreNodes ==
    ASSUME NEW r, IsRegion(r), NEW root \in Nodes(r), NEW category
    PROVE  /\ ChargedNodes(r, root, category) \subseteq Nodes(r)
           /\ IsFiniteSet(ChargedNodes(r, root, category))
           /\ Cardinality(ChargedNodes(r, root, category)) \in Nat
<1>1. Reached(r, root) \subseteq Nodes(r)
  BY DEF Reached, Descendants
<1>2. ASSUME NEW n \in Nodes(r)
      PROVE  SwitchArms(r, n) \subseteq Nodes(r)
  <2>1. PICK L : L = Clauses(r, n)
    OBVIOUS
  <2>2. PICK N \in Nat : N = Len(L) /\ \A i \in 1..N : L[i] \in Nodes(r)
    BY <2>1, ClausesAre
  <2>3. SwitchArms(r, n) = {L[FirstLead(r, L, b)] : b \in Led(r, L, N)}
    BY <2>1, <2>2, ArmsAre
  <2>4. \A b \in Led(r, L, N) : FirstLead(r, L, b) \in 1..N
    <3>1. SUFFICES ASSUME NEW b \in Led(r, L, N) PROVE FirstLead(r, L, b) \in 1..N
      OBVIOUS
    <3>2. b \in 1..N /\ Leads(r, L, b) # {}
      BY DEF Led
    <3>3. PICK i \in Nat : b = i + 1
      BY <3>2
    <3>4. FirstLead(r, L, b) \in Leads(r, L, b)
      BY <3>2, <3>3, FirstLeadIs
    <3>5. FirstLead(r, L, b) \in 1..b
      BY <3>4 DEF Leads
    <3>6. QED BY <3>2, <3>5
  <2>5. QED BY <2>2, <2>3, <2>4
<1>3. ChargedNodes(r, root, category) \subseteq Nodes(r)
  BY <1>1, <1>2 DEF ChargedNodes
<1>4. IsFiniteSet(Nodes(r))
  <2>1. Nodes(r) = 1..Len(r.tree) /\ Len(r.tree) \in Nat
    BY TreeFacts DEF IsRegion, Nodes
  <2>2. QED BY <2>1, FS_Interval
<1>5. IsFiniteSet(ChargedNodes(r, root, category))
  BY <1>3, <1>4, FS_Subset
<1>6. QED BY <1>3, <1>5, FS_CardinalityType

LEMMA DecisionFactsCount ==
    ASSUME NEW r, IsRegion(r), NEW c \in Nodes(r), NEW category
    PROVE  /\ IsFiniteSet(DecisionFacts(r, c, category))
           /\ Cardinality(DecisionFacts(r, c, category)) =
                 Cardinality(ChargedNodes(r, StructuralRoot(r, c), category))
<1> DEFINE S == ChargedNodes(r, StructuralRoot(r, c), category)
           f == [n \in S |-> [callable |-> Key(r, c), category |-> category,
                              range |-> NodeRange(r, n)]]
<1>1. StructuralRoot(r, c) \in Nodes(r)
  BY RootFacts
<1>2. S \subseteq Nodes(r) /\ IsFiniteSet(S)
  BY <1>1, ChargedAreNodes
<1>3. DecisionFacts(r, c, category) = {f[n] : n \in S}
  BY DEF DecisionFacts
<1>4. f = [n \in S |-> f[n]] /\ \A n \in S : f[n].range = NodeRange(r, n)
  OBVIOUS
<1>5. \A m, n \in S : NodeRange(r, m) = NodeRange(r, n) => m = n
  BY <1>2, RangesApart
<1> HIDE DEF S, f
<1>6. \A m, n \in S : f[m] = f[n] => m = n
  BY <1>4, <1>5
<1>7. /\ IsFiniteSet({f[n] : n \in S})
      /\ Cardinality({f[n] : n \in S}) = Cardinality(S)
  BY <1>2, <1>4, <1>6, ImageCount
<1>8. QED BY <1>3, <1>7 DEF S

\* A callable has as many decisions as nodes it is charged for.
LEMMA DecisionsCount ==
    ASSUME NEW r, IsRegion(r), NEW c \in Nodes(r), NEW root, root = StructuralRoot(r, c)
    PROVE  /\ IsFiniteSet(DecisionsOf(r, c))
           /\ Cardinality(DecisionsOf(r, c)) =
                 Cardinality(ChargedNodes(r, root, "branch"))
                 + Cardinality(ChargedNodes(r, root, "pattern_guard"))
                 + Cardinality(ChargedNodes(r, root, "switch_arm"))
<1> DEFINE B == DecisionFacts(r, c, "branch")
           G == DecisionFacts(r, c, "pattern_guard")
           A == DecisionFacts(r, c, "switch_arm")
           Fact(category, n) == [callable |-> Key(r, c), category |-> category,
                                 range |-> NodeRange(r, n)]
<1>1. ASSUME NEW x
      PROVE  x \in DecisionsOf(r, c) <=> x \in B \cup G \cup A
  <2>1. x \in DecisionsOf(r, c) <=>
           \E m \in Reached(r, root) : \E d \in NormalizedDecisions(r, m) :
              x = Fact(d[1], d[2])
    BY DEF DecisionsOf
  <2>2. \A m \in Reached(r, root) :
           (\E d \in NormalizedDecisions(r, m) : x = Fact(d[1], d[2])) <=>
              \/ Type(r, m) \in BranchTypes /\ ~IsDefaultBranch(r, m) /\ x = Fact("branch", m)
              \/ Type(r, m) = "arm" /\ Marked(r, m, "guard") /\ x = Fact("pattern_guard", m)
              \/ Type(r, m) = "switch" /\ \E n \in SwitchArms(r, m) : x = Fact("switch_arm", n)
    <3>1. SUFFICES ASSUME NEW m \in Reached(r, root)
                   PROVE  (\E d \in NormalizedDecisions(r, m) : x = Fact(d[1], d[2])) <=>
              \/ Type(r, m) \in BranchTypes /\ ~IsDefaultBranch(r, m) /\ x = Fact("branch", m)
              \/ Type(r, m) = "arm" /\ Marked(r, m, "guard") /\ x = Fact("pattern_guard", m)
              \/ Type(r, m) = "switch" /\ \E n \in SwitchArms(r, m) : x = Fact("switch_arm", n)
      OBVIOUS
    <3> HIDE DEF Fact
    <3>2. \A d : d \in NormalizedDecisions(r, m) <=>
              \/ Type(r, m) \in BranchTypes /\ ~IsDefaultBranch(r, m) /\ d = <<"branch", m>>
              \/ Type(r, m) = "arm" /\ Marked(r, m, "guard") /\ d = <<"pattern_guard", m>>
              \/ Type(r, m) = "switch" /\ \E n \in SwitchArms(r, m) : d = <<"switch_arm", n>>
      BY DEF NormalizedDecisions
    <3>3. \A s, n : <<s, n>>[1] = s /\ <<s, n>>[2] = n
      OBVIOUS
    <3>4. ASSUME NEW d \in NormalizedDecisions(r, m), x = Fact(d[1], d[2])
          PROVE  \/ Type(r, m) \in BranchTypes /\ ~IsDefaultBranch(r, m) /\ x = Fact("branch", m)
                 \/ Type(r, m) = "arm" /\ Marked(r, m, "guard") /\ x = Fact("pattern_guard", m)
                 \/ Type(r, m) = "switch" /\ \E n \in SwitchArms(r, m) : x = Fact("switch_arm", n)
      BY <3>2, <3>3, <3>4
    <3>5. ASSUME NEW s, NEW n, x = Fact(s, n), <<s, n>> \in NormalizedDecisions(r, m)
          PROVE  \E d \in NormalizedDecisions(r, m) : x = Fact(d[1], d[2])
      BY <3>3, <3>5
    <3>6. /\ Type(r, m) \in BranchTypes /\ ~IsDefaultBranch(r, m) =>
                <<"branch", m>> \in NormalizedDecisions(r, m)
          /\ Type(r, m) = "arm" /\ Marked(r, m, "guard") =>
                <<"pattern_guard", m>> \in NormalizedDecisions(r, m)
          /\ Type(r, m) = "switch" => \A n \in SwitchArms(r, m) :
                <<"switch_arm", n>> \in NormalizedDecisions(r, m)
      BY <3>2
    <3>7. QED BY <3>4, <3>5, <3>6
  <2> HIDE DEF Fact
  <2>3. (x \in B <=> \E m \in Reached(r, root) :
              Type(r, m) \in BranchTypes /\ ~IsDefaultBranch(r, m) /\ x = Fact("branch", m))
    BY DEF DecisionFacts, ChargedNodes, Fact
  <2>4. (x \in G <=> \E m \in Reached(r, root) :
              Type(r, m) = "arm" /\ Marked(r, m, "guard") /\ x = Fact("pattern_guard", m))
    BY DEF DecisionFacts, ChargedNodes, Fact
  <2>5. (x \in A <=> \E m \in Reached(r, root) :
              Type(r, m) = "switch" /\ \E n \in SwitchArms(r, m) : x = Fact("switch_arm", n))
    BY DEF DecisionFacts, ChargedNodes, Fact
  <2> HIDE DEF B, G, A
  <2>6. QED BY <2>1, <2>2, <2>3, <2>4, <2>5
<1>2. DecisionsOf(r, c) = B \cup G \cup A
  BY <1>1
<1>3. /\ \A x \in B : x.category = "branch"
      /\ \A x \in G : x.category = "pattern_guard"
      /\ \A x \in A : x.category = "switch_arm"
  BY DEF DecisionFacts
<1>4. /\ IsFiniteSet(B) /\ Cardinality(B) = Cardinality(ChargedNodes(r, root, "branch"))
      /\ IsFiniteSet(G) /\ Cardinality(G) = Cardinality(ChargedNodes(r, root, "pattern_guard"))
      /\ IsFiniteSet(A) /\ Cardinality(A) = Cardinality(ChargedNodes(r, root, "switch_arm"))
  BY DecisionFactsCount
<1> HIDE DEF B, G, A
<1>5. B \cap G = {} /\ (B \cup G) \cap A = {}
  BY <1>3
<1>6. IsFiniteSet(B \cup G) /\ Cardinality(B \cup G) = Cardinality(B) + Cardinality(G)
  BY <1>4, <1>5, CountsAdd
<1>7. /\ IsFiniteSet((B \cup G) \cup A)
      /\ Cardinality((B \cup G) \cup A) = Cardinality(B \cup G) + Cardinality(A)
  BY <1>4, <1>5, <1>6, CountsAdd
<1>8. QED BY <1>2, <1>4, <1>6, <1>7

\* A switch and its labels are of one callable.
LEMMA LabelsOwned ==
    ASSUME NEW r, IsRegion(r), Grammatical(r), NEW c \in Callables(r),
           NEW n \in Own(r, c), Type(r, n) = "switch",
           NEW m \in Nodes(r), Type(r, m) = "clause", n \in Ancestors(r, m),
           Nearest(r, m, {"switch"}) = n
    PROVE  m \in Own(r, c)
<1>1. /\ Nodes(r) \subseteq Nat /\ 0 \notin Nodes(r)
      /\ c \in Nodes(r) /\ n \in Nodes(r)
      /\ \A x \in Nodes(r) : \A a \in Ancestors(r, x) : a \in Nodes(r) /\ a < x
  <2>1. Nodes(r) = 1..Len(r.tree) /\ Len(r.tree) \in Nat
    BY TreeFacts DEF IsRegion, Nodes
  <2>2. \A x \in Nodes(r) : Ancestors(r, x) \subseteq 1..x - 1
    BY AncestorsBefore
  <2>3. \A x \in Nodes(r) : x \in Nat /\ x <= Len(r.tree)
    BY <2>1
  <2>4. c \in Nodes(r) /\ n \in Nodes(r)
    BY DEF Callables, Own
  <2>5. QED BY <2>1, <2>2, <2>3, <2>4
<1>2. c \in Holders(r, n) /\ \A x \in Holders(r, n) : x <= c
  BY <1>1, OwnIs
<1>3. Ancestors(r, n) \subseteq Ancestors(r, m)
  BY AncestorsBefore
<1>4. ASSUME NEW x \in Holders(r, n)
      PROVE  x \in Holders(r, m)
  BY <1>3 DEF Holders, Descendants
<1>5. ASSUME NEW a \in Ancestors(r, m), a < n
      PROVE  a \in Ancestors(r, n)
  BY <1>1, <1>5, Contiguous
<1>6. \A a \in Ancestors(r, m) : Type(r, a) \in CallableTypes => a < n
  <2>1. SUFFICES ASSUME NEW a \in Ancestors(r, m), Type(r, a) \in CallableTypes PROVE a < n
    OBVIOUS
  <2>2. a <= Nearest(r, m, CallableTypes)
    BY <2>1, NearestIs
  <2>3. Nearest(r, m, CallableTypes) <= n
    BY DEF Grammatical
  <2>4. PICK k \in Nat : k = Nearest(r, m, CallableTypes)
    <3>1. Nearest(r, m, CallableTypes) \in 0..m - 1
      BY NearestFacts
    <3>2. m \in Nat
      BY <1>1
    <3>3. QED BY <3>1, <3>2
  <2>5. a # n /\ a \in Nat /\ n \in Nat
    <3>1. "switch" \notin CallableTypes
      BY DEF CallableTypes
    <3>2. QED BY <1>1, <2>1, <3>1
  <2>6. QED BY <2>2, <2>3, <2>4, <2>5
<1>7. ASSUME NEW x \in Holders(r, m)
      PROVE  x \in Holders(r, n)
  <2>1. /\ x \in Nodes(r) /\ Type(r, x) \in CallableTypes
        /\ Type(r, x) = "signature" => HasBody(r, x)
        /\ x \in Ancestors(r, m) \/ StructuralRoot(r, x) \in Ancestors(r, m)
    BY DEF Holders, Descendants
  <2>2. CASE x \in Ancestors(r, m)
    <3>1. x \in Ancestors(r, n)
      BY <1>5, <1>6, <2>1, <2>2
    <3>2. QED BY <1>1, <2>1, <3>1 DEF Holders, Descendants
  <2>3. CASE x \notin Ancestors(r, m)
    <3>1. PICK b \in Nodes(r) : /\ b = StructuralRoot(r, x) /\ Ancestors(r, b) = Ancestors(r, x)
                                /\ b = x \/ (Type(r, x) = "signature" /\ Type(r, b) = "body")
      BY <2>1, RootFacts
    <3>2. b \in Ancestors(r, m) /\ Type(r, x) = "signature" /\ Type(r, b) = "body"
      BY <2>1, <2>3, <3>1
    <3>3. ~(n < b)
      <4>1. SUFFICES ASSUME n < b PROVE FALSE
        OBVIOUS
      <4>2. n \in Ancestors(r, x)
        <5>1. b <= m /\ b \in Nodes(r)
          BY <1>1, <3>2
        <5>2. n \in Ancestors(r, b)
          BY <1>1, <4>1, <5>1, Contiguous
        <5>3. QED BY <3>1, <5>2
      <4>3. Ancestors(r, n) \subseteq Ancestors(r, x)
        BY <2>1, <4>2, AncestorsBefore
      <4>4. Nearest(r, x, CallableTypes \cup {"body"}) = 0
        BY <2>1, <3>2 DEF Grammatical
      <4>5. \A a \in Ancestors(r, x) : Type(r, a) \notin CallableTypes \cup {"body"}
        <5>1. \A a \in Ancestors(r, x) : a \in Nat /\ a # 0
          BY <1>1, <2>1
        <5>2. \A a \in Ancestors(r, x) : Type(r, a) \in CallableTypes \cup {"body"} => a <= 0
          BY <2>1, <4>4, NearestIs
        <5>3. QED BY <5>1, <5>2
      <4>6. c \in Ancestors(r, n) \/ StructuralRoot(r, c) \in Ancestors(r, n)
        BY <1>2 DEF Holders, Descendants
      <4>7. /\ Type(r, c) \in CallableTypes
            /\ StructuralRoot(r, c) = c \/ Type(r, StructuralRoot(r, c)) = "body"
        BY <1>1, <1>2, RootFacts DEF Holders
      <4>8. QED BY <4>3, <4>5, <4>6, <4>7
    <3>4. b # n /\ b \in Nat /\ n \in Nat
      BY <1>1, <3>2
    <3>5. b \in Ancestors(r, n)
      BY <1>5, <3>2, <3>3, <3>4
    <3>6. QED BY <1>1, <2>1, <3>1, <3>5 DEF Holders, Descendants
  <2>4. QED BY <2>2, <2>3
<1>8. QED BY <1>1, <1>2, <1>4, <1>7, OwnIs

\* The labels of a switch stand nearest to it.
LEMMA LabelsNearest ==
    ASSUME NEW r, IsRegion(r), NEW n \in Nodes(r), Type(r, n) = "switch"
    PROVE  /\ Len(Clauses(r, n)) \in Nat /\ DOMAIN Clauses(r, n) = 1..Len(Clauses(r, n))
           /\ \A i \in 1..Len(Clauses(r, n)) :
                 LET m == Clauses(r, n)[i]
                 IN  /\ m \in Nodes(r) /\ Type(r, m) = "clause" /\ n \in Ancestors(r, m)
                     /\ Nearest(r, m, {"switch"}) = n
<1>1. PICK L : L = Clauses(r, n)
  OBVIOUS
<1>2. ASSUME NEW m \in Nodes(r), Parent(r, m) = n
      PROVE  Nearest(r, m, {"switch"}) = n
  <2>1. n \in Nat /\ n # 0 /\ \A a \in Ancestors(r, n) : a \in Nat /\ a < n
    <3>1. Nodes(r) = 1..Len(r.tree) /\ Len(r.tree) \in Nat /\ Ancestors(r, n) \subseteq 1..n - 1
      BY TreeFacts, AncestorsBefore DEF IsRegion, Nodes
    <3>2. QED BY <3>1
  <2>2. Ancestors(r, m) = {n} \cup Ancestors(r, n)
    BY <1>2, <2>1, AncestorStep
  <2>3. PICK z : z = Nearest(r, m, {"switch"})
    OBVIOUS
  <2>4. (z = 0 \/ z \in {n} \cup Ancestors(r, n)) /\ n <= z
    BY <2>2, <2>3, NearestIs
  <2>5. QED BY <2>1, <2>3, <2>4
<1>3. /\ Len(L) \in Nat /\ DOMAIN L = 1..Len(L)
      /\ \A i \in 1..Len(L) :
            /\ L[i] \in Nodes(r) /\ Type(r, L[i]) = "clause" /\ n \in Ancestors(r, L[i])
            /\ IF r.language = "cpp" THEN Nearest(r, L[i], {"switch"}) = n
                                     ELSE Parent(r, L[i]) = n
  BY <1>1, ClausesAre
<1>4. QED BY <1>1, <1>2, <1>3

\* As many arms are charged as bodies are led to.
LEMMA ArmsCount ==
    ASSUME NEW r, IsRegion(r), Grammatical(r), NEW c \in Callables(r),
           \A n \in Own(r, c) : ~Misread(r, n),
           NEW root, root = StructuralRoot(r, c)
    PROVE  LET bodies == UNION {{n} \X Bodies(r, n) :
                                   n \in {m \in Own(r, c) : Type(r, m) = "switch"}}
           IN  Cardinality(bodies) = Cardinality(ChargedNodes(r, root, "switch_arm"))
<1> DEFINE switches == {m \in Own(r, c) : Type(r, m) = "switch"}
           bodies == UNION {{n} \X Bodies(r, n) : n \in switches}
           arms == ChargedNodes(r, root, "switch_arm")
           L(n) == Clauses(r, n)
           A(n, b) == L(n)[FirstLead(r, L(n), b)]
<1>1. c \in Nodes(r) /\ root \in Nodes(r)
  BY RootFacts DEF Callables
<1>2. \A n : n \in switches <=> n \in Nodes(r) /\ n \in Reached(r, root) /\ Type(r, n) = "switch"
  <2>1. \A n \in Nodes(r) : Type(r, n) = "switch" => (n \in Own(r, c) <=> n \in Reached(r, root))
    <3>1. "switch" \in ControlTypes \cup BranchTypes
      BY DEF ControlTypes
    <3>2. QED BY <3>1, OwnReached DEF Unwalked
  <2>2. \A n \in Own(r, c) : n \in Nodes(r)
    BY DEF Own
  <2>3. QED BY <2>1, <2>2
<1>3. arms = UNION {SwitchArms(r, n) : n \in switches}
  <2>1. switches = {m \in Reached(r, root) : Type(r, m) = "switch"}
    <3>1. Reached(r, root) \subseteq Nodes(r)
      BY DEF Reached, Descendants
    <3> HIDE DEF switches
    <3>2. QED BY <1>2, <3>1
  <2>2. QED BY <2>1 DEF ChargedNodes
<1>4. ASSUME NEW n \in switches
      PROVE  /\ n \in Nodes(r)
             /\ SwitchArms(r, n) = {A(n, b) : b \in Bodies(r, n)}
             /\ \A b \in Bodies(r, n) : /\ A(n, b) \in Nodes(r)
                                        /\ Nearest(r, A(n, b), {"switch"}) = n
             /\ \A a, b \in Bodies(r, n) : A(n, a) = A(n, b) => a = b
  <2>1. n \in Nodes(r) /\ n \in Own(r, c) /\ Type(r, n) = "switch"
    BY <1>2
  <2>2. PICK N \in Nat : /\ N = Len(L(n)) /\ DOMAIN L(n) = 1..N
                         /\ \A i \in 1..N : /\ L(n)[i] \in Nodes(r) /\ Type(r, L(n)[i]) = "clause"
                                            /\ n \in Ancestors(r, L(n)[i])
                                            /\ Nearest(r, L(n)[i], {"switch"}) = n
    BY <2>1, LabelsNearest
  <2>3. \A i \in DOMAIN L(n) : ~Misread(r, L(n)[i])
    <3>1. \A i \in 1..N : L(n)[i] \in Own(r, c)
      BY <2>1, <2>2, LabelsOwned
    <3>2. QED BY <2>2, <3>1
  <2>4. /\ SwitchArms(r, n) = {A(n, b) : b \in Bodies(r, n)}
        /\ \A b \in Bodies(r, n) : FirstLead(r, L(n), b) \in 1..N
        /\ \A a, b \in Bodies(r, n) : A(n, a) = A(n, b) => a = b
    BY <2>1, <2>2, <2>3, ArmsOfBodies
  <2>5. QED BY <2>1, <2>2, <2>4
<1> HIDE DEF switches, A
<1> DEFINE f == [p \in bodies |-> A(p[1], p[2])]
<1>5. \A p \in bodies : /\ p[1] \in switches /\ p[2] \in Bodies(r, p[1]) /\ p = <<p[1], p[2]>>
                        /\ f[p] = A(p[1], p[2])
  OBVIOUS
<1>6. \A n \in switches : \A b \in Bodies(r, n) : <<n, b>> \in bodies /\ f[<<n, b>>] = A(n, b)
  OBVIOUS
<1>7. arms = {f[p] : p \in bodies}
  <2> HIDE DEF bodies, f, arms
  <2>1. \A x : x \in arms <=> \E n \in switches : \E b \in Bodies(r, n) : x = A(n, b)
    BY <1>3, <1>4
  <2>2. \A x : x \in arms <=> \E p \in bodies : x = f[p]
    <3>1. SUFFICES ASSUME NEW x PROVE x \in arms <=> \E p \in bodies : x = f[p]
      OBVIOUS
    <3>2. ASSUME x \in arms PROVE \E p \in bodies : x = f[p]
      <4>1. PICK n \in switches : \E b \in Bodies(r, n) : x = A(n, b)
        BY <2>1, <3>2
      <4>2. PICK b \in Bodies(r, n) : x = A(n, b)
        BY <4>1
      <4>3. <<n, b>> \in bodies /\ f[<<n, b>>] = A(n, b)
        BY <1>6
      <4>4. QED BY <4>2, <4>3
    <3>3. ASSUME NEW p \in bodies, x = f[p] PROVE x \in arms
      BY <1>5, <2>1, <3>3
    <3>4. QED BY <3>2, <3>3
  <2>3. QED BY <2>2
<1>8. \A p, q \in bodies : f[p] = f[q] => p = q
  <2> HIDE DEF bodies, f, arms
  <2>1. SUFFICES ASSUME NEW p \in bodies, NEW q \in bodies, f[p] = f[q] PROVE p = q
    OBVIOUS
  <2>2. p[1] = q[1]
    BY <1>4, <1>5, <2>1
  <2>3. p[2] = q[2]
    BY <1>4, <1>5, <2>1, <2>2
  <2>4. QED BY <1>5, <2>2, <2>3
<1>9. f = [p \in bodies |-> f[p]]
  OBVIOUS
<1>10. IsFiniteSet(arms)
  BY <1>1, ChargedAreNodes
<1> HIDE DEF bodies, f, arms
<1>11. f \in Bijection(bodies, arms)
  BY <1>7, <1>8, <1>9 DEF Bijection, Injection, Surjection, IsInjective
<1>12. IsFiniteSet(bodies) /\ Cardinality(bodies) = Cardinality(arms)
  BY <1>10, <1>11, FS_Injection DEF Bijection
<1>13. QED BY <1>12 DEF bodies, arms, switches

LEMMA ComplexityIs ==
    ASSUME NEW r, IsRegion(r), Grammatical(r), NEW c \in Callables(r),
           \A n \in Own(r, c) : ~Misread(r, n) /\ ~Unwalked(r, n)
    PROVE  LET own == Own(r, c)
               branches == {n \in own : Type(r, n) \in BranchTypes \ {"arm"}}
               arms == {n \in own : Type(r, n) = "arm" /\ ~Default(r, n)}
               guarded == {n \in own : Type(r, n) = "arm" /\ Marked(r, n, "guard")}
               bodies == UNION {{n} \X Bodies(r, n) : n \in {m \in own : Type(r, m) = "switch"}}
           IN  1 + Cardinality(DecisionsOf(r, c)) =
                  1 + Cardinality(branches) + Cardinality(arms)
                    + Cardinality(guarded) + Cardinality(bodies)
<1> DEFINE own == Own(r, c)
           branches == {n \in own : Type(r, n) \in BranchTypes \ {"arm"}}
           arms == {n \in own : Type(r, n) = "arm" /\ ~Default(r, n)}
           guarded == {n \in own : Type(r, n) = "arm" /\ Marked(r, n, "guard")}
           bodies == UNION {{n} \X Bodies(r, n) : n \in {m \in own : Type(r, m) = "switch"}}
<1>1. PICK root \in Nodes(r) : root = StructuralRoot(r, c)
  BY RootFacts DEF Callables
<1>2. c \in Nodes(r) /\ \A n \in own : n \in Nodes(r)
  BY DEF Callables, Own
<1>3. \A n \in Nodes(r) : Type(r, n) \in BranchTypes => (n \in own <=> n \in Reached(r, root))
  BY <1>1, OwnReached
<1>4. Reached(r, root) \subseteq Nodes(r)
  BY DEF Reached, Descendants
<1>5. "arm" \in BranchTypes /\ "clause" \notin BranchTypes
  BY DEF BranchTypes
<1>6. ChargedNodes(r, root, "pattern_guard") = guarded
  BY <1>2, <1>3, <1>4, <1>5 DEF ChargedNodes
<1>7. ChargedNodes(r, root, "branch") = branches \cup arms
  <2>1. \A n \in own : IsDefaultBranch(r, n) <=> Default(r, n)
    BY DefaultIs
  <2>2. \A n \in Nodes(r) : Default(r, n) /\ Type(r, n) \in BranchTypes => Type(r, n) = "arm"
    BY <1>5 DEF Default, Grammatical
  <2>3. ChargedNodes(r, root, "branch") =
           {n \in Reached(r, root) : Type(r, n) \in BranchTypes /\ ~IsDefaultBranch(r, n)}
    BY DEF ChargedNodes
  <2>4. QED BY <1>2, <1>3, <1>4, <1>5, <2>1, <2>2, <2>3
<1>8. Cardinality(bodies) = Cardinality(ChargedNodes(r, root, "switch_arm"))
  BY <1>1, ArmsCount
<1>9. branches \cap arms = {}
  OBVIOUS
<1> HIDE DEF branches, arms, guarded, bodies
<1>10. \A category : IsFiniteSet(ChargedNodes(r, root, category))
                     /\ Cardinality(ChargedNodes(r, root, category)) \in Nat
  BY ChargedAreNodes
<1>11. IsFiniteSet(branches) /\ IsFiniteSet(arms)
  <2>1. IsFiniteSet(branches \cup arms)
    BY <1>7, <1>10
  <2>2. branches \in SUBSET (branches \cup arms) /\ arms \in SUBSET (branches \cup arms)
    OBVIOUS
  <2>3. QED BY <2>1, <2>2, FS_Subset
<1>12. Cardinality(branches \cup arms) = Cardinality(branches) + Cardinality(arms)
  BY <1>9, <1>11, CountsAdd
<1>13. PICK a \in Nat, b \in Nat, g \in Nat, d \in Nat :
          /\ a = Cardinality(branches) /\ b = Cardinality(arms)
          /\ g = Cardinality(guarded) /\ d = Cardinality(bodies)
  BY <1>6, <1>8, <1>10, <1>11, FS_CardinalityType
<1>14. Cardinality(DecisionsOf(r, c)) = (a + b) + g + d
  BY <1>1, <1>2, <1>6, <1>7, <1>8, <1>12, <1>13, DecisionsCount
<1>15. 1 + ((a + b) + g + d) = 1 + a + b + g + d
  OBVIOUS
<1>16. QED BY <1>13, <1>14, <1>15 DEF branches, arms, guarded, bodies

LEMMA ComplexityFollows == IInv /\ Evaluated => ComplexityExact
<1> SUFFICES ASSUME IInv, Evaluated, step = "done", NEW r \in AnalysedRegions,
                    NEW c \in Callables(r),
                    \A n \in Own(r, c) : ~Misread(r, n) /\ ~Unwalked(r, n)
             PROVE  LET own == Own(r, c)
                        branches == {n \in own : Type(r, n) \in BranchTypes \ {"arm"}}
                        arms == {n \in own : Type(r, n) = "arm" /\ ~Default(r, n)}
                        guarded == {n \in own : Type(r, n) = "arm" /\ Marked(r, n, "guard")}
                        bodies == UNION {{n} \X Bodies(r, n) :
                                            n \in {m \in own : Type(r, m) = "switch"}}
                    IN  \E f \in FindingsFor("complexity", r, c) :
                          f.measured = 1 + Cardinality(branches) + Cardinality(arms)
                                         + Cardinality(guarded) + Cardinality(bodies)
  BY DEF ComplexityExact
<1>1. IsRegion(r) /\ Grammatical(r) /\ Key(r, c) \in Batch("callables")
  BY RegionsTyped, CallablesInBatch
<1> DEFINE f == Evaluate("complexity", Key(r, c))
<1>2. f \in findings["complexity"]
  BY <1>1 DEF Evaluated, Guards
<1>3. f.callable = Key(r, c) /\ f.measured = 1 + Cardinality(DecisionsOf(r, c))
  BY ChargedAre DEF Evaluate, Measured
<1>4. f \in FindingsFor("complexity", r, c)
  BY <1>2, <1>3 DEF FindingsFor
<1> HIDE DEF f
<1>5. QED BY <1>1, <1>3, <1>4, ComplexityIs

\* A callable's complexity is one more than the branches its own code can take,
\* however the labels of a switch are grouped, fall through or are nested
\* (normalized_decisions() and _extra_switch_arm_ranges() of
\* analysis/branch_normalization.py, guards/complexity.py).
THEOREM ComplexityIsExact == Spec => []ComplexityExact
<1>1. Init => Evaluated
  BY DEF Init, Evaluated
<1>2. QED BY InitInv, NextInv, <1>1, EvaluatedInv, ComplexityFollows, PTL DEF Spec

---------------------------------------------------------------------------
(* The types of what is measured                                           *)

\* What the parsers, the reports and the guards hold
Kept ==
    /\ step \in {"open", "parse", "aborted", "done"}
    /\ pending \subseteq (IF step = "parse" THEN Regions(files[at]) ELSE {})
    /\ parsers \subseteq Languages
    /\ \A i \in DOMAIN unavailable : unavailable[i].kind \in {"syntax", "provider"}
    /\ step # "done" => findings = [g \in Guards |-> {}]

\* A file that is given up is noted with one of the two kinds.
LEMMA NotedKept ==
    ASSUME Places, Kept, step # "done", NEW language, NEW kind \in {"syntax", "provider"},
           Noted(language, kind), parsers' \subseteq Languages'
    PROVE  Kept'
<1> DEFINE e == [file |-> at, language |-> language, kind |-> kind]
<1>1. unavailable' = Append(unavailable, e) /\ IsSeq(unavailable)
  BY DEF Noted, Places
<1> HIDE DEF e
<1>2. /\ DOMAIN unavailable' = DOMAIN unavailable \cup {Len(unavailable) + 1}
      /\ \A i \in DOMAIN unavailable : unavailable'[i] = unavailable[i]
      /\ unavailable'[Len(unavailable) + 1] = e
  BY <1>1, Appended
<1>3. \A i \in DOMAIN unavailable' : unavailable'[i].kind \in {"syntax", "provider"}
  BY <1>2 DEF Kept, e
<1>4. step' = "open" /\ pending' = {} /\ findings' = findings
  BY DEF Noted, NextFile
<1>5. QED BY <1>3, <1>4 DEF Kept

LEMMA KeptInv == IInv /\ Kept /\ [Next]_vars => Kept'
<1> SUFFICES ASSUME IInv, Kept, [Next]_vars PROVE Kept'
  OBVIOUS
<1>1. Places
  BY DEF IInv
<1>2. CASE UNCHANGED vars
  BY <1>2 DEF vars, progress, Kept, Languages
<1>3. CASE Next
  <2>1. Languages' = Languages
    <3>1. files' = files
      BY <1>3 DEF Next, Skip, ReadFails, OpenSource, OpenContainer, ContainerUnloaded,
           ContainerUnavailable, ParseRegion, RegionUnloaded, RegionUnavailable, FinishFile,
           RunGuards, Noted
    <3>2. QED BY <3>1 DEF Languages
  <2>2. ASSUME NEW language \in Languages, Load(language)
        PROVE  parsers' \subseteq Languages'
    BY <2>1, <2>2 DEF Load, Kept
  <2>3. parsers' = parsers => parsers' \subseteq Languages'
    BY <2>1 DEF Kept
  <2>4. "vue" \in Languages
    BY DEF Languages
  <2>5. ASSUME NEW i \in pending, AtRegion(i)
        PROVE  /\ step = "parse" /\ step # "done"
               /\ files[at].scripts[i].language \in Languages
    <3>1. step = "parse" /\ at \in DOMAIN files /\ i \in Regions(files[at])
      BY <2>5 DEF AtRegion, At, Kept
    <3>2. QED BY <3>1 DEF Languages
  <2>6. CASE Skip
    BY <2>3, <2>6 DEF Skip, At, NextFile, Kept
  <2>7. CASE ReadFails
    BY <2>3, <2>7 DEF ReadFails, At, Kept
  <2>8. CASE OpenSource \/ OpenContainer
    <3>1. parsers' \subseteq Languages'
      BY <2>2, <2>3, <2>4, <2>8 DEF OpenSource, OpenContainer
    <3>2. /\ step' = "parse" /\ pending' = Regions(files[at])
          /\ UNCHANGED <<files, at, unavailable, findings>> /\ step = "open"
      BY <2>8 DEF OpenSource, OpenContainer, Opened, At
    <3>3. QED BY <3>1, <3>2 DEF Kept
  <2>9. CASE ContainerUnloaded
    <3>1. step # "done" /\ Noted("vue", "provider") /\ parsers' \subseteq Languages'
      BY <2>3, <2>9 DEF ContainerUnloaded, Opened, At
    <3>2. QED BY <1>1, <3>1, NotedKept
  <2>10. CASE ContainerUnavailable
    <3>1. step # "done" /\ Load("vue")
      BY <2>10 DEF ContainerUnavailable, Opened, At
    <3>2. parsers' \subseteq Languages'
      BY <2>2, <2>4, <3>1
    <3>3. Noted("vue", "provider") \/ Noted("vue", "syntax")
      BY <2>10 DEF ContainerUnavailable
    <3>4. QED BY <1>1, <3>1, <3>2, <3>3, NotedKept
  <2>11. ASSUME NEW i \in pending, ParseRegion(i)
         PROVE  Kept'
    <3>1. AtRegion(i) /\ Load(files[at].scripts[i].language)
      BY <2>11 DEF ParseRegion
    <3>2. step = "parse" /\ parsers' \subseteq Languages'
      BY <2>2, <2>5, <3>1
    <3>3. QED BY <2>11, <3>2 DEF ParseRegion, Kept
  <2>12. ASSUME NEW i \in pending, RegionUnloaded(i)
         PROVE  Kept'
    <3>1. step # "done" /\ parsers' \subseteq Languages'
      BY <2>3, <2>5, <2>12 DEF RegionUnloaded
    <3>2. Noted(files[at].scripts[i].language, "provider")
      BY <2>12 DEF RegionUnloaded
    <3>3. QED BY <1>1, <3>1, <3>2, NotedKept
  <2>13. ASSUME NEW i \in pending, RegionUnavailable(i)
         PROVE  Kept'
    <3>1. AtRegion(i) /\ Load(files[at].scripts[i].language)
      BY <2>13 DEF RegionUnavailable
    <3>2. step # "done" /\ parsers' \subseteq Languages'
      BY <2>2, <2>5, <3>1
    <3>3. PICK kind \in {"syntax", "provider"} : kind = Outcome(files[at].scripts[i])
      BY <2>13 DEF RegionUnavailable, Outcome
    <3>4. Noted(files[at].scripts[i].language, kind)
      BY <2>13, <3>3 DEF RegionUnavailable
    <3>5. QED BY <1>1, <3>2, <3>4, NotedKept
  <2>14. CASE FinishFile
    BY <2>3, <2>14 DEF FinishFile, At, NextFile, Kept
  <2>15. CASE RunGuards
    BY <2>3, <2>15 DEF RunGuards, Kept
  <2>16. QED
    BY <1>3, <2>6, <2>7, <2>8, <2>9, <2>10, <2>11, <2>12, <2>13, <2>14, <2>15 DEF Next
<1>4. QED BY <1>2, <1>3

\* Whatever a guard measures is a number.
LEMMA MeasuredNat ==
    ASSUME IInv, NEW guard \in Guards, NEW key \in Batch("callables")
    PROVE  Measured(guard, key) \in Nat
<1>1. PICK r \in AnalysedRegions : \E c \in Callables(r) : key = Key(r, c)
  <2>1. "callables" \in DOMAIN NoFacts
    BY DEF NoFacts
  <2>2. PICK i \in DOMAIN facts : key \in facts[i].of["callables"]
    BY DEF Batch
  <2>3. PICK r \in RegionsOf(facts[i].file) : key \in ExtractFacts(r)["callables"]
    BY <2>1, <2>2 DEF IInv, WholeFiles, MeasuredWhole
  <2>4. r \in AnalysedRegions
    BY <2>2, <2>3 DEF AnalysedRegions
  <2>5. QED BY <2>3, <2>4 DEF ExtractFacts
<1> PICK c \in Callables(r) : key = Key(r, c)
  BY <1>1
<1>2. IsRegion(r) /\ c \in Nodes(r)
  BY RegionsTyped DEF Callables
<1>3. CASE guard = "callableSize"
  <2>1. PICK start \in Nodes(r), root \in Nodes(r) :
          /\ start = SourceStart(r, c) /\ root = StructuralRoot(r, c) /\ start <= root
    <3>1. Nodes(r) = 1..Len(r.tree) /\ Len(r.tree) \in Nat
      BY <1>2, TreeFacts DEF IsRegion, Nodes
    <3>2. SourceStart(r, c) \in 1..c /\ StructuralRoot(r, c) \in Nodes(r) /\ StructuralRoot(r, c) >= c
      BY <1>1, <1>2, RangeInOrder
    <3>3. PICK s, t : s = SourceStart(r, c) /\ t = StructuralRoot(r, c)
      OBVIOUS
    <3>4. s \in Nodes(r) /\ t \in Nodes(r) /\ s <= t
      BY <1>2, <3>1, <3>2, <3>3
    <3>5. QED BY <3>3, <3>4
  <2>2. PhysicalLoc(NodesRange(r, start, root)) \in Nat
    BY <1>2, <2>1, RangeLines
  <2>3. key.range = NodesRange(r, start, root)
    BY <1>1, <2>1 DEF Key, CallableRange
  <2>4. QED BY <1>3, <2>2, <2>3 DEF Measured
<1>4. CASE guard = "nesting"
  <2>1. Walking(r, c, MaximumDepth(ControlsOf(r, c)), {})
    BY <1>2, WalkEnds
  <2>2. MaximumDepth(ControlsOf(r, c)).maximum \in Nat
    <3>1. PICK walk : walk = MaximumDepth(ControlsOf(r, c))
      OBVIOUS
    <3>2. walk.maximum \in Nat
      BY <2>1, <3>1 DEF Walking
    <3>3. QED BY <3>1, <3>2
  <2>3. {x \in Batch("controls") : x.callable = key} = ControlsOf(r, c)
    BY <1>1, ChargedAre
  <2>4. QED BY <1>4, <2>2, <2>3 DEF Measured
<1>5. CASE guard = "complexity"
  <2>1. PICK root : root = StructuralRoot(r, c)
    OBVIOUS
  <2>2. IsFiniteSet(DecisionsOf(r, c))
    BY <1>2, <2>1, DecisionsCount
  <2>3. Cardinality(DecisionsOf(r, c)) \in Nat
    BY <2>2, FS_CardinalityType
  <2>4. {x \in Batch("decisions") : x.callable = key} = DecisionsOf(r, c)
    BY <1>1, ChargedAre
  <2>5. QED BY <1>5, <2>3, <2>4 DEF Measured
<1>6. QED BY <1>3, <1>4, <1>5 DEF Guards

LEMMA TypesFollow == IInv /\ Evaluated /\ Kept => TypeOK
<1> SUFFICES ASSUME IInv, Evaluated, Kept PROVE TypeOK
  OBVIOUS
<1>1. files \in Workloads /\ at \in 1..Len(files) + 1
  BY DEF IInv, Places
<1>2. MeasuredFiles \cup MissingFiles \subseteq 1..at - 1
  BY DEF IInv, WholeFiles, Accounted
<1>3. \A i \in DOMAIN facts : facts[i].file \in 1..at - 1
  BY <1>2 DEF MeasuredFiles
<1>4. \A i \in DOMAIN unavailable : unavailable[i].file \in 1..at - 1
  BY <1>2 DEF MissingFiles
<1>5. ASSUME NEW g \in Guards, NEW f \in findings[g]
      PROVE  f.measured \in Nat
  <2>1. step = "done"
    BY <1>5 DEF Kept
  <2>2. PICK key \in Batch("callables") : f = Evaluate(g, key)
    BY <1>5, <2>1 DEF Evaluated
  <2>3. f.measured = Measured(g, key)
    BY <2>2 DEF Evaluate
  <2>4. QED BY <2>3, MeasuredNat
<1>6. QED BY <1>1, <1>3, <1>4, <1>5 DEF TypeOK, Kept

---------------------------------------------------------------------------
(* The scanner's promises, and those of both together                      *)

\* The headings of a document are, level by level and line by line, those of the
\* documented outline, neither more nor fewer, and its fences follow one another,
\* each up to the line that closes it (_scan_headings() of markdown/scanner.py,
\* docs/markdown-guard-evidence.md).
THEOREM HeadingsAreExact == ScanSpec => []HeadingsExact
BY ScanInvariance, HeadingsFollow, PTL

\* Headings never overlap, every line from the first one on belongs to exactly
\* one section, and sections that all pass bound the document (the ranges of
\* markdown/scanner.py, guards/markdown_section_size.py).
THEOREM SectionsAccountForAll == ScanSpec => []SectionsAccount
BY ScanInvariance, SectionsFollow, PTL

LEMMA BothRun == MeasurementSpec => Spec /\ ScanSpec
<1>1. MeasurementInit => Init /\ ScanInit
  BY DEF MeasurementInit
<1>2. [MeasurementNext]_measurementVars => [Next]_vars /\ [ScanNext]_scanVars
  <2>1. CASE AnalyseSource
    BY <2>1 DEF AnalyseSource
  <2>2. CASE ScanDocument
    BY <2>2 DEF ScanDocument
  <2>3. CASE UNCHANGED measurementVars
    BY <2>3 DEF measurementVars
  <2>4. QED BY <2>1, <2>2, <2>3 DEF MeasurementNext
<1>3. QED BY <1>1, <1>2, PTL DEF MeasurementSpec, Spec, ScanSpec

\* Every variable of both keeps its type, and whatever is measured is a number
\* (run_analysis() of code_guard.py, evaluate() of the three guards).
THEOREM MeasurementTypes == MeasurementSpec => []MeasurementTypeOK
<1>1. Init => Evaluated /\ Kept
  BY DEF Init, Evaluated, Kept
<1>2. Spec => []TypeOK
  BY InitInv, NextInv, <1>1, EvaluatedInv, KeptInv, TypesFollow, PTL DEF Spec
<1>3. ScanInv => ScanTypeOK
  BY DEF ScanInv
<1>4. TypeOK /\ ScanTypeOK => MeasurementTypeOK
  BY DEF MeasurementTypeOK
<1>5. QED BY BothRun, <1>2, ScanInvariance, <1>3, <1>4, PTL

\* One invocation runs both, and neither disturbs what the other promises
\* (run_analysis() of code_guard.py).
THEOREM InvocationMeasures ==
    MeasurementSpec => [](/\ WholeFiles /\ DepthExact /\ ComplexityExact /\ LinesExact
                          /\ HeadingsExact /\ SectionsAccount)
BY BothRun, FilesAreWhole, DepthIsExact, ComplexityIsExact, LinesAreExact,
   HeadingsAreExact, SectionsAccountForAll, PTL
===============================================================================
