--------------------------- MODULE SourceAnalysis ---------------------------
(***************************************************************************)
(* Syntax analysis of the selected files and the three callable guards:    *)
(* analyze_files_for_runner() of analysis/pipeline.py with the parser      *)
(* provider, the regions of Vue containers and the correction of C# trees, *)
(* then run() of guards/callable_size.py, nesting.py and complexity.py.    *)
(*                                                                         *)
(* The parsers are Tree-sitter's: what they make of a source is given with *)
(* the file.                                                               *)
(***************************************************************************)
EXTENDS SyntaxFacts

CONSTANTS
    Workloads,      \* sequences of selected files
    Unreliable      \* languages whose parser may fail to load

Answers == {"clean", "errors", "crash"}

\* The text of a plain file or a script element of a Vue container
Scripts ==
    [language : STRING, offset : Nat, tail : {0, 1},
     tree : Seq([type : STRING, parent : Nat, marks : SUBSET STRING]),
     text : BOOLEAN,            \* it has text of its own
     external : BOOLEAN,        \* it has a src instead
     parse : Answers,           \* what its parser makes of it
     problems : SUBSET SUBSET Nat,  \* the tokens "async" in each problem of a C# tree,
     declared : SUBSET Nat,     \* those that are a declaration's identifier,
     retry : Answers,           \* what the parser makes of the corrected text,
     authorized : SUBSET Nat]   \* and the tokens whose role is approved there

Files ==
    [kind : {"plain", "vue", "other"}, readable : BOOLEAN,
     container : Answers,       \* what the parser of Vue containers makes of it
     newlines : SUBSET Nat, scripts : Seq(Scripts)]

VARIABLES
    files,          \* the selected files
    step,           \* what the analysis does next
    at,             \* the file it is at
    pending,        \* the regions of that file still to be parsed
    parsers,        \* TreeSitterProvider._parsers: languages loaded so far
    part,           \* the facts of that file's regions so far
    facts,          \* FileFacts of the files analysed in full
    unavailable,    \* UnavailableAnalysis of the others
    findings        \* what each guard found

progress == <<step, at, pending>>
vars == <<files, progress, parsers, part, facts, unavailable, findings>>

NoFacts == [callables |-> {}, controls |-> {}, decisions |-> {}]
Guards == {"callableSize", "nesting", "complexity"}

---------------------------------------------------------------------------
(* Regions                                                                 *)

Applicable(file) == file.kind # "other"

\* What keeps a Vue container from being divided into regions
Defective(file) ==
    /\ file.kind = "vue"
    /\ \/ file.container = "errors"
       \/ \E i \in DOMAIN file.scripts :
             file.scripts[i].external \/ file.scripts[i].language = "unsupported"

Regions(file) == {i \in DOMAIN file.scripts : file.scripts[i].text}

ExecutableRegion(path, file, script) ==
    [path |-> path, language |-> script.language, newlines |-> file.newlines,
     offset |-> script.offset, tree |-> script.tree, tail |-> script.tail,
     above |-> Above(script.tree)]

\* Scripts are finite, in source order, and do not overlap in their container.
ASSUME AnalysisAssumption ==
    /\ Workloads \subseteq Seq(Files)
    /\ \A w \in Workloads : \A i \in DOMAIN w : \A k \in DOMAIN w[i].scripts :
          LET script == w[i].scripts[k]
          IN  /\ \A p \in script.problems : IsFiniteSet(p)
              /\ SourceOrder(script.tree)
              /\ Grammatical(ExecutableRegion(i, w[i], script))
              /\ \A j \in Regions(w[i]) : j < k /\ k \in Regions(w[i]) =>
                    w[i].scripts[j].offset + 2 * Len(w[i].scripts[j].tree) <= script.offset

---------------------------------------------------------------------------
(* corrected_csharp_root()                                                 *)

\* The tokens spelled "async" that a problem contains; of several, those that
\* are no declaration's identifier.
Candidates(script, problem) ==
    IF Cardinality(problem) > 1 THEN problem \ script.declared ELSE problem

\* Mutant: any of several candidates will do.
CorrectableAny(script) ==
    /\ script.language = "csharp" /\ script.problems # {}
    /\ \A p \in script.problems : Candidates(script, p) # {}

Correctable(script) ==
    /\ script.language = "csharp" /\ script.problems # {}
    /\ \A p \in script.problems : Cardinality(Candidates(script, p)) = 1

Corrected(script) == UNION {Candidates(script, p) : p \in script.problems}

\* What becomes of a region once its parser is there: its tree, or the kind of
\* the exception.
Accepted(script) ==
    \/ script.parse = "clean"
    \/ /\ script.parse = "errors" /\ Correctable(script)
       /\ script.retry = "clean" /\ Corrected(script) \subseteq script.authorized

Crashed(script) ==
    \/ script.parse = "crash"
    \/ script.parse = "errors" /\ Correctable(script) /\ script.retry = "crash"

Outcome(script) ==
    IF Accepted(script) THEN "tree" ELSE IF Crashed(script) THEN "provider" ELSE "syntax"

---------------------------------------------------------------------------
(* analyze_files_for_runner()                                              *)

NextFile ==
    /\ at' = at + 1
    /\ pending' = {}
    /\ step' = "open"
    /\ part' = NoFacts

At(s) == step = s /\ at \in DOMAIN files

Skip ==
    /\ At("open") /\ ~Applicable(files[at])
    /\ NextFile
    /\ UNCHANGED <<files, parsers, facts, unavailable, findings>>

\* path.read_bytes() fails: nobody catches that here, the invocation ends.
ReadFails ==
    /\ At("open") /\ Applicable(files[at])
    /\ ~files[at].readable
    /\ step' = "aborted"
    /\ UNCHANGED <<files, at, pending, parsers, part, facts, unavailable, findings>>

\* provider.parse(): the parser is loaded once and kept.
Load(language) == parsers' = parsers \cup {language}
LoadFails(language) == language \in Unreliable \ parsers

Opened == At("open") /\ Applicable(files[at]) /\ files[at].readable

OpenSource ==
    /\ Opened /\ files[at].kind = "plain"
    /\ step' = "parse" /\ pending' = Regions(files[at])
    /\ UNCHANGED <<files, at, parsers, part, facts, unavailable, findings>>

OpenContainer ==
    /\ Opened /\ files[at].kind = "vue"
    /\ files[at].container # "crash" /\ ~Defective(files[at])
    /\ Load("vue")
    /\ step' = "parse" /\ pending' = Regions(files[at])
    /\ UNCHANGED <<files, at, part, facts, unavailable, findings>>

\* Mutant: facts go to the batch region by region.
NotedWithPart(language, kind) ==
    /\ unavailable' = Append(unavailable, [file |-> at, language |-> language, kind |-> kind])
    /\ facts' = IF part.callables = {} THEN facts ELSE Append(facts, [file |-> at, of |-> part])
    /\ NextFile
    /\ UNCHANGED <<files, findings>>

\* The exception leaves _analyze_file(), and what it had extracted is lost.
Noted(language, kind) ==
    /\ unavailable' = Append(unavailable, [file |-> at, language |-> language, kind |-> kind])
    /\ NextFile
    /\ UNCHANGED <<files, facts, findings>>

ContainerUnloaded ==
    /\ Opened /\ files[at].kind = "vue"
    /\ LoadFails("vue")
    /\ Noted("vue", "provider")
    /\ UNCHANGED parsers

ContainerUnavailable ==
    /\ Opened /\ files[at].kind = "vue"
    /\ \/ files[at].container = "crash" /\ Noted("vue", "provider")
       \/ files[at].container # "crash" /\ Defective(files[at]) /\ Noted("vue", "syntax")
    /\ Load("vue")

AtRegion(i) == At("parse") /\ i \in pending /\ \A j \in pending : i <= j

With(new) == [k \in DOMAIN part |-> part[k] \cup new[k]]

\* Mutant: a parser is made anew for every region.
ParseUncached(i) ==
    LET script == files[at].scripts[i]
    IN  /\ AtRegion(i) /\ Outcome(script) = "tree"
        /\ part' = With(ExtractFacts(ExecutableRegion(at, files[at], script)))
        /\ pending' = pending \ {i}
        /\ UNCHANGED <<files, step, at, parsers, facts, unavailable, findings>>

ParseRegion(i) ==
    LET script == files[at].scripts[i]
    IN  /\ AtRegion(i) /\ Outcome(script) = "tree"
        /\ Load(script.language)
        /\ part' = With(ExtractFacts(ExecutableRegion(at, files[at], script)))
        /\ pending' = pending \ {i}
        /\ UNCHANGED <<files, step, at, facts, unavailable, findings>>

RegionUnloaded(i) ==
    LET language == files[at].scripts[i].language
    IN  /\ AtRegion(i) /\ LoadFails(language)
        /\ Noted(language, "provider")
        /\ UNCHANGED parsers

RegionUnavailable(i) ==
    LET script == files[at].scripts[i]
    IN  /\ AtRegion(i) /\ Outcome(script) # "tree"
        /\ Noted(script.language, Outcome(script))
        /\ Load(script.language)

FinishFile ==
    /\ At("parse") /\ pending = {}
    /\ facts' = Append(facts, [file |-> at, of |-> part])
    /\ NextFile
    /\ UNCHANGED <<files, parsers, unavailable, findings>>

---------------------------------------------------------------------------
(* The guards                                                              *)

Batch(kind) == UNION {facts[i].of[kind] : i \in DOMAIN facts}

\* The order of sorted(): by the first byte, then by the last
Earlier(a, b) ==
    \/ a.range.start.byte < b.range.start.byte
    \/ a.range.start.byte = b.range.start.byte /\ a.range.end.byte <= b.range.end.byte

Earliest(controls) == CHOOSE c \in controls : \A d \in controls : Earlier(c, d)

Unvisited(controls) == [left |-> controls, depths |-> [r \in {} |-> 0], maximum |-> 0, line |-> 0]

\* One iteration of _maximum_depth()
Visit(acc) ==
    LET c == Earliest(acc.left)
        under == IF c.parent \in DOMAIN acc.depths THEN acc.depths[c.parent] ELSE 0
        depth == under + (IF c.increases THEN 1 ELSE 0)
    IN  [left |-> acc.left \ {c},
         depths |-> [r \in DOMAIN acc.depths \cup {c.range} |->
                        IF r = c.range THEN depth ELSE acc.depths[r]],
         maximum |-> IF depth > acc.maximum THEN depth ELSE acc.maximum,
         line |-> IF depth > acc.maximum THEN StartLine(c.range) ELSE acc.line]

\* _maximum_depth(): [maximum, line] over the controls in source order
MaximumDepth(controls) ==
    LET after[i \in 0..Cardinality(controls)] ==
            IF i = 0 THEN Unvisited(controls) ELSE Visit(after[i - 1])
    IN  after[Cardinality(controls)]

Measured(guard, key) ==
    CASE guard = "callableSize" -> PhysicalLoc(key.range)
      [] guard = "nesting" -> MaximumDepth({c \in Batch("controls") : c.callable = key}).maximum
      [] guard = "complexity" -> 1 + Cardinality({d \in Batch("decisions") : d.callable = key})

DeepestLine(guard, key) ==
    IF guard = "nesting" THEN MaximumDepth({c \in Batch("controls") : c.callable = key}).line ELSE 0

Evaluate(guard, key) ==
    [callable |-> key, startLine |-> StartLine(key.range), endLine |-> EndLine(key.range),
     measured |-> Measured(guard, key), line |-> DeepestLine(guard, key)]

\* One after the other, on facts that no longer change
RunGuards ==
    /\ step = "open" /\ at \notin DOMAIN files
    /\ findings' = [g \in Guards |-> {Evaluate(g, key) : key \in Batch("callables")}]
    /\ step' = "done"
    /\ UNCHANGED <<files, at, pending, parsers, part, facts, unavailable>>

---------------------------------------------------------------------------
Init ==
    /\ files \in Workloads
    /\ step = "open" /\ at = 1 /\ pending = {}
    /\ parsers = {}
    /\ part = NoFacts
    /\ facts = <<>>
    /\ unavailable = <<>>
    /\ findings = [g \in Guards |-> {}]

Next ==
    \/ Skip \/ ReadFails
    \/ OpenSource \/ OpenContainer \/ ContainerUnloaded \/ ContainerUnavailable
    \/ \E i \in pending : ParseRegion(i) \/ RegionUnloaded(i) \/ RegionUnavailable(i)
    \/ FinishFile
    \/ RunGuards

Spec == Init /\ [][Next]_vars

---------------------------------------------------------------------------
(* Properties.                                                             *)

\* The languages that something of the files is parsed as
Languages ==
    {"vue"} \cup UNION {{files[i].scripts[j].language : j \in Regions(files[i])} : i \in DOMAIN files}

\* Every variable keeps its type (analysis/pipeline.py, analysis/facts.py).
TypeOK ==
    /\ files \in Workloads
    /\ step \in {"open", "parse", "aborted", "done"}
    /\ at \in 1..Len(files) + 1
    /\ pending \subseteq (IF step = "parse" THEN Regions(files[at]) ELSE {})
    /\ parsers \subseteq Languages
    /\ \A i \in DOMAIN facts : facts[i].file \in 1..at - 1
    /\ \A i \in DOMAIN unavailable :
          /\ unavailable[i].file \in 1..at - 1
          /\ unavailable[i].kind \in {"syntax", "provider"}
    /\ \A g \in Guards : \A f \in findings[g] : f.measured \in Nat

RegionsOf(i) ==
    {ExecutableRegion(i, files[i], files[i].scripts[j]) : j \in Regions(files[i])}

AnalysedRegions == UNION {RegionsOf(facts[i].file) : i \in DOMAIN facts}

MeasuredFiles == {facts[i].file : i \in DOMAIN facts}
MissingFiles == {unavailable[i].file : i \in DOMAIN unavailable}

\* Every applicable file so far is measured or reported unavailable, once.
Accounted ==
    /\ MeasuredFiles \cap MissingFiles = {}
    /\ MeasuredFiles \cup MissingFiles = {i \in 1..at - 1 : Applicable(files[i])}
    /\ \A i, j \in DOMAIN facts : facts[i].file = facts[j].file => i = j
    /\ \A i, j \in DOMAIN unavailable : unavailable[i].file = unavailable[j].file => i = j

\* A tree without a problem: of the text as it is, or of one in which a token
\* of every problem was replaced, the only one it can be.
Sound(script) ==
    \/ script.parse = "clean"
    \/ /\ script.language = "csharp"
       /\ script.retry = "clean" /\ script.problems # {}
       /\ \A p \in script.problems : \E token \in p :
             /\ token \in script.authorized
             /\ p # {token} => p \ script.declared = {token}

\* What is measured of a file are the facts of all its regions.
MeasuredWhole ==
    \A i \in DOMAIN facts :
        LET file == files[facts[i].file]
        IN  /\ ~Defective(file)
            /\ \A j \in Regions(file) : Sound(file.scripts[j])
            /\ \A k \in DOMAIN NoFacts :
                  facts[i].of[k] = UNION {ExtractFacts(r)[k] : r \in RegionsOf(facts[i].file)}

\* The parser a file was given up for could not be had: it did not load, which
\* it may only do before it has served another file, or it crashed on this one.
ProviderMissing(u) ==
    \/ files[u.file].container = "crash"
    \/ \E j \in Regions(files[u.file]) :
          "crash" \in {files[u.file].scripts[j].parse, files[u.file].scripts[j].retry}
    \/ /\ u.language \in Unreliable
       /\ \A i \in DOMAIN facts : facts[i].file < u.file =>
             \A r \in RegionsOf(facts[i].file) : r.language # u.language

\* A file is given up for a reason of its own.
OwnReason(u) ==
    IF u.kind = "provider" THEN ProviderMissing(u)
    ELSE \/ Defective(files[u.file])
         \/ \E j \in Regions(files[u.file]) : files[u.file].scripts[j].parse = "errors"

MissingForCause == \A i \in DOMAIN unavailable : OwnReason(unavailable[i])

\* What one file's analysis comes to is its own affair and all or nothing: every
\* applicable file up to the current one is either measured with all facts of
\* all its regions, in trees without a problem left, or reported unavailable
\* for a reason of its own, and nothing of it is measured (_analyze_file(),
\* analyze_files_for_runner()).
WholeFiles == Accounted /\ MeasuredWhole /\ MissingForCause

\* The callable a node belongs to: the innermost that has it, or whose body does.
Home(r, n) ==
    Max({0} \cup {c \in Nodes(r) :
            /\ Type(r, c) \in CallableTypes
            /\ n \in Descendants(r, c) \cup Descendants(r, StructuralRoot(r, c))
            /\ Type(r, c) = "signature" => HasBody(r, c)})

Own(r, c) == {n \in Nodes(r) : Home(r, n) = c}

FindingsFor(guard, r, c) == {f \in findings[guard] : f.callable = Key(r, c)}

Line(r, byte) == 1 + Cardinality({b \in r.newlines : b < r.offset + byte})

\* A level of nesting: a control that is not the else branch of an if.
Level(r, n) ==
    /\ Type(r, n) \in ControlTypes \ {"elif"}
    /\ ~(Marked(r, n, "alternative") /\ Type(r, n) = "if")
    /\ Type(r, n) = "do" => \E m \in Children(r, n) : Type(r, m) = "catch"

Depth(r, c, n) == Cardinality({a \in {n} \cup Ancestors(r, n) : a \in Own(r, c) /\ Level(r, a)})

\* Kotlin's braceless `if (a) if (b) ...`, which IsElseIf takes for an else-if
Braceless(r, n) ==
    /\ r.language = "kotlin" /\ Type(r, n) = "if" /\ ~Marked(r, n, "alternative")
    /\ Parent(r, n) # 0 /\ Type(r, Parent(r, n)) = "if"

\* The depth a callable is charged is the largest number of its own controls
\* around one point, and the line reported is where the first so deep begins:
\* neither a nested callable's controls, nor an else-if, nor a control of another
\* callable, region or file adds to it (docs/analyzer-feasibility.md, nesting).
DepthExact ==
    step = "done" =>
        \A r \in AnalysedRegions : \A c \in Callables(r) :
            (\A n \in Own(r, c) : ~Braceless(r, n)) =>
                LET deepest == Max({0} \cup {Depth(r, c, n) : n \in Own(r, c)})
                    there == {n \in Own(r, c) : Level(r, n) /\ Depth(r, c, n) = deepest}
                IN  \E f \in FindingsFor("nesting", r, c) :
                        /\ f.measured = deepest
                        /\ f.line = IF deepest = 0 THEN 0 ELSE Line(r, StartByte(Min(there)))

\* Something runs between a label and the next, or the end of what it heads: a
\* statement, or a block of its own, even an empty one.
Runs(r, labels, i) ==
    \E m \in Descendants(r, labels[i]) :
        /\ i < Len(labels) => m < labels[i + 1]
        /\ \/ Type(r, m) \notin {"comment", "clause", "block"}
           \/ /\ Type(r, m) = "block" /\ Parent(r, m) = labels[i]
              /\ i < Len(labels) => LastNode(r, m) < labels[i + 1]

Default(r, n) == Marked(r, n, "default") /\ ~Marked(r, n, "guard")

\* The bodies of a switch that a label other than default leads to.
Bodies(r, n) ==
    LET labels == Clauses(r, n)
    IN  {i \in DOMAIN labels :
            /\ Runs(r, labels, i)
            /\ \E j \in 1..i : /\ ~Default(r, labels[j])
                               /\ \A k \in j..i - 1 : ~Runs(r, labels, k)}

\* Text that starts like a default branch's without being one, and Swift's
\* guarded wildcard, which is taken for an unguarded one
Misread(r, n) ==
    \/ Marked(r, n, "lookalike")
    \/ r.language = "swift" /\ Marked(r, n, "default") /\ Marked(r, n, "guard")

\* A conditional in a Dart signature, as in the default of a parameter: the walk
\* of a callable is that of its body.
Unwalked(r, n) ==
    Type(r, n) = "ternary" /\ Nearest(r, n, {"signature"}) > Nearest(r, n, {"closure"})

\* A callable's complexity is one more than the branches its own code can take:
\* conditions, loops, handlers, arms that are not default, guards, and as many
\* of a switch as bodies are reached by a label other than default, however
\* its labels are grouped, fall through or are nested.
ComplexityExact ==
    step = "done" =>
        \A r \in AnalysedRegions : \A c \in Callables(r) :
            (\A n \in Own(r, c) : ~Misread(r, n) /\ ~Unwalked(r, n)) =>
                LET own == Own(r, c)
                    branches == {n \in own : Type(r, n) \in BranchTypes \ {"arm"}}
                    arms == {n \in own : Type(r, n) = "arm" /\ ~Default(r, n)}
                    guarded == {n \in own : Type(r, n) = "arm" /\ Marked(r, n, "guard")}
                    bodies == UNION {{n} \X Bodies(r, n) : n \in {m \in own : Type(r, m) = "switch"}}
                IN  \E f \in FindingsFor("complexity", r, c) :
                        f.measured = 1 + Cardinality(branches) + Cardinality(arms)
                                       + Cardinality(guarded) + Cardinality(bodies)

\* The lines reported for a callable are those of its first and last bytes in
\* the file it stands in, whatever container its region was cut out of and
\* whether its last byte ends the line, and its size is theirs.
LinesExact ==
    step = "done" =>
        \A r \in AnalysedRegions : \A c \in Callables(r) :
            LET first == Line(r, StartByte(SourceStart(r, c)))
                last == Line(r, EndByte(r, StructuralRoot(r, c)) - 1)
            IN  \E f \in FindingsFor("callableSize", r, c) :
                    f.startLine = first /\ f.endLine = last /\ f.measured = last - first + 1
=============================================================================
