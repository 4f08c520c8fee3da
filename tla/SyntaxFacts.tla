---------------------------- MODULE SyntaxFacts ----------------------------
(***************************************************************************)
(* From a syntax tree to the facts the callable guards measure:            *)
(* extract_facts() of analysis/adapters.py with branch_normalization.py,   *)
(* callable_identity.py and the byte-to-line mapping of regions.py.        *)
(*                                                                         *)
(* A tree is the sequence of its named nodes in source order, each with    *)
(* its type, its parent (0 for the root) and what the adapters ask of it:  *)
(*   function    a named callable (declaration, method, constructor)       *)
(*   bodiless    a callable type without a body (overload, prototype)      *)
(*   signature   a Dart signature, whose body is its next sibling          *)
(*   closure     a lambda, arrow function or function literal              *)
(*   declaration what a closure can be assigned in; wrapper: a decorated   *)
(*               or template definition                                    *)
(*   if elif loop switch try do         the control types (a Swift guard   *)
(*                                      is a loop here: a control, a       *)
(*                                      branch, and never an else-if)      *)
(*   catch ternary arm clause           branches that are no controls      *)
(*   block body comment plain           the rest                           *)
(* Wrapper nodes without a role of their own (else_clause, switch_body,    *)
(* expression_statement) are merged with their child or parent.  A node    *)
(* starts with a token of its own: one byte, and one more up to the next,  *)
(* which can be a newline.                                                 *)
(***************************************************************************)
EXTENDS Naturals, Sequences, FiniteSets, SequencesExt

\* A region is what ExecutableRegion holds: the file, its language, its place
\* in the file, the file's newlines, and the tree the parser made of it.

CallableTypes == {"function", "bodiless", "signature", "closure"}
ControlTypes == {"if", "elif", "loop", "switch", "try", "do"}
BranchTypes == {"if", "elif", "loop", "catch", "ternary", "arm"}

\* Languages whose closures are always named by their position ...
Mainstream == {"python", "go", "kotlin", "csharp", "java"}
\* ... or only by a declaration whose value they are.
ValueOwners == {"javascript", "typescript", "php"}

\* Source order: a node comes after the one it belongs to, and what comes in
\* between belongs there too.
SourceOrder(tree) ==
    \A n \in DOMAIN tree :
        /\ tree[n].parent < n
        /\ \A m \in DOMAIN tree :
              tree[n].parent < m /\ m < n => tree[n].parent <= tree[m].parent

Nodes(r) == DOMAIN r.tree
Type(r, n) == r.tree[n].type
Parent(r, n) == r.tree[n].parent
Marked(r, n, mark) == mark \in r.tree[n].marks

Children(r, n) == {m \in Nodes(r) : Parent(r, m) = n}

Above(tree) ==
    LET above[n \in 0..Len(tree)] ==
            IF n = 0 THEN {} ELSE {tree[n].parent} \cup above[tree[n].parent]
    IN  [n \in DOMAIN tree |-> above[n] \ {0}]

Ancestors(r, n) == r.above[n]
Descendants(r, n) == {m \in Nodes(r) : n \in Ancestors(r, m)}
LastNode(r, n) == Max({n} \cup Descendants(r, n))

\* The innermost ancestor of the given types, 0 if there is none
Nearest(r, n, types) == Max({0} \cup {a \in Ancestors(r, n) : Type(r, a) \in types})

---------------------------------------------------------------------------
(* Bytes, points and ranges                                                *)

LineStarts(r) == {0} \cup {b + 1 : b \in r.newlines}

\* Mutant: bisect_left in place of bisect_right.
PointBefore(r, byte) ==
    LET row == {s \in LineStarts(r) : s < r.offset + byte \/ s = 0}
    IN  [line |-> Cardinality(row), column |-> r.offset + byte - Max(row) + 1,
         byte |-> r.offset + byte]

\* Mutant: the place of the region in its container is left out.
PointInRegion(r, byte) ==
    LET row == {s \in LineStarts(r) : s <= byte}
    IN  [line |-> Cardinality(row), column |-> byte - Max(row) + 1, byte |-> byte]

\* original_point_at_byte()
Point(r, byte) ==
    LET row == {s \in LineStarts(r) : s <= r.offset + byte}
    IN  [line |-> Cardinality(row), column |-> r.offset + byte - Max(row) + 1,
         byte |-> r.offset + byte]

\* A node ends with its last token, or (tail) with the gap after it.
StartByte(n) == 2 * (n - 1)
EndByte(r, n) == 2 * LastNode(r, n) - 1 + r.tail

NodesRange(r, first, last) ==
    [start |-> Point(r, StartByte(first)), end |-> Point(r, EndByte(r, last))]

StartLine(range) == range.start.line

EndLine(range) ==
    IF range.end.column > 1 THEN range.end.line ELSE Max({range.start.line, range.end.line - 1})

PhysicalLoc(range) == EndLine(range) - StartLine(range) + 1

---------------------------------------------------------------------------
(* Callables                                                               *)

DartBody(r, n) ==
    LET next == LastNode(r, n) + 1
    IN  IF /\ Type(r, n) = "signature" /\ next \in Nodes(r)
           /\ Parent(r, next) = Parent(r, n) /\ Type(r, next) = "body"
        THEN next ELSE 0

HasBody(r, n) ==
    CASE Type(r, n) = "bodiless" -> FALSE
      [] Type(r, n) = "signature" -> Nearest(r, n, {"closure"}) = 0 /\ DartBody(r, n) # 0
      [] OTHER -> TRUE

Callables(r) == {n \in Nodes(r) : Type(r, n) \in CallableTypes /\ HasBody(r, n)}

\* The node whose children are walked, which is also the one that ends it
StructuralRoot(r, n) == IF DartBody(r, n) # 0 THEN DartBody(r, n) ELSE n

\* The declaration that a closure is the value of
AssignedOwner(r, n) ==
    LET near == Nearest(r, n, CallableTypes \cup {"declaration"})
    IN  IF /\ Type(r, n) = "closure" /\ r.language \notin Mainstream
           /\ near # 0 /\ (near # 0 => Type(r, near) = "declaration")
           /\ r.language \in ValueOwners => near = Parent(r, n)
        THEN near ELSE 0

\* Where its range starts: the decorators or the assignment come with it.
SourceStart(r, n) ==
    IF Parent(r, n) # 0 /\ Type(r, Parent(r, n)) = "wrapper" THEN Parent(r, n)
    ELSE IF AssignedOwner(r, n) # 0 THEN AssignedOwner(r, n)
    ELSE n

CallableRange(r, n) == NodesRange(r, SourceStart(r, n), StructuralRoot(r, n))

Named(r, n) ==
    \/ Type(r, n) # "closure"
    \/ AssignedOwner(r, n) # 0
    \/ \E m \in Children(r, n) : Type(r, m) = "signature"

\* A name, or where the callback starts, and the callables around it: names
\* only, unless a lambda of a mainstream language is identified.
Identity(r, n) ==
    LET own(m) == IF Named(r, m) THEN <<"named">>
                  ELSE <<Point(r, StartByte(m)).line, Point(r, StartByte(m)).column>>
        owners == {a \in Ancestors(r, n) :
                      /\ Type(r, a) \in CallableTypes
                      /\ Named(r, a) \/ (Type(r, n) = "closure" /\ r.language \in Mainstream)}
    IN  <<own(n)>> \o [i \in 1..Cardinality(owners) |-> own(SetToSortSeq(owners, >)[i])]

Key(r, n) ==
    [path |-> r.path, language |-> r.language, identity |-> Identity(r, n),
     range |-> CallableRange(r, n)]

---------------------------------------------------------------------------
(* Controls                                                                *)

\* Only whether an if is the alternative of another; in Kotlin whether it is
\* directly either of its branches (see the README).
IsElseIf(r, n) ==
    /\ Type(r, n) = "if"
    /\ Parent(r, n) # 0
    /\ Type(r, Parent(r, n)) = "if"
    /\ Marked(r, n, "alternative") \/ r.language = "kotlin"

IsControl(r, n) ==
    /\ Type(r, n) \in ControlTypes
    /\ Type(r, n) = "do" => \E m \in Children(r, n) : Type(r, m) = "catch"

\* Mutant: an else-if is an if like any other.
IncreasesAlways(r, n) == IsControl(r, n) /\ Type(r, n) # "elif"

IncreasesNesting(r, n) == IsControl(r, n) /\ Type(r, n) # "elif" /\ ~IsElseIf(r, n)

\* The nodes from the root of a callable's walk down to this one
Path(r, root, n) == ({n} \cup Ancestors(r, n)) \ ({root} \cup Ancestors(r, root))

\* Mutant: the walk goes on into nested callables.
ReachedThrough(r, root) == Descendants(r, root)

\* _structural_facts() leaves nested callables out.
Reached(r, root) ==
    {n \in Descendants(r, root) : \A m \in Path(r, root, n) : Type(r, m) \notin CallableTypes}

\* parent_control: the innermost control around a node that adds a level
ControlAbove(r, root, n) ==
    Max({0} \cup {m \in Path(r, root, n) \ {n} : IncreasesNesting(r, m)})

NoRange == [start |-> 0]

NodeRange(r, n) == IF n = 0 THEN NoRange ELSE NodesRange(r, n, n)

\* ControlFlowFact
ControlFact(r, n, m) ==
    [callable |-> Key(r, n), range |-> NodeRange(r, m),
     parent |-> NodeRange(r, ControlAbove(r, StructuralRoot(r, n), m)),
     increases |-> IncreasesNesting(r, m)]

ControlNodes(r, n) == {m \in Reached(r, StructuralRoot(r, n)) : IsControl(r, m)}

ControlsOf(r, n) == {ControlFact(r, n, m) : m \in ControlNodes(r, n)}

---------------------------------------------------------------------------
(* Decisions                                                               *)

\* A branch whose text starts with "default", "else" or "_" is a default one:
\* one that merely looks so too.
IsDefaultBranch(r, n) ==
    /\ ~(r.language = "python" /\ Type(r, n) = "arm" /\ Marked(r, n, "guard"))
    /\ \/ Marked(r, n, "lookalike") /\ ~(r.language = "php" /\ Type(r, n) = "clause")
       \/ Marked(r, n, "default") /\ (Marked(r, n, "guard") => r.language = "swift")

\* Nodes in source order
Ascending(S) == [i \in 1..Cardinality(S) |-> CHOOSE n \in S : Cardinality({m \in S : m <= n}) = i]

\* The labels of a switch; in C++ also those within blocks and statements.
Clauses(r, n) ==
    LET own == IF r.language = "cpp"
               THEN {m \in Descendants(r, n) : Nearest(r, m, {"switch"}) = n}
               ELSE Children(r, n)
    IN  Ascending({m \in own : Type(r, m) = "clause"})

\* Something runs in a C++ block before the label that follows inside it.
ExecutableBefore(r, block, limit) ==
    \E m \in Descendants(r, block) :
        /\ m < limit /\ Type(r, m) \notin {"block", "clause", "comment"}
        /\ \A a \in Ancestors(r, m) \ Ancestors(r, block) : Type(r, a) = "block"

ClauseHasBody(r, clause, next) ==
    LET items == {m \in Children(r, clause) : Type(r, m) # "comment"}
        first == Min(items)
    IN  /\ items # {}
        /\ (/\ r.language = "cpp" /\ next \in Descendants(r, first)
            /\ Type(r, first) = "block") => ExecutableBefore(r, first, next)

LabelHasBody(r, clauses, i) ==
    ClauseHasBody(r, clauses[i], IF i < Len(clauses) THEN clauses[i + 1] ELSE 0)

\* Mutant: a label waiting for its body is not forgotten once it had one.
NextLabelForgetful(r, clauses, i, acc) ==
    LET case == ~IsDefaultBranch(r, clauses[i])
    IN  IF ~LabelHasBody(r, clauses, i)
        THEN [acc EXCEPT !.pending = IF case /\ @ = 0 THEN clauses[i] ELSE @]
        ELSE [acc EXCEPT !.arms = IF acc.pending # 0 THEN @ \cup {acc.pending}
                                  ELSE IF case THEN @ \cup {clauses[i]} ELSE @]

\* Labels without a body lead to the next one that has it; the first of them
\* that is not default stands for the arm.
NextLabel(r, clauses, i, acc) ==
    LET case == ~IsDefaultBranch(r, clauses[i])
    IN  IF ~LabelHasBody(r, clauses, i)
        THEN [acc EXCEPT !.pending = IF case /\ @ = 0 THEN clauses[i] ELSE @]
        ELSE [pending |-> 0,
              arms |-> acc.arms \cup (IF acc.pending # 0 THEN {acc.pending}
                                      ELSE IF case THEN {clauses[i]} ELSE {})]

\* _extra_switch_arm_ranges()
SwitchArms(r, n) ==
    LET clauses == Clauses(r, n)
        after[i \in 0..Len(clauses)] ==
            IF i = 0 THEN [pending |-> 0, arms |-> {}] ELSE NextLabel(r, clauses, i, after[i - 1])
    IN  after[Len(clauses)].arms

\* The nodes a node's decisions are charged at: itself, the arms of a switch,
\* and the condition that guards a pattern.
NormalizedDecisions(r, n) ==
    (IF Type(r, n) \in BranchTypes /\ ~IsDefaultBranch(r, n) THEN {<<"branch", n>>} ELSE {})
    \cup (IF Type(r, n) = "switch" THEN {"switch_arm"} \X SwitchArms(r, n) ELSE {})
    \cup (IF Type(r, n) = "arm" /\ Marked(r, n, "guard") THEN {<<"pattern_guard", n>>} ELSE {})

DecisionsOf(r, n) ==
    {[callable |-> Key(r, n), category |-> d[1], range |-> NodeRange(r, d[2])] :
        d \in UNION {NormalizedDecisions(r, m) : m \in Reached(r, StructuralRoot(r, n))}}

\* extract_facts()
ExtractFacts(r) ==
    [callables |-> {Key(r, n) : n \in Callables(r)},
     controls |-> UNION {ControlsOf(r, n) : n \in Callables(r)},
     decisions |-> UNION {DecisionsOf(r, n) : n \in Callables(r)}]

---------------------------------------------------------------------------
(* What the languages guarantee                                            *)

\* A Dart signature holds expressions only, but in a closure, and one with a body
\* of its own stands in nothing callable; an alternative is that of an if; a label
\* belongs to a switch of its callable, none is directly under another and
\* nothing under a label's comment; only arms and labels can be a default.
Grammatical(r) ==
    \A n \in Nodes(r) :
        /\ Type(r, n) \in (ControlTypes \cup BranchTypes) \ {"ternary"} =>
              Nearest(r, n, {"signature"}) <= Nearest(r, n, {"closure"})
        /\ Type(r, n) = "signature" /\ HasBody(r, n) =>
              Nearest(r, n, CallableTypes \cup {"body"}) = 0
        /\ Type(r, n) = "if" /\ Marked(r, n, "alternative") =>
              Parent(r, n) # 0 /\ Type(r, Parent(r, n)) = "if"
        /\ Type(r, n) = "clause" =>
              Nearest(r, n, CallableTypes) <= Nearest(r, n, {"switch"})
        /\ Parent(r, n) # 0 =>
              /\ Type(r, Parent(r, n)) = "comment" => Nearest(r, n, {"clause"}) = 0
              /\ Type(r, Parent(r, n)) = "clause" => Type(r, n) # "clause"
        /\ Marked(r, n, "default") => Type(r, n) \in {"arm", "clause"}
===========================================================================
