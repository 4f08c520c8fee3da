--------------------------- MODULE MCMeasurement ---------------------------
(***************************************************************************)
(* Trees, layouts and workloads for SourceAnalysis, and the lines          *)
(* MarkdownScan tells apart.  An invocation here has source files or a     *)
(* document, not both: what it finds in one does not depend on the other.  *)
(***************************************************************************)
EXTENDS Measurement

Node(type, parent, marks) == [type |-> type, parent |-> parent, marks |-> marks]
Kind(type) == [type |-> type, marks |-> {}]
Mark(type, mark) == [type |-> type, marks |-> {mark}]

\* What a node may be directly under
Above1(type) ==
    CASE type = "elif" -> {"if"}
      [] type = "catch" -> {"try", "do"}
      [] type = "arm" -> {"switch"}
      [] type = "clause" -> {"switch", "block"}
      [] type = "signature" -> {"plain", "closure"}
      [] OTHER -> {}

LastChild(tree, p) == Max({0} \cup {n \in DOMAIN tree : tree[n].parent = p})

Fits(tree, p, kind) ==
    /\ Above1(kind.type) # {} => tree[p].type \in Above1(kind.type)
    /\ kind.type = "clause" => \E a \in {p} \cup Above(tree)[p] : tree[a].type = "switch"
    /\ "alternative" \in kind.marks => tree[p].type = "if"
    /\ LET last == LastChild(tree, p)
       IN  /\ last # 0 => "alternative" \notin tree[last].marks
           /\ kind.type = "body" => last # 0 /\ (last # 0 => tree[last].type = "signature")
    /\ tree[p].type \notin {"comment", "bodiless"}
    /\ tree[p].type = "signature" => kind.type = "ternary"
    /\ tree[p].type = "ternary" => kind.type \in {"ternary", "closure"}
    /\ tree[p].type = "switch" => kind.type \in {"arm", "clause", "closure", "comment", "block"}

\* The trees that begin with stem and have up to size nodes, of the kinds given
Grown(stem, size, kinds) ==
    LET next(t) ==
            UNION {{Append(t, Node(kd.type, p, kd.marks)) : kd \in {x \in kinds : Fits(t, p, x)}} :
                      p \in {Len(t)} \cup Above(t)[Len(t)]}
        grow[k \in Len(stem)..size] ==
            IF k = Len(stem) THEN {stem} ELSE UNION {next(t) : t \in grow[k - 1]}
    IN  UNION {grow[k] : k \in Len(stem)..size}

Fun == <<Node("function", 0, {})>>
Switch == Append(Fun, Node("switch", 1, {}))

---------------------------------------------------------------------------
(* Scripts and files                                                       *)

Clean == [language |-> "java", offset |-> 0, tree |-> Fun, tail |-> 0, text |-> TRUE,
          external |-> FALSE, parse |-> "clean", problems |-> {}, declared |-> {},
          retry |-> "clean", authorized |-> {}]

Source(script, newlines) ==
    [kind |-> "plain", readable |-> TRUE, container |-> "clean", newlines |-> newlines,
     scripts |-> <<script>>]

Gaps(script) == {script.offset + 2 * n - 1 : n \in DOMAIN script.tree}

\* One file of the language with the tree, every token on a line of its own
OneFile(language, trees) ==
    {LET s == [Clean EXCEPT !.language = language, !.tree = t]
     IN  <<Source(s, Gaps(s))>> : t \in trees}

Controls == OneFile("java", Grown(Fun, 5,
    {Kind("closure"), Kind("if"), Mark("if", "alternative"), Kind("loop"), Kind("ternary")}))
Kotlin == OneFile("kotlin", Grown(Fun, 4,
    {Kind("function"), Kind("if"), Mark("if", "alternative"), Kind("block")}))
Swift == OneFile("swift", Grown(Fun, 4,
    {Kind("do"), Kind("try"), Kind("catch"), Kind("switch"), Kind("arm"), Mark("arm", "default"),
     Mark("arm", "guard"), [type |-> "arm", marks |-> {"default", "guard"}]}))
Python == OneFile("python", Grown(Fun, 4,
    {Kind("if"), Kind("elif"), Kind("switch"), Mark("arm", "default"), Mark("arm", "lookalike"),
     [type |-> "arm", marks |-> {"default", "guard"}], Mark("ternary", "lookalike")}))
Dart == OneFile("dart", Grown(<<Node("plain", 0, {})>>, 6,
    {Kind("signature"), Kind("body"), Kind("closure"), Kind("if")}))
Defaults == OneFile("dart", Grown(<<Node("plain", 0, {})>>, 5,
    {Kind("signature"), Kind("body"), Kind("closure"), Kind("ternary")}))
Labels == OneFile("cpp", Grown(Switch, 6,
    {Kind("clause"), Mark("clause", "default"), Kind("block"), Kind("plain"), Kind("comment")}))

\* Rows of up to four labels, each with what follows it
Rows == UNION {[1..k -> [label : {{}, {"default"}}, then : {"nothing", "comment", "plain"}]] : k \in 1..4}

RowTree(row) ==
    FoldLeft(LAMBDA tree, label :
                LET headed == Append(tree, Node("clause", 2, label.label))
                IN  IF label.then = "nothing" THEN headed
                    ELSE Append(headed, Node(label.then, Len(headed), {})),
             Switch, row)

LabelRows == OneFile("php", {RowTree(row) : row \in
    {x \in Rows : Cardinality({i \in DOMAIN x : x[i].label # {}}) <= 1}})

Owners == {Kind("declaration"), Kind("wrapper"), Kind("function"), Kind("closure")}

Closures == UNION {OneFile(language, Grown(<<Node("plain", 0, {})>>, 4, Owners)) :
                      language \in {"cpp", "typescript", "python"}}

Layouts == UNION {UNION {
    {<<Source(s, lf)>> : lf \in SUBSET Gaps(s)} :
        s \in {[Clean EXCEPT !.language = language, !.tree = t, !.tail = tail] :
                  t \in Grown(<<Node("plain", 0, {})>>, 3, Owners), tail \in {0, 1}}} :
                      language \in {"cpp", "typescript", "python"}}

---------------------------------------------------------------------------
(* Vue containers                                                          *)

Vue(scripts, newlines) ==
    [kind |-> "vue", readable |-> TRUE, container |-> "clean", newlines |-> newlines, scripts |-> scripts]

Js(tree) == [Clean EXCEPT !.language = "javascript", !.offset = 3, !.tree = tree]
Ts(tree) == [Clean EXCEPT !.language = "typescript", !.offset = 14, !.tree = tree, !.tail = 1]

Small == Grown(Fun, 3, {Kind("closure"), Kind("if")})

Containers ==
    {<<Vue(<<Js(t), Ts(u)>>, lf)>> :
        t \in Small, u \in Small, lf \in {x \cup y : x \in SUBSET {1, 2, 4}, y \in SUBSET {12, 15, 17}}}

---------------------------------------------------------------------------
(* What can go wrong with a file                                           *)

Sharp == [Clean EXCEPT !.language = "csharp", !.parse = "errors"]

SharpScripts ==
    {[Sharp EXCEPT !.problems = {{1}}, !.authorized = {1}],
     [Sharp EXCEPT !.problems = {{1}}],
     [Sharp EXCEPT !.problems = {{1, 2}}, !.authorized = {1, 2}],
     [Sharp EXCEPT !.problems = {{1, 2}}, !.declared = {1}, !.authorized = {2}],
     [Sharp EXCEPT !.problems = {{1}, {2}}, !.declared = {1}, !.authorized = {1, 2}],
     [Sharp EXCEPT !.problems = {{1}}, !.authorized = {1}, !.retry = "errors"],
     [Sharp EXCEPT !.problems = {{1}}, !.authorized = {1}, !.retry = "crash"],
     Sharp, [Sharp EXCEPT !.parse = "clean"]}

Body == <<Node("function", 0, {}), Node("if", 1, {})>>

Variants ==
    {Source(s, {1}) : s \in SharpScripts \cup {[Clean EXCEPT !.tree = Body],
        [Clean EXCEPT !.parse = "errors"], [Clean EXCEPT !.parse = "crash"]}}
    \cup {[Source(Clean, {}) EXCEPT !.kind = "other"], [Source(Clean, {}) EXCEPT !.readable = FALSE]}
    \cup {Vue(<<Js(Body), Ts(Body)>>, {}),
          Vue(<<Js(Body), [Ts(Body) EXCEPT !.parse = "errors"]>>, {}),
          Vue(<<Js(Body), [Ts(Body) EXCEPT !.parse = "crash"]>>, {}),
          Vue(<<[Js(Body) EXCEPT !.text = FALSE], Ts(Body)>>, {}),
          Vue(<<Js(Body), [Ts(Body) EXCEPT !.external = TRUE, !.text = FALSE]>>, {}),
          Vue(<<[Js(Body) EXCEPT !.language = "unsupported"]>>, {}),
          Vue(<<>>, {}),
          [Vue(<<Js(Body)>>, {}) EXCEPT !.container = "errors"],
          [Vue(<<Js(Body)>>, {}) EXCEPT !.container = "crash"]}

Sequences2 == UNION {[1..k -> Variants] : k \in 0..2}

All == UNION {Controls, Kotlin, Swift, Python, Dart, Defaults, Labels, LabelRows, Closures, Layouts,
              Containers, Sequences2}

---------------------------------------------------------------------------
(* Lines of a document                                                     *)

Text == [blank |-> FALSE, hashes |-> 0, under |-> "none", marker |-> "none", run |-> 0,
         info |-> "none", deep |-> FALSE, prefix |-> FALSE]

FenceLine(marker, run, info) == [Text EXCEPT !.marker = marker, !.run = run, !.info = info]

Kinds == {Text, [Text EXCEPT !.blank = TRUE], [Text EXCEPT !.prefix = TRUE], [Text EXCEPT !.deep = TRUE],
          [Text EXCEPT !.hashes = 2], [Text EXCEPT !.hashes = 7],
          [Text EXCEPT !.under = "="], [Text EXCEPT !.under = "-"],
          FenceLine("backtick", 3, "none"), FenceLine("backtick", 4, "none"), FenceLine("backtick", 3, "plain"),
          FenceLine("backtick", 3, "inline"), FenceLine("tilde", 3, "none")}

MCInit ==
    \/ lines = <<>> /\ MeasurementInit
    \/ files = <<>> /\ MeasurementInit
MCSpec == MCInit /\ [][MeasurementNext]_measurementVars
===========================================================================
