---------------------------- MODULE MarkdownScan ----------------------------
(***************************************************************************)
(* The Markdown scanner: scan_text() of markdown/scanner.py reads a        *)
(* document line by line and finds the headings that delimit its sections. *)
(*                                                                         *)
(* A line is what the scanner's patterns tell apart: blank, the number of  *)
(* leading #, an underline of = or -, a run of a fence marker and what     *)
(* follows it, an indentation of four or more, a block prefix (> - 1. <).  *)
(***************************************************************************)
EXTENDS Naturals, Sequences

CONSTANTS
    Lines,          \* the kinds of lines
    MaxLines        \* longest document (bound)

Features == [blank : BOOLEAN, hashes : Nat, under : {"none", "=", "-"},
             marker : {"none", "backtick", "tilde"}, run : Nat, info : {"none", "plain", "inline"},
             deep : BOOLEAN, prefix : BOOLEAN]

\* A line that begins with # underlines nothing.
ASSUME ScanAssumption ==
    /\ Lines \subseteq Features /\ MaxLines \in Nat
    /\ \A l \in Lines : l.under # "none" => l.hashes = 0

Documents == UNION {[1..n -> Lines] : n \in 0..MaxLines}
NoFence == 0
Reviews == {"pass", "review"}

VARIABLES
    lines,          \* the document
    number,         \* lines read so far
    fence,          \* the line that opened the fence the scan is in, or NoFence
    headings,       \* level, start and end line of every heading
    fenced,         \* history: the lines read as part of a fence
    opened          \* history: those of them that opened one

scanVars == <<lines, number, fence, headings, fenced, opened>>

---------------------------------------------------------------------------
(* The patterns                                                            *)

IsFence(l) == l.marker # "none" /\ l.run >= 3

\* A backtick in the info string of a backtick run is inline code.
Opens(l) == IsFence(l) /\ ~(l.marker = "backtick" /\ l.info = "inline")

\* Mutant: any run of the marker closes a fence.
ClosesAnyLength(l, opener) ==
    IsFence(l) /\ l.marker = opener.marker /\ l.info = "none"

Closes(l, opener) ==
    /\ IsFence(l) /\ l.marker = opener.marker /\ l.info = "none"
    /\ l.run >= opener.run

\* Mutant: any number of # makes a heading.
IsAtxDeep(l) == l.hashes > 0

IsAtx(l) == l.hashes \in 1..6

\* Mutant: quotes, list items and HTML become titles.
IsTitlePrefixed(l) == ~l.blank /\ ~l.deep /\ l.hashes \notin 1..6 /\ ~IsFence(l)

\* A line a setext underline can turn into a heading.
IsTitle(l) == ~l.blank /\ ~l.deep /\ l.hashes \notin 1..6 /\ ~IsFence(l) /\ ~l.prefix

\* Mutant: the underline takes the line before it, whatever it was part of.
SetextAnywhere(n) ==
    n >= 2 /\ lines[n].under # "none" /\ IsTitle(lines[n - 1])

\* The underline of a paragraph of one line that is no heading already.
IsSetext(n) ==
    /\ n >= 2 /\ lines[n].under # "none"
    /\ IsTitle(lines[n - 1])
    /\ n >= 3 => lines[n - 2].blank
    /\ \A i \in DOMAIN headings : headings[i].end # n - 1

---------------------------------------------------------------------------
(* _scan_headings()                                                        *)

Heading(level, start, end) == [level |-> level, start |-> start, end |-> end]

Reading(n) == number < Len(lines) /\ n = number + 1

ReadFenced(n) ==
    /\ Reading(n) /\ fence # NoFence
    /\ number' = n
    /\ fenced' = fenced \cup {n}
    /\ fence' = IF Closes(lines[n], lines[fence]) THEN NoFence ELSE fence
    /\ UNCHANGED <<lines, headings, opened>>

ReadOpening(n) ==
    /\ Reading(n) /\ fence = NoFence
    /\ Opens(lines[n])
    /\ number' = n
    /\ fenced' = fenced \cup {n}
    /\ opened' = opened \cup {n}
    /\ fence' = n
    /\ UNCHANGED <<lines, headings>>

ReadAtx(n) ==
    /\ Reading(n) /\ fence = NoFence
    /\ ~Opens(lines[n]) /\ IsAtx(lines[n])
    /\ number' = n
    /\ headings' = Append(headings, Heading(lines[n].hashes, n, n))
    /\ UNCHANGED <<lines, fence, fenced, opened>>

ReadOther(n) ==
    /\ Reading(n) /\ fence = NoFence
    /\ ~Opens(lines[n]) /\ ~IsAtx(lines[n])
    /\ number' = n
    /\ headings' = IF IsSetext(n)
                   THEN Append(headings, Heading(IF lines[n].under = "=" THEN 1 ELSE 2, n - 1, n))
                   ELSE headings
    /\ UNCHANGED <<lines, fence, fenced, opened>>

\* scan_text(): a section goes up to the next heading, of any level.
EndOfSection(i) ==
    IF i < Len(headings) THEN headings[i + 1].start - 1 ELSE Len(lines)

Sections ==
    [i \in DOMAIN headings |->
        [start |-> headings[i].start, end |-> EndOfSection(i),
         physicalLines |-> EndOfSection(i) - headings[i].start + 1]]

\* markdown_section_size.run()
SectionState(reviewAt) ==
    IF \E i \in DOMAIN Sections : Sections[i].physicalLines > reviewAt
    THEN "review" ELSE "pass"

---------------------------------------------------------------------------
ScanInit ==
    /\ lines \in Documents
    /\ number = 0
    /\ fence = NoFence
    /\ headings = <<>>
    /\ fenced = {}
    /\ opened = {}

ScanNext == \E n \in 1..MaxLines :
    ReadFenced(n) \/ ReadOpening(n) \/ ReadAtx(n) \/ ReadOther(n)

ScanSpec == ScanInit /\ [][ScanNext]_scanVars

---------------------------------------------------------------------------
(* Properties.                                                             *)

\* Every variable keeps its type (markdown/scanner.py, markdown/facts.py).
ScanTypeOK ==
    /\ lines \in Documents
    /\ number \in 0..Len(lines) /\ fence \in 0..number
    /\ headings \in Seq([level : 1..6, start : 1..number, end : 1..number])
    /\ fenced \subseteq 1..number /\ opened \subseteq 1..number

Scanned == number = Len(lines)

Outside == (1..number) \ fenced

\* An eligible title: the one line of a paragraph, neither indented by four nor
\* of a list, a quote or HTML, and no heading of its own.
Eligible(n) ==
    /\ n \in Outside /\ ~lines[n].blank /\ ~lines[n].deep /\ ~lines[n].prefix
    /\ lines[n].hashes \notin 1..6
    /\ lines[n].marker = "none" \/ lines[n].run < 3
    /\ n = 1 \/ lines[n - 1].blank

\* The top-level outline docs/markdown-guard-evidence.md bounds the scanner to
\* (lines 53-71): less than CommonMark, and said to be so there.
Outline ==
    {Heading(lines[n].hashes, n, n) : n \in {k \in Outside : lines[k].hashes \in 1..6}}
    \cup {Heading(IF lines[n].under = "=" THEN 1 ELSE 2, n - 1, n) :
             n \in {k \in Outside : lines[k].under # "none" /\ Eligible(k - 1)}}

\* From a line that opens a fence to the first that closes that very one, or to
\* the end
Fence(first, last) ==
    /\ first..last \subseteq fenced /\ (first..last) \cap opened = {first}
    /\ Opens(lines[first])
    /\ LET Ends(k) == /\ lines[k].marker = lines[first].marker
                      /\ lines[k].info = "none" /\ lines[k].run >= lines[first].run
       IN  /\ \A k \in first + 1..last - 1 : ~Ends(k)
           /\ last = number \/ (last > first /\ Ends(last))

\* The headings are those of the documented outline, each with its level and its
\* lines: none is missed, and none is made of a fence, a quote, a list, HTML, an
\* indented line or a longer paragraph.  Outside the fences no line opens one,
\* and the lines within are those of fences that follow one another.
HeadingsExact ==
    Scanned =>
        /\ \A n \in Outside : ~Opens(lines[n])
        /\ \A n \in fenced : \E first \in 1..n, last \in n..number : Fence(first, last)
        /\ {headings[i] : i \in DOMAIN headings} = Outline

\* Headings come in order and never overlap, so that an underline is not taken
\* for the title of the next; every line from the first heading on belongs to
\* exactly one section, so that a document whose sections all pass is no longer
\* than they may be together.
SectionsAccount ==
    Scanned =>
        /\ \A i, j \in DOMAIN headings :
              /\ headings[i].start <= headings[i].end
              /\ i < j => headings[i].end < headings[j].start
        /\ \A n \in 1..number :
              Len(headings) > 0 /\ n >= headings[1].start =>
                \E i \in DOMAIN Sections :
                    /\ n \in Sections[i].start..Sections[i].end
                    /\ \A j \in DOMAIN Sections \ {i} :
                          n \notin Sections[j].start..Sections[j].end
        /\ \A reviewAt \in 1..MaxLines :
              Len(headings) > 0 /\ SectionState(reviewAt) = "pass" =>
                number - headings[1].start + 1 <= reviewAt * Len(headings)
=============================================================================
