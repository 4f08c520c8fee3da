---------------------------- MODULE CommandLine ----------------------------
(***************************************************************************)
(* How main() of code_guard.py decides what one invocation does: baseline  *)
(* writes, then doctor, then --version, then the skill options, and last   *)
(* the analysis.  Doctor and --export-skill are modelled through; what the *)
(* baseline writes and the analysis do is the subject of other modules.    *)
(*                                                                         *)
(* "loc" stands for the LOC options (--warn, --fail, --include, --exclude, *)
(* --count-blank-lines, --ignore-comment-lines), "git" for the options     *)
(* that select files by Git.                                               *)
(***************************************************************************)
EXTENDS SkillExport, Integers

CONSTANTS
    Me,             \* this invocation, one of the exporters
    MaxOptions      \* options given at once (bound)

LocWrites == {"createLoc", "updateLoc"}
MarkdownWrites == {"createMarkdown", "updateMarkdown"}
CallableWrites == {"accept", "updateCallable"}
Writes == LocWrites \cup MarkdownWrites \cup CallableWrites

\* What a baseline write refuses, and what doctor, --version and the skill
\* options refuse besides their own.
Reporting == {"json", "jsonMode", "ci"}
Modes == {"version", "git", "skillPath", "exportSkill"}
Shared == {"config", "loc", "scopeExclude", "jsonMode", "ci", "git"}

Options == Writes \cup Reporting \cup Modes \cup {"config", "loc", "scopeExclude",
                                                 "reason", "prune", "help"}

\* Positional paths: none, `doctor` alone or with others as the first token, a
\* first path `doctor` after an option, one file, or others.
Paths == {"none", "doctor", "doctor and more", "later doctor", "file", "others"}
FirstToken == {"doctor", "doctor and more"}
DoctorPaths == FirstToken \cup {"later doctor"}

\* What can be wrong with the installation besides the package itself.
Faults == {"workingDirectory", "python", "launcher", "configuration", "git", "providers"}
Checks == <<"distribution", "python", "entryPoint", "skill", "configuration", "git",
            "providers">>

ASSUME CommandAssumption == Me \in Exporters /\ MaxOptions \in Nat

VARIABLES
    given,          \* the options
    paths,          \* the positional paths
    faults,         \* what is wrong with the installation
    phase,          \* the mode considered next, or "end"
    did,            \* the mode that ran, or "error"
    found,          \* doctor: the version the distribution check found
    report,         \* doctor: the status of every section so far
    returned,       \* the exit code, -1 before
    moved           \* history: the package changed since doctor began

commandVars == <<given, paths, faults, phase, did, found, report, returned, moved>>
mainVars == <<exportVars, commandVars>>

Consider(mode) ==
    /\ phase' = mode
    /\ UNCHANGED <<exportVars, given, paths, faults, did, found, report, returned, moved>>

End(mode, code) ==
    /\ phase' = "end" /\ did' = mode /\ returned' = code
    /\ UNCHANGED <<exportVars, given, paths, faults, found, report, moved>>

\* A ValueError: one message, exit 3.
Refuse == End("error", 3)

\* --help ends the parsing of the arguments, whatever comes with it; only
\* --version is looked for before.
ParseArguments ==
    /\ phase = "parse"
    /\ \/ /\ "help" \in given
          /\ IF "version" \in given THEN Refuse ELSE End("help", 0)
       \/ /\ "help" \notin given
          /\ IF "jsonMode" \in given /\ "json" \notin given
             THEN Refuse ELSE Consider("baseline")

---------------------------------------------------------------------------
(* _baseline_mode, _callable_baseline_mode                                 *)

Unattached ==
    \/ "reason" \in given /\ "accept" \notin given
    \/ "prune" \in given /\ "updateCallable" \notin given

NotForWriting ==
    \/ Cardinality(given \cap Writes) # 1
    \/ given \cap (MarkdownWrites \cup CallableWrites) # {} /\ "loc" \in given
    \/ paths \in DoctorPaths
    \/ given \cap (Reporting \cup Modes) # {}

\* Callable writes need paths; an acceptance a reason and exactly one file.
NotForCallables ==
    /\ given \cap CallableWrites # {}
    /\ \/ paths = "none"
       \/ "accept" \in given /\ ("reason" \notin given \/ paths # "file")

BaselineMode ==
    /\ phase = "baseline"
    /\ IF Unattached THEN Refuse
       ELSE IF given \cap Writes = {} THEN Consider("doctor")
       ELSE IF NotForWriting \/ NotForCallables THEN Refuse
       ELSE \E code \in {0, 3} : End(CHOOSE w \in Writes : w \in given, code)

---------------------------------------------------------------------------
(* _doctor_mode, gather_report                                             *)

DoctorMode ==
    /\ phase = "doctor"
    /\ IF paths \notin FirstToken THEN Consider("version")
       ELSE IF \/ paths # "doctor" \/ given \cap (Modes \cup Shared) # {}
               \/ "workingDirectory" \in faults
       THEN Refuse
       ELSE Consider("check")

\* Whether a check finds its part of the installation in order.  The entry
\* point is looked for in the distribution the first check found.
Sound(check) ==
    /\ check = "distribution" => installed # Absent
    /\ check = "entryPoint" => found # Absent /\ "launcher" \notin faults
    /\ check = "skill" => Complete
    /\ check \notin faults

\* _safe_check: every check leaves a section, and the next one is made.
SafeCheck ==
    /\ phase = "check" /\ Len(report) < Len(Checks)
    /\ LET check == Checks[Len(report) + 1]
       IN  /\ report' = Append(report, IF Sound(check) THEN "ok" ELSE "unavailable")
           /\ found' = IF check = "distribution" THEN installed ELSE found
    /\ UNCHANGED <<exportVars, given, paths, faults, phase, did, returned, moved>>

\* Mutant: a check that fails ends the report.
Gathered == Len(report) = Len(Checks) \/ \E i \in DOMAIN report : report[i] # "ok"

Reported == Len(report) = Len(Checks)

\* Mutant: the skill is not required.
RequiredWithoutSkill == {i \in DOMAIN Checks : Checks[i] \notin {"git", "skill"}}

\* Git is reported, and not required.
Required == {i \in DOMAIN Checks : Checks[i] # "git"}

DoctorReport ==
    /\ phase = "check" /\ Reported
    /\ End("doctor", IF \A i \in Required : report[i] = "ok" THEN 0 ELSE 1)

---------------------------------------------------------------------------
(* _version_mode, _management_mode, the analysis                           *)

\* Mutant: --version leaves the paths aside.
VersionAnywhere ==
    /\ phase = "version"
    /\ IF "version" \notin given THEN Consider("management")
       ELSE IF given \cap (Shared \cup {"skillPath", "exportSkill"}) # {}
       THEN Refuse
       ELSE End("version", IF installed # Absent THEN 0 ELSE 3)

VersionMode ==
    /\ phase = "version"
    /\ IF "version" \notin given THEN Consider("management")
       ELSE IF paths # "none" \/ given \cap (Shared \cup {"skillPath", "exportSkill"}) # {}
       THEN Refuse
       ELSE End("version", IF installed # Absent THEN 0 ELSE 3)

Managing == {"skillPath", "exportSkill"} \cap given

ManagementMode ==
    /\ phase = "management"
    /\ IF Managing = {} THEN \E code \in 0..3 : End("analysis", code)
       ELSE IF Cardinality(Managing) = 2 \/ paths # "none"
               \/ given \cap (Shared \cup {"json"}) # {}
       THEN Refuse
       ELSE IF "skillPath" \in given THEN End("skillPath", IF Complete THEN 0 ELSE 3)
       ELSE Consider("export")

\* The export is under way, and then over.
ExportStep ==
    /\ phase = "export"
    /\ Export(Me)
    /\ UNCHANGED commandVars

ExportEnd ==
    /\ phase = "export"
    /\ step[Me] \in {"done", "failed"}
    /\ End("exportSkill", IF step[Me] = "done" THEN 0 ELSE 3)

---------------------------------------------------------------------------
CommandInit ==
    /\ ExportInit
    /\ given \in {o \in SUBSET Options : Cardinality(o) <= MaxOptions}
    /\ paths \in Paths
    /\ faults \in SUBSET Faults
    /\ paths # "doctor" => faults = {}                  \* never looked at
    /\ "exportSkill" \notin given => kind = "missing"    \* nor written to
    /\ phase = "parse"
    /\ did = "none" /\ found = Absent /\ report = <<>> /\ returned = -1
    /\ moved = FALSE

Main ==
    \/ ParseArguments
    \/ BaselineMode \/ DoctorMode \/ SafeCheck \/ DoctorReport
    \/ VersionMode \/ ManagementMode \/ ExportStep \/ ExportEnd

OtherExport(p) ==
    /\ Export(p)
    /\ UNCHANGED commandVars

Upgrade(version, files) ==
    /\ Install(version, files)
    /\ moved' = TRUE
    /\ UNCHANGED <<given, paths, faults, phase, did, found, report, returned>>

Put(f) ==
    /\ PutFile(f)
    /\ UNCHANGED commandVars

\* What happens before this invocation looks at anything is up to Init.
World ==
    /\ phase \in {"check", "export"}
    /\ \/ \E p \in Exporters \ {Me} : OtherExport(p)
       \/ \E p \in Packages : Upgrade(p[1], p[2])
       \/ \E f \in Names : Put(f)

CommandNext == Main \/ World

CommandSpec == CommandInit /\ [][CommandNext]_mainVars

---------------------------------------------------------------------------
(* Properties.                                                             *)

\* The modes that read positional paths.
Walks == Writes \cup {"analysis"}

\* Whether a mode reads an option.
ReadsOption(mode, option) ==
    \/ option = mode
    \/ option \in {"config", "scopeExclude"} /\ mode \in Walks
    \/ option = "loc" /\ mode \in LocWrites \cup {"analysis"}
    \/ option = "reason" /\ mode = "accept"
    \/ option = "prune" /\ mode = "updateCallable"
    \/ option \in Reporting \cup {"git"} /\ mode = "analysis"
    \/ option = "json" /\ mode \in {"doctor", "version"}

\* Nothing a person asked for is dropped: whichever mode runs, it reads every
\* option and path given, so two modes are never asked for and one run.  Only
\* --help stands above the rest, and never above --version.
NothingIgnored ==
    /\ did = "help" => "version" \notin given
    /\ did \notin {"none", "error", "help"} =>
        /\ \A option \in given : ReadsOption(did, option)
        /\ paths \in {"none", "doctor"} \/ did \in Walks
        /\ paths = "doctor" => did = "doctor"

\* Doctor tells the truth about the skill and everything else it requires: on
\* an installation that does not change meanwhile, exit 0 means the package is
\* there, its skill can be exported and no required part is at fault, and exit
\* 1 means one of those is not so; either way every check left its section.
DoctorTruthful ==
    did = "doctor" /\ ~moved =>
        /\ Len(report) = Len(Checks)
        /\ returned = 0 <=> Complete /\ faults \subseteq {"git"}
=============================================================================
