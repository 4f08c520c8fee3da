---------------------------- MODULE SkillExport ----------------------------
(***************************************************************************)
(* --export-skill: export_skill() of skill_distribution.py copies the      *)
(* files of the installed skill into an empty directory, and last writes a *)
(* file that names the version.  Invocations may overlap or be killed, the *)
(* package may be upgraded, and people may put files into the directory.   *)
(***************************************************************************)
EXTENDS Sequences, Naturals, FiniteSets, Functions

CONSTANTS
    Exporters,      \* --export-skill invocations
    Payload,        \* PAYLOAD_FILES, in order
    Marker,         \* .agent-code-guard-version
    Versions,       \* versions of the package
    Packages,       \* installations: a version, or Absent, and the files it has
    Absent          \* no file

Names == Range(Payload) \cup {Marker}

ASSUME ExportAssumption ==
    /\ Payload \in Seq(Range(Payload)) /\ Marker \notin Range(Payload)
    /\ \A i, j \in DOMAIN Payload : Payload[i] = Payload[j] => i = j
    /\ Packages \subseteq (Versions \cup {Absent}) \X SUBSET Range(Payload)
    /\ Versions \cap {Absent, "empty", "foreign"} = {} /\ Absent \notin {"empty", "foreign"}

VARIABLES
    installed,      \* the version of the package, or Absent
    payload,        \* the files of the skill it contains
    kind,           \* the target: "missing", "file" or "directory"
    target,         \* what the target directory holds
    step,           \* where each exporter is
    index,          \* how many files it has written
    writers,        \* history: exporters that have written
    upgraded,       \* history: the package changed during an export
    late            \* history: files put there during an export

package == <<installed, payload>>
directory == <<kind, target>>
progress == <<step, index>>
exportHistory == <<writers, upgraded, late>>
exportVars == <<package, directory, progress, exportHistory>>

Running(p) == step[p] \in {"locate", "open", "fill"}

GoOn(p, where) == step' = [step EXCEPT ![p] = where]

Abandon(p) ==
    /\ GoOn(p, "failed")
    /\ UNCHANGED <<package, directory, index, exportHistory>>

\* Mutant: the marker comes first.
MarkerFirst == <<Marker>> \o Payload

\* What is written, in this order.
Written == Append(Payload, Marker)

Usable == kind = "missing" \/ (kind = "directory" /\ \A f \in Names : target[f] = Absent)

\* Mutant: only a directory is asked for.
CheckDirectory(p) ==
    /\ step[p] = "check"
    /\ kind # "file"
    /\ kind' = "directory"
    /\ GoOn(p, "locate")
    /\ UNCHANGED <<package, target, index, exportHistory>>

\* An empty directory, or one that mkdir can make.
CheckTarget(p) ==
    /\ step[p] = "check"
    /\ Usable
    /\ kind' = "directory"
    /\ GoOn(p, "locate")
    /\ UNCHANGED <<package, target, index, exportHistory>>

RefuseTarget(p) ==
    /\ step[p] = "check"
    /\ ~Usable
    /\ Abandon(p)

\* skill_path() and _validate_payload()
Complete == installed # Absent /\ payload = Range(Payload)

Locate(p) ==
    /\ step[p] = "locate"
    /\ Complete
    /\ GoOn(p, "open")
    /\ UNCHANGED <<package, directory, index, exportHistory>>

PayloadMissing(p) ==
    /\ step[p] = "locate"
    /\ ~Complete
    /\ Abandon(p)

Item(p) == Written[index[p] + 1]

\* Each file is looked for again; the marker needs the version.
Available(f) == IF f = Marker THEN installed # Absent ELSE f \in payload

\* Opening a file for writing creates or truncates it.
Open(p) ==
    /\ step[p] = "open"
    /\ Available(Item(p))
    /\ target' = [target EXCEPT ![Item(p)] = "empty"]
    /\ writers' = writers \cup {p}
    /\ GoOn(p, "fill")
    /\ UNCHANGED <<package, kind, index, upgraded, late>>

Unavailable(p) ==
    /\ step[p] = "open"
    /\ ~Available(Item(p))
    /\ Abandon(p)

Fill(p) ==
    /\ step[p] = "fill"
    /\ installed # Absent
    /\ target' = [target EXCEPT ![Item(p)] = installed]
    /\ index' = [index EXCEPT ![p] = @ + 1]
    /\ GoOn(p, IF index[p] + 1 = Len(Written) THEN "done" ELSE "open")
    /\ UNCHANGED <<package, kind, exportHistory>>

\* Reading the source fails, or the process is killed.
Stop(p) ==
    /\ Running(p)
    /\ Abandon(p)

Export(p) ==
    \/ CheckTarget(p) \/ RefuseTarget(p)
    \/ Locate(p) \/ PayloadMissing(p)
    \/ Open(p) \/ Unavailable(p) \/ Fill(p)
    \/ Stop(p)

---------------------------------------------------------------------------
(* Package managers and people                                             *)

Install(version, files) ==
    /\ <<version, files>> # package
    /\ installed' = version
    /\ payload' = files
    /\ upgraded' = (upgraded \/ \E p \in Exporters : Running(p))
    /\ UNCHANGED <<directory, progress, writers, late>>

PutFile(f) ==
    /\ kind = "directory" /\ target[f] = Absent
    /\ target' = [target EXCEPT ![f] = "foreign"]
    /\ late' = late \cup {g \in {f} : \E p \in Exporters : Running(p)}
    /\ UNCHANGED <<package, kind, progress, writers, upgraded>>

ExportInit ==
    /\ \E p \in Packages : installed = p[1] /\ payload = p[2]
    /\ kind \in {"missing", "file", "directory"}
    /\ target = [f \in Names |-> Absent]
    /\ step = [p \in Exporters |-> "check"]
    /\ index = [p \in Exporters |-> 0]
    /\ writers = {} /\ late = {}
    /\ upgraded = FALSE

---------------------------------------------------------------------------
(* Properties.                                                             *)

\* The version file seals the export: a directory only one invocation wrote to,
\* while the package did not change, names a version only if it holds every
\* file of that version whole, also when the invocation was killed.
MarkerSeals ==
    /\ target[Marker] \in Versions
    /\ Cardinality(writers) = 1 /\ ~upgraded /\ late = {}
    => \A f \in Range(Payload) : target[f] = target[Marker]

\* "empty caller-owned directory": a file somebody else put into the target is
\* overwritten only if it appeared while an export was under way.
ForeignKept ==
    [][\A f \in Names :
          target[f] = "foreign" /\ target'[f] # "foreign" => f \in late]_exportVars
=============================================================================
