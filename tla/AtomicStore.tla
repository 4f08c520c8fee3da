---------------------------- MODULE AtomicStore ----------------------------
(***************************************************************************)
(* The write path shared by the three baselines, one action per system     *)
(* call: baseline_files.atomic_create and atomic_replace, the              *)
(* mkdir/rmdir bracket their callers put around them, and the              *)
(* exists/open/read sequence of load_if_present.                           *)
(*                                                                         *)
(* A process is one command invocation, so it writes at most one temporary *)
(* file: the inode of that file is named by the process.  mkstemp's random *)
(* names are taken to be distinct.                                         *)
(***************************************************************************)
EXTENDS FiniteSets

CONSTANTS
    Writers,        \* invocations that write the baseline
    Readers,        \* invocations that only load it
    Docs,           \* document contents
    Partial,        \* the bytes of a file not yet wholly written
    Old,            \* the inode of a baseline that exists at the start
    Nil             \* no file

\* How an invocation can end; a load ends with a document or Nil instead.
Outcomes == {"none", "created", "exists", "replaced", "unchanged", "failed"}

ASSUME StoreAssumption ==
    /\ Partial \notin Docs \cup Outcomes \cup {Nil}
    /\ Nil \notin Docs
    /\ Nil \notin Writers \cup {Old}
    /\ Old \notin Writers
    /\ Writers \cap Readers = {}

Inodes == Writers \cup {Old}

VARIABLES
    dir,            \* .agent-tools exists
    target,         \* the inode the baseline's name refers to, or Nil
    temps,          \* inodes still linked under their temporary name
    data,           \* contents of each inode
    synced,         \* inodes whose contents would survive a power loss
    durable,        \* the target a power loss may bring back
    pc,             \* next step of each process
    kind,           \* writers: which caller's path the invocation follows
    doc,            \* writers: the bytes to store
    made,           \* writers: created_directory
    held,           \* readers: the inode opened
    outcome,        \* what the caller is told
    stray           \* temporaries their process can no longer remove

disk == <<dir, target, temps, data, synced, durable>>
vars == <<disk, pc, kind, doc, made, held, outcome, stray>>

---------------------------------------------------------------------------
(* Writers.  "create": create() of the LOC and Markdown baselines, and     *)
(* callable _write while creating; "replace": their update(); "rewrite":   *)
(* callable _write over an existing baseline, which has the same           *)
(* mkdir/rmdir bracket as a create.                                        *)

Kinds == {"create", "replace", "rewrite"}

\* created_directory = not target.parent.exists()
Probe(w) ==
    /\ pc[w] = "start"
    /\ kind[w] # "replace"
    /\ made' = [made EXCEPT ![w] = ~dir]
    /\ pc' = [pc EXCEPT ![w] = "mkdir"]
    /\ UNCHANGED <<disk, kind, doc, held, outcome, stray>>

\* An exception leaves through the callers' except clause, if they have one.
Raise(w, reason) ==
    /\ outcome' = [outcome EXCEPT ![w] = reason]
    /\ pc' = [pc EXCEPT ![w] = IF kind[w] # "replace" /\ made[w]
                               THEN "rmdir" ELSE "done"]

\* target.parent.mkdir(exist_ok=True), which may fail for want of space or rights
MakeDirectory(w) ==
    /\ pc[w] = "mkdir"
    /\ \/ /\ dir' = TRUE
          /\ pc' = [pc EXCEPT ![w] = IF kind[w] = "create" THEN "mkstemp" ELSE "compare"]
          /\ UNCHANGED outcome
       \/ /\ Raise(w, "failed")
          /\ UNCHANGED dir
    /\ UNCHANGED <<target, temps, data, synced, durable, kind, doc, made, held, stray>>

\* content != target.read_bytes(): the comparison fails when the file is gone.
Compare(w) ==
    /\ \/ pc[w] = "compare"
       \/ pc[w] = "start" /\ kind[w] = "replace"
    /\ \/ /\ target = Nil
          /\ Raise(w, "failed")
       \/ /\ target # Nil
          /\ data[target] = doc[w]
          /\ outcome' = [outcome EXCEPT ![w] = "unchanged"]
          /\ pc' = [pc EXCEPT ![w] = "done"]
       \/ /\ target # Nil
          /\ data[target] # doc[w]
          /\ pc' = [pc EXCEPT ![w] = "mkstemp"]
          /\ UNCHANGED outcome
    /\ UNCHANGED <<disk, kind, doc, made, held, stray>>

\* Mutant: a mkstemp that fails is tried again and again.
RetryTemporary(w) ==
    /\ pc[w] = "mkstemp"
    /\ dir
    /\ temps' = temps \cup {w}
    /\ pc' = [pc EXCEPT ![w] = "write"]
    /\ UNCHANGED <<dir, target, data, synced, durable, kind, doc, made, held,
                   outcome, stray>>

\* mkstemp fails when the directory is gone, and for want of space or rights.
MakeTemporary(w) ==
    /\ pc[w] = "mkstemp"
    /\ \/ /\ dir
          /\ temps' = temps \cup {w}
          /\ pc' = [pc EXCEPT ![w] = "write"]
          /\ UNCHANGED outcome
       \/ /\ Raise(w, "failed")
          /\ UNCHANGED temps
    /\ UNCHANGED <<dir, target, data, synced, durable, kind, doc, made, held, stray>>

\* handle.write(content); handle.flush()
WriteTemporary(w) ==
    /\ pc[w] = "write"
    /\ data' = [data EXCEPT ![w] = doc[w]]
    /\ pc' = [pc EXCEPT ![w] = "fsync"]
    /\ UNCHANGED <<dir, target, temps, synced, durable, kind, doc, made, held,
                   outcome, stray>>

\* Mutant: no fsync before the file gets its name.
SkipSync(w) ==
    /\ pc[w] = "fsync"
    /\ pc' = [pc EXCEPT ![w] = "commit"]
    /\ UNCHANGED <<disk, kind, doc, made, held, outcome, stray>>

\* os.fsync(handle.fileno())
SyncTemporary(w) ==
    /\ pc[w] = "fsync"
    /\ synced' = synced \cup {w}
    /\ pc' = [pc EXCEPT ![w] = "commit"]
    /\ UNCHANGED <<dir, target, temps, data, durable, kind, doc, made, held,
                   outcome, stray>>

\* Mutant: the failed write leaves its temporary behind.
WriteFailsLittering(w) ==
    /\ pc[w] \in {"write", "fsync"}
    /\ Raise(w, "failed")
    /\ UNCHANGED <<disk, kind, doc, made, held, stray>>

\* The except clause of _write_temporary: unlink(missing_ok=True), which may
\* itself fail, and raise.
WriteFails(w) ==
    /\ pc[w] \in {"write", "fsync"}
    /\ \/ /\ temps' = temps \ {w}
          /\ UNCHANGED stray
       \/ /\ stray' = stray \cup {w}
          /\ UNCHANGED temps
    /\ Raise(w, "failed")
    /\ UNCHANGED <<dir, target, data, synced, durable, kind, doc, made, held>>

\* Mutant: create renames, as a replacement does.
LinkOver(w) ==
    /\ pc[w] = "commit"
    /\ kind[w] = "create"
    /\ target' = w
    /\ outcome' = [outcome EXCEPT ![w] = "created"]
    /\ pc' = [pc EXCEPT ![w] = "unlink"]
    /\ UNCHANGED <<dir, temps, data, synced, durable, kind, doc, made, held, stray>>

\* os.link(temporary, target), which never replaces a file
Link(w) ==
    /\ pc[w] = "commit"
    /\ kind[w] = "create"
    /\ \/ /\ target = Nil
          /\ target' = w
          /\ outcome' = [outcome EXCEPT ![w] = "created"]
       \/ /\ target # Nil
          /\ outcome' = [outcome EXCEPT ![w] = "exists"]
          /\ UNCHANGED target
    /\ pc' = [pc EXCEPT ![w] = "unlink"]
    /\ UNCHANGED <<dir, temps, data, synced, durable, kind, doc, made, held, stray>>

\* os.replace(temporary, target): the temporary name becomes the target's
Rename(w) ==
    /\ pc[w] = "commit"
    /\ kind[w] # "create"
    /\ target' = w
    /\ temps' = temps \ {w}
    /\ outcome' = [outcome EXCEPT ![w] = "replaced"]
    /\ pc' = [pc EXCEPT ![w] = "unlink"]
    /\ UNCHANGED <<dir, data, synced, durable, kind, doc, made, held, stray>>

CommitFails(w) ==
    /\ pc[w] = "commit"
    /\ outcome' = [outcome EXCEPT ![w] = "failed"]
    /\ pc' = [pc EXCEPT ![w] = "unlink"]
    /\ UNCHANGED <<disk, kind, doc, made, held, stray>>

\* finally: temporary.unlink(), where FileNotFoundError is expected
UnlinkTemporary(w) ==
    /\ pc[w] = "unlink"
    /\ temps' = temps \ {w}
    /\ \/ /\ outcome[w] \in {"created", "replaced"}
          /\ pc' = [pc EXCEPT ![w] = "done"]
          /\ UNCHANGED outcome
       \/ /\ outcome[w] \notin {"created", "replaced"}
          /\ Raise(w, outcome[w])
    /\ UNCHANGED <<dir, target, data, synced, durable, kind, doc, made, held, stray>>

\* Any other OSError of that unlink leaves the finally clause instead.
UnlinkFails(w) ==
    /\ pc[w] = "unlink"
    /\ w \in temps
    /\ stray' = stray \cup {w}
    /\ Raise(w, "failed")
    /\ UNCHANGED <<disk, kind, doc, made, held>>

\* target.parent.rmdir(): an OSError (not empty, or gone) is swallowed.
RemoveDirectory(w) ==
    /\ pc[w] = "rmdir"
    /\ dir' = (dir /\ (target # Nil \/ temps # {}))
    /\ pc' = [pc EXCEPT ![w] = "done"]
    /\ UNCHANGED <<target, temps, data, synced, durable, kind, doc, made, held,
                   outcome, stray>>

WriterStep(w) ==
    \/ Probe(w) \/ MakeDirectory(w) \/ Compare(w) \/ MakeTemporary(w)
    \/ WriteTemporary(w) \/ SyncTemporary(w) \/ WriteFails(w)
    \/ Link(w) \/ Rename(w) \/ CommitFails(w)
    \/ UnlinkTemporary(w) \/ UnlinkFails(w) \/ RemoveDirectory(w)

---------------------------------------------------------------------------
(* Readers: load_if_present.                                               *)

\* if not path.exists(): return None
FindBaseline(r) ==
    /\ pc[r] = "start"
    /\ \/ /\ target = Nil
          /\ outcome' = [outcome EXCEPT ![r] = Nil]
          /\ pc' = [pc EXCEPT ![r] = "done"]
       \/ /\ target # Nil
          /\ pc' = [pc EXCEPT ![r] = "open"]
          /\ UNCHANGED outcome
    /\ UNCHANGED <<disk, kind, doc, made, held, stray>>

\* path.read_text: opening pins an inode, or fails as an invalid baseline
OpenBaseline(r) ==
    /\ pc[r] = "open"
    /\ \/ /\ target = Nil
          /\ outcome' = [outcome EXCEPT ![r] = "failed"]
          /\ pc' = [pc EXCEPT ![r] = "done"]
          /\ UNCHANGED held
       \/ /\ target # Nil
          /\ held' = [held EXCEPT ![r] = target]
          /\ pc' = [pc EXCEPT ![r] = "read"]
          /\ UNCHANGED outcome
    /\ UNCHANGED <<disk, kind, doc, made, stray>>

\* Mutant: the open file is returned in place of its text.
ReadHandle(r) ==
    /\ pc[r] = "read"
    /\ outcome' = [outcome EXCEPT ![r] = held[r]]
    /\ pc' = [pc EXCEPT ![r] = "done"]
    /\ UNCHANGED <<disk, kind, doc, made, held, stray>>

ReadBaseline(r) ==
    /\ pc[r] = "read"
    /\ outcome' = [outcome EXCEPT ![r] = data[held[r]]]
    /\ pc' = [pc EXCEPT ![r] = "done"]
    /\ UNCHANGED <<disk, kind, doc, made, held, stray>>

ReaderStep(r) == FindBaseline(r) \/ OpenBaseline(r) \/ ReadBaseline(r)

---------------------------------------------------------------------------
(* Environment.                                                            *)

Finished == {"done", "dead"}

\* A process is killed between two system calls.
Crash(w) ==
    /\ pc[w] \notin Finished \cup {"start"}
    /\ pc' = [pc EXCEPT ![w] = "dead"]
    /\ stray' = stray \cup (temps \cap {w})
    /\ UNCHANGED <<disk, kind, doc, made, held, outcome>>

\* A user, or a checkout, deletes the baseline.
RemoveTarget ==
    /\ target # Nil
    /\ target' = Nil
    /\ UNCHANGED <<dir, temps, data, synced, durable, pc, kind, doc, made, held,
                   outcome, stray>>

\* The file system writes the directory out.
FlushDirectory ==
    /\ durable # target
    /\ durable' = target
    /\ UNCHANGED <<dir, target, temps, data, synced, pc, kind, doc, made, held,
                   outcome, stray>>

\* Every started process dies; unsynced contents and directory entries the
\* disk has not seen may be lost.
PowerLoss ==
    /\ \E w \in Writers : pc[w] # "start"
    /\ target' \in {target, durable}
    /\ durable' = target'
    /\ temps' \in SUBSET temps
    /\ data' = [i \in Inodes |-> IF i \in synced THEN data[i] ELSE Partial]
    /\ dir' \in BOOLEAN
    /\ target' # Nil \/ temps' # {} => dir'
    /\ dir' => dir \/ target' # Nil
    /\ stray' = temps'
    /\ pc' = [p \in DOMAIN pc |->
                IF pc[p] \in {"start", "done"} THEN pc[p] ELSE "dead"]
    /\ UNCHANGED <<synced, kind, doc, made, held, outcome>>

---------------------------------------------------------------------------
Init ==
    /\ target \in {Nil, Old}
    /\ dir \in BOOLEAN
    /\ target = Old => dir
    /\ temps = {}
    /\ data \in {[i \in Inodes |-> IF i = Old THEN d ELSE Partial] : d \in Docs}
    /\ synced = {Old}
    /\ durable = target
    /\ pc = [p \in Writers \cup Readers |-> "start"]
    /\ kind \in [Writers -> Kinds]
    /\ doc \in [Writers -> Docs]
    /\ made = [w \in Writers |-> FALSE]
    /\ held = [r \in Readers |-> Nil]
    /\ outcome = [p \in Writers \cup Readers |-> "none"]
    /\ stray = {}

Next ==
    \/ \E w \in Writers : WriterStep(w) \/ Crash(w)
    \/ \E r \in Readers : ReaderStep(r)
    \/ RemoveTarget
    \/ FlushDirectory
    \/ PowerLoss

\* A process that can go on is scheduled until it ends: no step of it waits
\* for another process.  Nobody promises a crash, a power loss, a deletion, or
\* that the file system ever writes the directory out.
Fairness ==
    /\ \A w \in Writers : WF_vars(WriterStep(w))
    /\ \A r \in Readers : WF_vars(ReaderStep(r))

Spec == Init /\ [][Next]_vars /\ Fairness

---------------------------------------------------------------------------
(* Properties.                                                             *)

WriterSteps == {"start", "mkdir", "compare", "mkstemp", "write", "fsync",
                "commit", "unlink", "rmdir", "done", "dead"}
ReaderSteps == {"start", "open", "read", "done", "dead"}

\* Every variable of the store keeps its type (baseline_files.py).
TypeOK ==
    /\ dir \in BOOLEAN
    /\ target \in Inodes \cup {Nil}
    /\ temps \in SUBSET Writers
    /\ data \in [Inodes -> Docs \cup {Partial}]
    /\ synced \in SUBSET Inodes
    /\ durable \in Inodes \cup {Nil}
    /\ pc \in [Writers \cup Readers -> WriterSteps \cup ReaderSteps]
    /\ kind \in [Writers -> Kinds]
    /\ doc \in [Writers -> Docs]
    /\ made \in [Writers -> BOOLEAN]
    /\ held \in [Readers -> Inodes \cup {Nil}]
    /\ outcome \in [Writers \cup Readers -> Outcomes \cup Docs \cup {Partial, Nil}]
    /\ stray \in SUBSET Writers

\* Whatever is interrupted, and after a power loss too, the baseline's name
\* refers to nothing or to a document written in full (atomic_create and
\* atomic_replace link or rename only what _write_temporary has synced).
TargetComplete ==
    \A i \in {target, durable} \ {Nil} : i \in synced /\ data[i] \in Docs

\* A load never returns a truncated document, even when the baseline is
\* replaced between its open and its read.
ReadersSeeWholeDocuments == \A r \in Readers : outcome[r] # Partial

\* Nobody ever meets a baseline written in part: not by its name, not after a
\* power loss, not through a handle opened before it was replaced.
OnlyWholeDocuments == TargetComplete /\ ReadersSeeWholeDocuments

\* A temporary file that remains belongs to a write in progress, unless its
\* process was killed or could not unlink it: the finally and except clauses
\* leave no litter behind.
TempsOwned ==
    \A w \in temps \ stray : pc[w] \in {"write", "fsync", "commit", "unlink"}

\* The rmdir that undoes created_directory fails on a directory that another
\* process has put a file in (part of the inductive invariant).
DirectoryHoldsFiles == target # Nil \/ temps # {} => dir

\* Every invocation comes to its end, whatever the others do to the files it
\* relies on: the directory it made may be removed under it, the baseline
\* deleted, replaced or created before it, and each of these ends in an answer
\* and never in a wait (atomic_create, atomic_replace and their callers).
InvocationsEnd == \A p \in Writers \cup Readers : <>(pc[p] \in Finished)

\* The refinement mapping: a read takes effect when it opens the file, a write
\* when it links or renames it.
Content == IF target = Nil THEN Nil ELSE data[target]
Durable == IF durable = Nil THEN Nil ELSE data[durable]
Reply == [p \in Writers \cup Readers |->
            IF p \in Readers /\ held[p] # Nil THEN data[held[p]] ELSE outcome[p]]

Register == INSTANCE BaselineRegister WITH
    Clients <- Writers \cup Readers,
    Absent  <- Nil,
    content <- Content,
    durable <- Durable,
    reply   <- Reply

\* The store is the atomic register, whatever the interleaving of its system
\* calls with those of other invocations, crashes and power losses
\* (atomic_create, atomic_replace and load_if_present).
RefinesRegister == Register!Spec
===========================================================================
