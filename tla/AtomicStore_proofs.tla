------------------------- MODULE AtomicStore_proofs -------------------------
(***************************************************************************)
(* Proofs about AtomicStore for any number of processes and documents: the *)
(* inductive invariant, the safety invariants TLC checks, and that the     *)
(* store implements BaselineRegister.                                      *)
(***************************************************************************)
EXTENDS AtomicStore, TLAPS

\* A temporary that has not been linked is nobody else's file.
Private(w) == /\ w \notin {target, durable}
              /\ \A r \in Readers : held[r] # w

WriterOK(w) ==
    /\ pc[w] \in WriterSteps
    /\ pc[w] \in {"start", "mkdir", "compare", "mkstemp", "write", "fsync", "commit"}
          => outcome[w] = "none" /\ Private(w)
    /\ pc[w] \in {"fsync", "commit", "unlink"} => data[w] = doc[w]
    /\ pc[w] \in {"commit", "unlink"} => w \in synced
    /\ pc[w] \in {"write", "fsync", "commit"} => w \in temps
    /\ pc[w] = "unlink" => outcome[w] \in {"created", "exists", "replaced", "failed"}

ReaderOK(r) ==
    /\ pc[r] \in ReaderSteps
    /\ pc[r] \in {"start", "open"} => held[r] = Nil /\ outcome[r] = "none"
    /\ pc[r] = "read" => held[r] # Nil
    /\ held[r] # Nil => held[r] \in synced /\ data[held[r]] \in Docs

\* The inductive invariant of the store.
IInv ==
    /\ TypeOK
    /\ TargetComplete
    /\ ReadersSeeWholeDocuments
    /\ TempsOwned
    /\ DirectoryHoldsFiles
    /\ \A w \in Writers : WriterOK(w)
    /\ \A r \in Readers : ReaderOK(r)

\* The initial states satisfy the inductive invariant.
LEMMA InitIInv == Init => IInv
BY StoreAssumption
   DEF Init, IInv, TypeOK, TargetComplete, ReadersSeeWholeDocuments, TempsOwned,
       DirectoryHoldsFiles, WriterOK, ReaderOK, Private, Inodes, Kinds, Outcomes,
       WriterSteps, ReaderSteps

\* Every step of a writer preserves the inductive invariant.
LEMMA WriterStepIInv ==
    ASSUME IInv, NEW w \in Writers, WriterStep(w)
    PROVE  IInv'
<1> USE StoreAssumption
<1> USE DEF IInv, TypeOK, TargetComplete, ReadersSeeWholeDocuments, TempsOwned,
            DirectoryHoldsFiles, WriterOK, ReaderOK, Private, Inodes, Kinds,
            Outcomes, WriterSteps, ReaderSteps, Raise, disk
<1>1. CASE Probe(w)
  BY <1>1 DEF Probe
<1>2. CASE MakeDirectory(w)
  <2>1. CASE /\ dir' = TRUE /\ outcome' = outcome
             /\ pc' = [pc EXCEPT ![w] = IF kind[w] = "create" THEN "mkstemp" ELSE "compare"]
    BY <1>2, <2>1 DEF MakeDirectory
  <2>2. CASE Raise(w, "failed") /\ dir' = dir
    BY <1>2, <2>2 DEF MakeDirectory
  <2>3. QED BY <1>2, <2>1, <2>2 DEF MakeDirectory
<1>3. CASE Compare(w)
  BY <1>3 DEF Compare
<1>4. CASE MakeTemporary(w)
  BY <1>4 DEF MakeTemporary
<1>5. CASE WriteTemporary(w)
  BY <1>5 DEF WriteTemporary
<1>6. CASE SyncTemporary(w)
  BY <1>6 DEF SyncTemporary
<1>7. CASE WriteFails(w)
  BY <1>7 DEF WriteFails
<1>8. CASE Link(w)
  BY <1>8 DEF Link
<1>9. CASE Rename(w)
  BY <1>9 DEF Rename
<1>10. CASE CommitFails(w)
  BY <1>10 DEF CommitFails
<1>11. CASE UnlinkTemporary(w)
  BY <1>11 DEF UnlinkTemporary
<1>12. CASE UnlinkFails(w)
  BY <1>12 DEF UnlinkFails
<1>13. CASE RemoveDirectory(w)
  BY <1>13 DEF RemoveDirectory
<1>14. QED BY <1>1, <1>2, <1>3, <1>4, <1>5, <1>6, <1>7, <1>8, <1>9, <1>10,
          <1>11, <1>12, <1>13
       DEF WriterStep

\* Every step of a reader preserves the inductive invariant: what an open
\* file holds is a synced document, and no writer touches it any more.
LEMMA ReaderStepIInv ==
    ASSUME IInv, NEW r \in Readers, ReaderStep(r)
    PROVE  IInv'
<1> USE StoreAssumption
<1> USE DEF IInv, TypeOK, TargetComplete, ReadersSeeWholeDocuments, TempsOwned,
            DirectoryHoldsFiles, WriterOK, ReaderOK, Private, Inodes, Kinds,
            Outcomes, WriterSteps, ReaderSteps, disk
<1>1. CASE FindBaseline(r)
  BY <1>1 DEF FindBaseline
<1>2. CASE OpenBaseline(r)
  BY <1>2 DEF OpenBaseline
<1>3. CASE ReadBaseline(r)
  BY <1>3 DEF ReadBaseline
<1>4. QED BY <1>1, <1>2, <1>3 DEF ReaderStep

\* So do a killed process, a deleted baseline, a directory flush and a power
\* loss; the last one needs every reachable target to be synced.
LEMMA EnvironmentIInv ==
    ASSUME IInv,
           (\E w \in Writers : Crash(w)) \/ RemoveTarget \/ FlushDirectory \/ PowerLoss
    PROVE  IInv'
<1> USE StoreAssumption
<1> USE DEF IInv, TypeOK, TargetComplete, ReadersSeeWholeDocuments, TempsOwned,
            DirectoryHoldsFiles, WriterOK, ReaderOK, Private, Inodes, Kinds,
            Outcomes, WriterSteps, ReaderSteps, disk
<1>1. CASE \E w \in Writers : Crash(w)
  BY <1>1 DEF Crash, Finished
<1>2. CASE RemoveTarget
  BY <1>2 DEF RemoveTarget
<1>3. CASE FlushDirectory
  BY <1>3 DEF FlushDirectory
<1>4. CASE PowerLoss
  BY <1>4 DEF PowerLoss
<1>5. QED BY <1>1, <1>2, <1>3, <1>4

\* The inductive invariant holds of every behaviour of the store.
THEOREM Invariance == Spec => []IInv
<1>1. ASSUME IInv, [Next]_vars PROVE IInv'
  <2>1. CASE \E w \in Writers : WriterStep(w)
    BY <1>1, <2>1, WriterStepIInv
  <2>2. CASE \E r \in Readers : ReaderStep(r)
    BY <1>1, <2>2, ReaderStepIInv
  <2>3. CASE (\E w \in Writers : Crash(w)) \/ RemoveTarget \/ FlushDirectory \/ PowerLoss
    BY <1>1, <2>3, EnvironmentIInv
  <2>4. CASE UNCHANGED vars
    BY <1>1, <2>4 DEF vars, disk, IInv, TypeOK, TargetComplete,
       ReadersSeeWholeDocuments, TempsOwned, DirectoryHoldsFiles, WriterOK,
       ReaderOK, Private
  <2>5. QED BY <1>1, <2>1, <2>2, <2>3, <2>4 DEF Next
<1>2. QED BY <1>1, InitIInv, PTL DEF Spec

\* Types are kept by every behaviour, for any processes and documents.
THEOREM TypeCorrect == Spec => []TypeOK
<1>1. IInv => TypeOK BY DEF IInv
<1>2. QED BY <1>1, Invariance, PTL

\* The baseline's name always refers to nothing or to a whole document that a
\* power loss cannot damage, and no load ever returns a truncated one.
THEOREM WholeDocuments == Spec => []OnlyWholeDocuments
<1>1. IInv => OnlyWholeDocuments BY DEF IInv, OnlyWholeDocuments
<1>2. QED BY <1>1, Invariance, PTL

\* Temporaries outlive only processes that were killed or could not unlink.
THEOREM NoLitter == Spec => []TempsOwned
<1>1. IInv => TempsOwned BY DEF IInv
<1>2. QED BY <1>1, Invariance, PTL

\* Undoing the creation of the directory never takes a file of another process
\* with it.
THEOREM DirectoryStays == Spec => []DirectoryHoldsFiles
<1>1. IInv => DirectoryHoldsFiles BY DEF IInv
<1>2. QED BY <1>1, Invariance, PTL

---------------------------------------------------------------------------
(* The register the store implements.                                      *)

regvars == <<Content, Durable, Reply>>

\* The system calls before the commit, and those after it, are invisible.
LEMMA QuietStep ==
    ASSUME IInv, NEW w \in Writers,
           Probe(w) \/ WriteTemporary(w) \/ SyncTemporary(w) \/ RemoveDirectory(w)
    PROVE  UNCHANGED regvars
<1> USE StoreAssumption
<1> USE DEF IInv, TypeOK, TargetComplete, WriterOK, ReaderOK, Private, Inodes,
            disk, Content, Durable, Reply, regvars
<1>1. CASE Probe(w)
  BY <1>1 DEF Probe
<1>2. CASE WriteTemporary(w)
  BY <1>2 DEF WriteTemporary
<1>3. CASE SyncTemporary(w)
  BY <1>3 DEF SyncTemporary
<1>4. CASE RemoveDirectory(w)
  BY <1>4 DEF RemoveDirectory
<1>5. QED BY <1>1, <1>2, <1>3, <1>4

\* A writer's answer is the register's answer.
LEMMA WriterAnswer ==
    ASSUME IInv, NEW w \in Writers, NEW answer,
           outcome' = [outcome EXCEPT ![w] = answer], UNCHANGED <<data, held>>
    PROVE  /\ Reply' = [Reply EXCEPT ![w] = answer]
           /\ Reply[w] = outcome[w]
           /\ w \in Writers \cup Readers
<1> DEFINE Processes == Writers \cup Readers
<1>1. w \notin Readers
  BY StoreAssumption
<1>2. outcome' = [p \in Processes |-> IF p = w THEN answer ELSE outcome[p]]
  BY DEF IInv, TypeOK
<1>3. ASSUME NEW p \in Processes
      PROVE  (IF p \in Readers /\ held[p] # Nil THEN data[held[p]] ELSE outcome'[p])
               = IF p = w THEN answer ELSE Reply[p]
  BY <1>1, <1>2 DEF Reply
<1>4. Reply' = [p \in Processes |-> IF p = w THEN answer ELSE Reply[p]]
  BY <1>3 DEF Reply
<1>5. [Reply EXCEPT ![w] = answer]
        = [p \in Processes |-> IF p = w THEN answer ELSE Reply[p]]
  BY DEF Reply
<1>6. QED BY <1>1, <1>4, <1>5 DEF Reply

\* Every other step of a writer answers its caller as the register does.
LEMMA WriterStepRefines ==
    ASSUME IInv, NEW w \in Writers, WriterStep(w)
    PROVE  Register!Next \/ UNCHANGED regvars
<1> USE StoreAssumption
<1> USE DEF IInv, TypeOK, TargetComplete, WriterOK, Inodes, disk, Content,
            Durable, Raise
<1>1. CASE Compare(w)
  <2>1. outcome[w] = "none" /\ UNCHANGED <<Content, Durable, data, held>>
    BY <1>1 DEF Compare
  <2>2. CASE outcome' = [outcome EXCEPT ![w] = "failed"]
    <3>1. Register!Fail(w)
      BY <2>1, <2>2, WriterAnswer DEF Register!Fail, Register!Answer
    <3>2. QED BY <3>1 DEF Register!Next
  <2>3. CASE outcome' = [outcome EXCEPT ![w] = "unchanged"] /\ Content = doc[w]
    <3>1. Register!ReplaceUnchanged(w, doc[w])
      BY <2>1, <2>3, WriterAnswer DEF Register!ReplaceUnchanged, Register!Answer
    <3>2. QED BY <3>1 DEF Register!Next
  <2>4. CASE UNCHANGED outcome
    BY <2>1, <2>4 DEF Reply, regvars
  <2>5. QED BY <1>1, <2>2, <2>3, <2>4 DEF Compare
<1>2. CASE MakeDirectory(w) \/ MakeTemporary(w) \/ WriteFails(w) \/ CommitFails(w)
  <2>1. outcome[w] = "none" /\ UNCHANGED <<Content, Durable, data, held>>
    BY <1>2 DEF MakeDirectory, MakeTemporary, WriteFails, CommitFails
  <2>2. CASE outcome' = [outcome EXCEPT ![w] = "failed"]
    <3>1. Register!Fail(w)
      BY <2>1, <2>2, WriterAnswer DEF Register!Fail, Register!Answer
    <3>2. QED BY <3>1 DEF Register!Next
  <2>3. CASE UNCHANGED outcome
    BY <2>1, <2>3 DEF Reply, regvars
  <2>4. QED BY <1>2, <2>2, <2>3 DEF MakeDirectory, MakeTemporary, WriteFails, CommitFails
<1>3. CASE Link(w)
  <2>1. outcome[w] = "none" /\ data[w] = doc[w] /\ UNCHANGED <<Durable, data, held>>
    BY <1>3 DEF Link
  <2>2. CASE target = Nil
    <3>1. Content = Nil /\ Content' = doc[w]
      BY <1>3, <2>1, <2>2 DEF Link
    <3>2. Register!Create(w, doc[w])
      BY <1>3, <2>1, <2>2, <3>1, WriterAnswer DEF Link, Register!Create, Register!Answer
    <3>3. QED BY <3>2 DEF Register!Next
  <2>3. CASE target # Nil
    <3>1. Content # Nil /\ UNCHANGED Content
      BY <1>3, <2>1, <2>3 DEF Link
    <3>2. Register!CreateRefused(w)
      BY <1>3, <2>1, <2>3, <3>1, WriterAnswer
         DEF Link, Register!CreateRefused, Register!Answer
    <3>3. QED BY <3>2 DEF Register!Next
  <2>4. QED BY <2>2, <2>3
<1>4. CASE Rename(w)
  <2>1. outcome[w] = "none" /\ Content' = doc[w] /\ UNCHANGED <<Durable, data, held>>
    BY <1>4 DEF Rename
  <2>2. Register!Replace(w, doc[w])
    BY <1>4, <2>1, WriterAnswer DEF Rename, Register!Replace, Register!Answer
  <2>3. QED BY <2>2 DEF Register!Next
<1>5. CASE UnlinkTemporary(w)
  BY <1>5 DEF UnlinkTemporary, Reply, regvars
<1>6. CASE UnlinkFails(w)
  <2>1. UNCHANGED <<Content, Durable, data, held>>
    BY <1>6 DEF UnlinkFails
  <2>2. CASE outcome[w] = "failed"
    BY <1>6, <2>1, <2>2 DEF UnlinkFails, Reply, regvars
  <2>3. CASE outcome[w] # "failed"
    <3>1. Register!FailLate(w)
      BY <1>6, <2>1, <2>3, WriterAnswer DEF UnlinkFails, Register!FailLate
    <3>2. QED BY <3>1 DEF Register!Next
  <2>4. QED BY <2>2, <2>3
<1>7. QED BY <1>1, <1>2, <1>3, <1>4, <1>5, <1>6, QuietStep DEF WriterStep

\* A reader's answer is its outcome, or what the file it opened holds.
LEMMA ReaderAnswer ==
    ASSUME IInv, NEW r \in Readers, NEW answer, pc[r] \in {"start", "open"},
           UNCHANGED data,
           \/ outcome' = [outcome EXCEPT ![r] = answer] /\ UNCHANGED held
           \/ /\ held' = [held EXCEPT ![r] = target] /\ UNCHANGED outcome
              /\ target # Nil /\ answer = data[target]
    PROVE  Register!Answer(r, answer)
<1> DEFINE Processes == Writers \cup Readers
<1>1. r \in Processes /\ held[r] = Nil /\ outcome[r] = "none" /\ Reply[r] = "none"
  BY DEF IInv, ReaderOK, Reply
<1>2. /\ held'[r] # Nil => answer = data[held'[r]]
      /\ held'[r] = Nil => answer = outcome'[r]
      /\ \A p \in Readers \ {r} : held'[p] = held[p]
      /\ \A p \in Processes \ {r} : outcome'[p] = outcome[p]
  BY <1>1 DEF IInv, TypeOK
<1>3. ASSUME NEW p \in Processes
      PROVE  (IF p \in Readers /\ held'[p] # Nil THEN data[held'[p]] ELSE outcome'[p])
               = IF p = r THEN answer ELSE Reply[p]
  BY <1>2 DEF Reply
<1>4. Reply' = [p \in Processes |-> IF p = r THEN answer ELSE Reply[p]]
  BY <1>3 DEF Reply
<1>5. [Reply EXCEPT ![r] = answer]
        = [p \in Processes |-> IF p = r THEN answer ELSE Reply[p]]
  BY DEF Reply
<1>6. QED BY <1>1, <1>4, <1>5 DEF Register!Answer

\* A load reads the register when it opens the file.
LEMMA ReaderStepRefines ==
    ASSUME IInv, NEW r \in Readers, ReaderStep(r)
    PROVE  Register!Next \/ UNCHANGED regvars
<1> USE DEF disk, Content, Durable
<1> r \in Writers \cup Readers
  OBVIOUS
<1>1. CASE FindBaseline(r)
  <2>1. CASE target = Nil
    <3>1. Register!Read(r)
      BY <1>1, <2>1, ReaderAnswer DEF FindBaseline, Register!Read
    <3>2. QED BY <3>1 DEF Register!Next
  <2>2. CASE target # Nil
    BY <1>1, <2>2 DEF FindBaseline, Reply, regvars
  <2>3. QED BY <2>1, <2>2
<1>2. CASE OpenBaseline(r)
  <2>1. CASE target = Nil
    <3>1. Register!Fail(r)
      BY <1>2, <2>1, ReaderAnswer DEF OpenBaseline, Register!Fail
    <3>2. QED BY <3>1 DEF Register!Next
  <2>2. CASE target # Nil
    <3>1. Register!Read(r)
      BY <1>2, <2>2, ReaderAnswer DEF OpenBaseline, Register!Read
    <3>2. QED BY <3>1 DEF Register!Next
  <2>3. QED BY <2>1, <2>2
<1>3. CASE ReadBaseline(r)
  <2>1. \A p \in Writers \cup Readers :
          Reply[p] = IF p \in Readers /\ held[p] # Nil THEN data[held[p]] ELSE outcome'[p]
    BY <1>3 DEF ReadBaseline, Reply, IInv, TypeOK, ReaderOK
  <2>2. UNCHANGED Reply
    BY <1>3, <2>1 DEF ReadBaseline, Reply
  <2>3. QED BY <1>3, <2>2 DEF ReadBaseline, regvars
<1>4. QED BY <1>1, <1>2, <1>3 DEF ReaderStep

\* Deleting, flushing and losing the directory are steps of the register; a
\* power loss leaves every document that can be read as it was.
LEMMA EnvironmentRefines ==
    ASSUME IInv,
           (\E w \in Writers : Crash(w)) \/ RemoveTarget \/ FlushDirectory \/ PowerLoss
    PROVE  Register!Next \/ UNCHANGED regvars
<1> USE DEF disk, Content, Durable
<1>1. CASE \E w \in Writers : Crash(w)
  BY <1>1 DEF Crash, Reply, regvars
<1>2. CASE RemoveTarget
  <2>1. Register!Remove
    BY <1>2 DEF RemoveTarget, Register!Remove, Reply
  <2>2. QED BY <2>1 DEF Register!Next
<1>3. CASE FlushDirectory
  <2>1. Register!Flush
    BY <1>3 DEF FlushDirectory, Register!Flush, Reply
  <2>2. QED BY <2>1 DEF Register!Next
<1>4. CASE PowerLoss
  <2>1. \A i \in Inodes : i \in synced => data'[i] = data[i]
    BY <1>4 DEF PowerLoss
  <2>2. Content' \in {Content, Durable} /\ Durable' = Content'
    BY <1>4, <2>1 DEF PowerLoss, IInv, TypeOK, TargetComplete
  <2>3. \A p \in Writers \cup Readers :
          Reply[p] = IF p \in Readers /\ held[p] # Nil THEN data'[held[p]] ELSE outcome[p]
    BY <2>1 DEF Reply, IInv, TypeOK, ReaderOK
  <2>4. UNCHANGED Reply
    BY <1>4, <2>3 DEF PowerLoss, Reply
  <2>5. Register!PowerLoss
    BY <2>2, <2>4 DEF Register!PowerLoss
  <2>6. QED BY <2>5 DEF Register!Next
<1>5. QED BY <1>1, <1>2, <1>3, <1>4

\* Every behaviour of the store, whatever the interleaving of its system calls,
\* crashes and power losses, is one of the atomic register.
THEOREM Refinement == Spec => RefinesRegister
<1>1. Init => Register!Init
  <2>1. ASSUME Init PROVE Content \in Docs \cup {Nil} /\ Durable = Content
    BY <2>1, StoreAssumption DEF Init, Content, Durable, Inodes
  <2>2. ASSUME Init
        PROVE  \A p \in Writers \cup Readers :
                 (IF p \in Readers /\ held[p] # Nil THEN data[held[p]] ELSE outcome[p]) = "none"
    BY <2>2 DEF Init
  <2>3. Init => Reply = [p \in Writers \cup Readers |-> "none"]
    BY <2>2 DEF Reply
  <2>4. QED BY <2>1, <2>3 DEF Register!Init
<1>2. IInv /\ [Next]_vars => [Register!Next]_(Register!vars)
  <2>1. ASSUME IInv, Next PROVE Register!Next \/ UNCHANGED regvars
    BY <2>1, WriterStepRefines, ReaderStepRefines, EnvironmentRefines DEF Next
  <2>2. ASSUME UNCHANGED vars PROVE UNCHANGED regvars
    BY <2>2 DEF vars, disk, regvars, Content, Durable, Reply
  <2>3. QED BY <2>1, <2>2 DEF Register!vars, regvars
<1>3. QED BY <1>1, <1>2, Invariance, PTL DEF Spec, RefinesRegister, Register!Spec
=============================================================================
