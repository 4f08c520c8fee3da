------------------------- MODULE BaselineRegister -------------------------
(***************************************************************************)
(* What the baseline store promises its callers, with the file system      *)
(* forgotten: one document that is absent or whole, created only when      *)
(* absent, replaced in one step, and read in one step.  AtomicStore, which *)
(* models the system calls of baseline_files.py, implements it.            *)
(***************************************************************************)
CONSTANTS
    Clients,        \* command invocations that read or write the baseline
    Docs,           \* document contents
    Absent          \* the content of a baseline that does not exist

VARIABLES
    content,        \* the document every read sees now
    durable,        \* the document a power loss may bring back
    reply           \* what each client was answered, "none" before that

vars == <<content, durable, reply>>

Replies == {"none", "created", "exists", "replaced", "unchanged", "failed"}
             \cup Docs \cup {Absent}

Answer(c, r) == /\ reply[c] = "none"
                /\ reply' = [reply EXCEPT ![c] = r]

Init ==
    /\ content \in Docs \cup {Absent}
    /\ durable = content
    /\ reply = [c \in Clients |-> "none"]

Create(c, d) ==
    /\ content = Absent
    /\ content' = d
    /\ Answer(c, "created")
    /\ UNCHANGED durable

CreateRefused(c) ==
    /\ content # Absent
    /\ Answer(c, "exists")
    /\ UNCHANGED <<content, durable>>

Replace(c, d) ==
    /\ content' = d
    /\ Answer(c, "replaced")
    /\ UNCHANGED durable

\* An update whose document is the stored one writes nothing.
ReplaceUnchanged(c, d) ==
    /\ content = d
    /\ Answer(c, "unchanged")
    /\ UNCHANGED <<content, durable>>

Read(c) ==
    /\ Answer(c, content)
    /\ UNCHANGED <<content, durable>>

Fail(c) ==
    /\ Answer(c, "failed")
    /\ UNCHANGED <<content, durable>>

\* A write that took effect may still be reported as failed.
FailLate(c) ==
    /\ reply[c] \in {"created", "exists", "replaced"}
    /\ reply' = [reply EXCEPT ![c] = "failed"]
    /\ UNCHANGED <<content, durable>>

\* A user or a checkout deletes the file.
Remove ==
    /\ content' = Absent
    /\ UNCHANGED <<durable, reply>>

Flush ==
    /\ durable' = content
    /\ UNCHANGED <<content, reply>>

PowerLoss ==
    /\ content' \in {content, durable}
    /\ durable' = content'
    /\ UNCHANGED reply

Next ==
    \/ \E c \in Clients, d \in Docs :
          Create(c, d) \/ Replace(c, d) \/ ReplaceUnchanged(c, d)
    \/ \E c \in Clients : CreateRefused(c) \/ Read(c) \/ Fail(c) \/ FailLate(c)
    \/ Remove
    \/ Flush
    \/ PowerLoss

Spec == Init /\ [][Next]_vars
===========================================================================
