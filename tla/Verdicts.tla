----------------------------- MODULE Verdicts -----------------------------
(***************************************************************************)
(* The verdicts of the guards that baselines can change: a file's lines    *)
(* (guards/loc.py), a callable's measure (apply() on the findings of the   *)
(* callable guards) and a document's lines (markdown_document_size.py).    *)
(* An allowance of 0 is no entry.                                          *)
(***************************************************************************)
EXTENDS Integers, Sequences, FiniteSetsExt

\* The last matching override decides.
EffectiveThresholds(f, c) ==
    LET matching == {i \in DOMAIN c.overrides : f \in c.overrides[i].match}
    IN  IF matching = {} THEN c ELSE c.overrides[Max(matching)]

\* One loc policy: thresholds, overrides in declaration order, the files no
\* LOC evaluation applies to, and those allowedLargeFiles names.  Every pair
\* of thresholds is ordered, so those in force for a file are.
LocPolicy(c, files) ==
    /\ c.enabled \in BOOLEAN
    /\ c.ratchetAt \in {"fail", "review"}
    /\ c.excluded \in SUBSET files
    /\ c.allowedLarge \in SUBSET files
    /\ \A i \in DOMAIN c.overrides : c.overrides[i].match \in SUBSET files
    /\ \A f \in files :
          LET inForce == EffectiveThresholds(f, c)
          IN  /\ inForce.warnAt \in Nat \ {0} /\ inForce.failAt \in Nat
              /\ inForce.warnAt < inForce.failAt

\* What the ratchet records and enforces above.
Threshold(f, c) ==
    IF c.ratchetAt = "review"
    THEN EffectiveThresholds(f, c).warnAt
    ELSE EffectiveThresholds(f, c).failAt

Finding(native, state, status) ==
    [nativeStatus |-> native, state |-> state, ratchetStatus |-> status]

\* Mutant: a file without an entry counts as grandfathered.
EvaluateLenient(f, n, c, allowance) ==
    IF n > EffectiveThresholds(f, c).failAt
    THEN IF allowance = 0 \/ n <= allowance
         THEN Finding("grandfathered", "review", "within")
         ELSE Finding("ratchetExceeded", "fail", "exceeded")
    ELSE Finding("ok", "pass", "notNeeded")

\* evaluate(): the finding for n counted lines under an allowance, 0 for none.
Evaluate(f, n, c, allowance) ==
    LET warnAt == EffectiveThresholds(f, c).warnAt
        failAt == EffectiveThresholds(f, c).failAt
        unneeded == IF allowance = 0 THEN "none" ELSE "notNeeded"
        ordinary == IF n > warnAt THEN Finding("warn", "review", unneeded)
                                  ELSE Finding("ok", "pass", unneeded)
    IN  IF f \in c.allowedLarge /\ n > warnAt
        THEN Finding("exempt", "pass", unneeded)
        ELSE IF c.ratchetAt = "review" /\ allowance # 0
        THEN IF n > allowance THEN Finding("ratchetExceeded", "fail", "exceeded")
             ELSE IF n > failAt THEN Finding("grandfathered", "review", "within")
             ELSE IF n > warnAt THEN Finding("warn", "review", "within")
             ELSE Finding("ok", "pass", "notNeeded")
        ELSE IF n > failAt
        THEN IF allowance = 0 THEN Finding("fail", "fail", "none")
             ELSE IF n <= allowance THEN Finding("grandfathered", "review", "within")
             ELSE Finding("ratchetExceeded", "fail", "exceeded")
        ELSE ordinary

---------------------------------------------------------------------------
Verdict(state, status) == [state |-> state, ratchetStatus |-> status]

\* A ceiling above the threshold moves it; one that the measure has come to
\* the threshold or below is not needed.
JudgeCallable(measured, reviewAt, allowed) ==
    IF allowed = 0
    THEN Verdict(IF measured > reviewAt THEN "review" ELSE "pass", "none")
    ELSE IF measured <= reviewAt THEN Verdict("pass", "notNeeded")
    ELSE IF measured <= allowed THEN Verdict("pass", "withinAllowance")
    ELSE Verdict("review", "grown")

JudgeDocument(lines, reviewAt, allowance) ==
    IF allowance = 0
    THEN Verdict(IF lines > reviewAt THEN "review" ELSE "pass", "none")
    ELSE IF lines <= reviewAt THEN Verdict("pass", "notNeeded")
    ELSE IF lines <= allowance THEN Verdict("pass", "within")
    ELSE Verdict("review", "exceeded")
===========================================================================
