------------------------ MODULE PolicyHistory_proofs ------------------------
(***************************************************************************)
(* Proofs about PolicyHistory and the comparison it runs, for any files,   *)
(* declarations, guards, policies and length of the branch.                *)
(***************************************************************************)
EXTENDS PolicyHistory, TLAPS, WellFoundedInduction, SequenceTheorems

---------------------------------------------------------------------------
(* What an empty list of reasons says.                                     *)

TableTightens(b, a) == \A x \in DOMAIN a : a[x] # 0 => b[x] # 0 /\ a[x] <= b[x]

ReviewsTighten(b, a) ==
    \A g \in ReviewGuards : b[g].enabled => a[g].enabled /\ a[g].reviewAt <= b[g].reviewAt

OverridesTighten(b, a) ==
    /\ DOMAIN b = DOMAIN a
    /\ \A i \in DOMAIN a :
          /\ a[i].match = b[i].match
          /\ a[i].warnAt <= b[i].warnAt
          /\ a[i].failAt <= b[i].failAt

LocTightens(b, a) ==
    b.enabled =>
        /\ a.enabled
        /\ a.warnAt <= b.warnAt /\ a.failAt <= b.failAt
        /\ ~(b.ratchetAt = "review" /\ a.ratchetAt = "fail")
        /\ b.countBlank => a.countBlank
        /\ b.countComments => a.countComments
        /\ b.extensions \subseteq a.extensions
        /\ a.exclude \subseteq b.exclude
        /\ a.allowedLarge \subseteq b.allowedLarge
        /\ OverridesTighten(b.overrides, a.overrides)

\* compare(): no reason is left exactly when each control is as tight as before.
Tightens(b, a) ==
    /\ LocTightens(b.loc, a.loc)
    /\ ReviewsTighten(b.reviews, a.reviews)
    /\ a.scope \subseteq b.scope
    /\ TableTightens(b.allowed, a.allowed)
    /\ TableTightens(b.reviewed, a.reviewed)

\* A list of reasons is empty exactly when nothing is listed.
LEMMA NoReasons == ASSUME NEW code, NEW S PROVE Reasons(code, S) = {} <=> S = {}
BY DEF Reasons

\* A union is empty exactly when its members are.
LEMMA EmptyUnion ==
    /\ \A A, B, C, D, E :
          UNION {A, B, C, D, E} = {} <=> A = {} /\ B = {} /\ C = {} /\ D = {} /\ E = {}
    /\ \A A, B, C, D, E, F, G :
          UNION {A, B, C, D, E, F, G} = {} <=>
              A = {} /\ B = {} /\ C = {} /\ D = {} /\ E = {} /\ F = {} /\ G = {}
OBVIOUS

\* Marking the items of a list leaves it as empty as it was.
LEMMA Tagged == ASSUME NEW S PROVE {<<x>> : x \in S} = {} <=> S = {}
OBVIOUS

\* _allowance_reasons and _callable_reasons of two tables over the same paths.
LEMMA QuietTable ==
    ASSUME NEW X, NEW b \in [X -> Nat], NEW a \in [X -> Nat]
    PROVE  AllowanceReasons(b, a) = {} <=> TableTightens(b, a)
<1> DEFINE A == {x \in DOMAIN a : a[x] # 0 /\ b[x] = 0}
           I == {x \in DOMAIN a : b[x] # 0 /\ a[x] > b[x]}
<1>1. AllowanceReasons(b, a) = {} <=> A = {} /\ I = {}
  <2>1. AllowanceReasons(b, a)
            = Reasons("allowanceAdded", A) \cup Reasons("allowanceIncreased", I)
    BY DEF AllowanceReasons
  <2> HIDE DEF A, I
  <2> QED BY <2>1, NoReasons
<1>2. A = {} /\ I = {} <=> TableTightens(b, a)
  <2>1. DOMAIN a = X
    OBVIOUS
  <2>2. ASSUME A = {}, I = {} PROVE TableTightens(b, a)
    BY <2>1, <2>2 DEF TableTightens
  <2>3. ASSUME TableTightens(b, a) PROVE A = {} /\ I = {}
    BY <2>1, <2>3 DEF TableTightens
  <2> QED BY <2>2, <2>3
<1> QED BY <1>1, <1>2

\* The comparison of the guards with one threshold.
LEMMA QuietReviews ==
    ASSUME NEW b \in [ReviewGuards -> [enabled : BOOLEAN, reviewAt : Nat \ {0}]],
           NEW a \in [ReviewGuards -> [enabled : BOOLEAN, reviewAt : Nat \ {0}]]
    PROVE  ReviewReasons(b, a) = {} <=> ReviewsTighten(b, a)
<1> DEFINE D == {g \in ReviewGuards : b[g].enabled /\ ~a[g].enabled}
           T == {g \in ReviewGuards :
                    b[g].enabled /\ a[g].enabled /\ a[g].reviewAt > b[g].reviewAt}
<1>1. ReviewReasons(b, a) = {} <=> D = {} /\ T = {}
  <2>1. ReviewReasons(b, a) = Reasons("guardDisabled", {<<g>> : g \in D})
            \cup Reasons("thresholdIncreased", {<<g>> : g \in T})
    BY DEF ReviewReasons
  <2> HIDE DEF D, T
  <2>2. /\ Reasons("guardDisabled", {<<g>> : g \in D}) = {} <=> {<<g>> : g \in D} = {}
        /\ Reasons("thresholdIncreased", {<<g>> : g \in T}) = {} <=> {<<g>> : g \in T} = {}
    BY NoReasons, Zenon
  <2>3. ({<<g>> : g \in D} = {} <=> D = {}) /\ ({<<g>> : g \in T} = {} <=> T = {})
    BY Tagged, Zenon
  <2> QED BY <2>1, <2>2, <2>3
<1>2. D = {} /\ T = {} <=> ReviewsTighten(b, a)
  <2>1. ASSUME D = {}, T = {} PROVE ReviewsTighten(b, a)
    BY <2>1 DEF ReviewsTighten
  <2>2. ASSUME ReviewsTighten(b, a) PROVE D = {} /\ T = {}
    BY <2>2 DEF ReviewsTighten
  <2> QED BY <2>1, <2>2
<1> QED BY <1>1, <1>2

\* The overrides of a policy have thresholds.
LEMMA OverrideTypes ==
    ASSUME NEW c, IsLocPolicy(c), NEW i \in DOMAIN c.overrides
    PROVE  /\ c.overrides[i].match \in SUBSET Patterns
           /\ c.overrides[i].warnAt \in Nat /\ c.overrides[i].failAt \in Nat
           /\ c.overrides[i].warnAt < c.overrides[i].failAt
<1>1. c.overrides \in Seq([match : SUBSET Patterns, warnAt : Nat, failAt : Nat])
  BY DEF IsLocPolicy
<1>2. i \in 1..Len(c.overrides)
  BY <1>1
<1>3. c.overrides[i] \in [match : SUBSET Patterns, warnAt : Nat, failAt : Nat]
  BY <1>1, <1>2, ElementOfSeq
<1> QED BY <1>3 DEF IsLocPolicy

\* _override_reasons: equal topology and no larger threshold.
LEMMA QuietOverrides ==
    ASSUME NEW b \in Seq([match : SUBSET Patterns, warnAt : Nat, failAt : Nat]),
           NEW a \in Seq([match : SUBSET Patterns, warnAt : Nat, failAt : Nat])
    PROVE  OverrideReasons(b, a) = {} <=> OverridesTighten(b, a)
<1> DEFINE T == {x \in (DOMAIN a) \X Limits : a[x[1]][x[2]] > b[x[1]][x[2]]}
<1>1. Topology(b) = Topology(a)
          <=> DOMAIN b = DOMAIN a /\ \A i \in DOMAIN a : a[i].match = b[i].match
  <2>1. DOMAIN Topology(b) = DOMAIN b /\ DOMAIN Topology(a) = DOMAIN a
    BY DEF Topology
  <2>2. /\ \A i \in DOMAIN b : Topology(b)[i] = b[i].match
        /\ \A i \in DOMAIN a : Topology(a)[i] = a[i].match
    BY DEF Topology
  <2>3. ASSUME DOMAIN b = DOMAIN a, \A i \in DOMAIN a : a[i].match = b[i].match
        PROVE  Topology(b) = Topology(a)
    BY <2>3 DEF Topology
  <2> QED BY <2>1, <2>2, <2>3
<1>2. ASSUME Topology(b) = Topology(a)
      PROVE  T = {} <=> \A i \in DOMAIN a : a[i].warnAt <= b[i].warnAt /\ a[i].failAt <= b[i].failAt
  <2>1. \A i \in DOMAIN a : b[i].warnAt \in Nat /\ b[i].failAt \in Nat
                            /\ a[i].warnAt \in Nat /\ a[i].failAt \in Nat
    <3>1. DOMAIN b = DOMAIN a
      BY <1>1, <1>2
    <3>2. /\ \A i \in DOMAIN a : a[i] \in [match : SUBSET Patterns, warnAt : Nat, failAt : Nat]
          /\ \A i \in DOMAIN b : b[i] \in [match : SUBSET Patterns, warnAt : Nat, failAt : Nat]
      <4>1. DOMAIN a = 1..Len(a) /\ DOMAIN b = 1..Len(b)
        OBVIOUS
      <4> QED BY <4>1, ElementOfSeq
    <3> QED BY <3>1, <3>2
  <2>2. T = {} <=> \A x \in (DOMAIN a) \X Limits : ~(a[x[1]][x[2]] > b[x[1]][x[2]])
    OBVIOUS
  <2>3. ASSUME T = {}, NEW i \in DOMAIN a
        PROVE  a[i].warnAt <= b[i].warnAt /\ a[i].failAt <= b[i].failAt
    <3>1. <<i, "warnAt">> \in (DOMAIN a) \X Limits /\ <<i, "failAt">> \in (DOMAIN a) \X Limits
      BY DEF Limits
    <3>2. ~(a[i]["warnAt"] > b[i]["warnAt"]) /\ ~(a[i]["failAt"] > b[i]["failAt"])
      BY <2>2, <2>3, <3>1
    <3> QED BY <2>1, <3>2
  <2>4. ASSUME \A i \in DOMAIN a : a[i].warnAt <= b[i].warnAt /\ a[i].failAt <= b[i].failAt,
               NEW x \in (DOMAIN a) \X Limits
        PROVE  ~(a[x[1]][x[2]] > b[x[1]][x[2]])
    <3>1. PICK i \in DOMAIN a, t \in Limits : x = <<i, t>>
      OBVIOUS
    <3>2. a[i]["warnAt"] <= b[i]["warnAt"] /\ a[i]["failAt"] <= b[i]["failAt"]
      BY <2>4
    <3> QED BY <2>1, <3>1, <3>2 DEF Limits
  <2> HIDE DEF T
  <2> QED BY <2>2, <2>3, <2>4
<1>3. CASE Topology(b) = Topology(a)
  <2>1. OverrideReasons(b, a) = Reasons("thresholdIncreased", T)
    BY <1>3 DEF OverrideReasons
  <2>2. OverrideReasons(b, a) = {} <=> T = {}
    BY <2>1, NoReasons
  <2> HIDE DEF T
  <2> QED BY <1>1, <1>2, <1>3, <2>2 DEF OverridesTighten
<1>4. CASE Topology(b) # Topology(a)
  <2>1. OverrideReasons(b, a) # {}
    BY <1>4 DEF OverrideReasons, Reasons
  <2> QED BY <1>1, <1>4, <2>1 DEF OverridesTighten
<1> QED BY <1>3, <1>4

\* _configuration_reasons, the part that looks at guards.loc.
LEMMA QuietLoc ==
    ASSUME NEW b, NEW a, IsLocPolicy(b), IsLocPolicy(a)
    PROVE  LocReasons(b, a) = {} <=> LocTightens(b, a)
<1> DEFINE T == {t \in Limits : a[t] > b[t]}
           M == {x \in {<<"ratchetAt">>} : b.ratchetAt = "review" /\ a.ratchetAt = "fail"}
           K == {k \in {"countBlank", "countComments"} : b[k] /\ ~a[k]}
<1>1. CASE ~b.enabled
  BY <1>1 DEF LocReasons, LocTightens
<1>2. CASE b.enabled /\ ~a.enabled
  <2>1. LocReasons(b, a) # {}
    BY <1>2 DEF LocReasons, Reasons
  <2> QED BY <1>2, <2>1 DEF LocTightens
<1>3. CASE b.enabled /\ a.enabled
  <2>1. LocReasons(b, a) = {} <=>
          /\ {<<t>> : t \in T} = {} /\ M = {} /\ {<<k>> : k \in K} = {}
          /\ b.extensions \ a.extensions = {} /\ a.exclude \ b.exclude = {}
          /\ a.allowedLarge \ b.allowedLarge = {}
          /\ OverrideReasons(b.overrides, a.overrides) = {}
    <3> DEFINE A1 == Reasons("thresholdIncreased", {<<t>> : t \in T})
               A2 == Reasons("ratchetModeWeakened", M)
               A3 == Reasons("countedEvidenceReduced", {<<k>> : k \in K})
               A4 == Reasons("extensionRemoved", b.extensions \ a.extensions)
               A5 == Reasons("exclusionAdded", a.exclude \ b.exclude)
               A6 == Reasons("exemptionAdded", a.allowedLarge \ b.allowedLarge)
               A7 == OverrideReasons(b.overrides, a.overrides)
    <3>1. LocReasons(b, a) = UNION {A1, A2, A3, A4, A5, A6, A7}
      BY <1>3 DEF LocReasons
    <3> HIDE DEF T, M, K
    <3>2. /\ A1 = {} <=> {<<t>> : t \in T} = {}
          /\ A2 = {} <=> M = {}
          /\ A3 = {} <=> {<<k>> : k \in K} = {}
          /\ A4 = {} <=> b.extensions \ a.extensions = {}
          /\ A5 = {} <=> a.exclude \ b.exclude = {}
          /\ A6 = {} <=> a.allowedLarge \ b.allowedLarge = {}
          /\ A7 = {} <=> OverrideReasons(b.overrides, a.overrides) = {}
      BY NoReasons, Zenon
    <3> HIDE DEF A1, A2, A3, A4, A5, A6, A7
    <3>3. LocReasons(b, a) = {} <=> A1 = {} /\ A2 = {} /\ A3 = {} /\ A4 = {} /\ A5 = {}
                                      /\ A6 = {} /\ A7 = {}
      BY <3>1, EmptyUnion
    <3> QED BY <3>2, <3>3, Zenon
  <2>2. {<<t>> : t \in T} = {} <=> a.warnAt <= b.warnAt /\ a.failAt <= b.failAt
    <3>1. T = {} <=> \A t \in Limits : ~(a[t] > b[t])
      OBVIOUS
    <3>2. T = {} <=> ~(a["warnAt"] > b["warnAt"]) /\ ~(a["failAt"] > b["failAt"])
      BY <3>1 DEF Limits
    <3>3. T = {} <=> a.warnAt <= b.warnAt /\ a.failAt <= b.failAt
      BY <3>2 DEF IsLocPolicy
    <3> HIDE DEF T
    <3> QED BY <3>3, Tagged
  <2>3. M = {} <=> ~(b.ratchetAt = "review" /\ a.ratchetAt = "fail")
    OBVIOUS
  <2>4. {<<k>> : k \in K} = {} <=> (b.countBlank => a.countBlank) /\ (b.countComments => a.countComments)
    <3>1. K = {} <=> \A k \in {"countBlank", "countComments"} : ~(b[k] /\ ~a[k])
      OBVIOUS
    <3>2. K = {} <=> ~(b["countBlank"] /\ ~a["countBlank"]) /\ ~(b["countComments"] /\ ~a["countComments"])
      BY <3>1
    <3> HIDE DEF K
    <3> QED BY <3>2, Tagged
  <2>5. OverrideReasons(b.overrides, a.overrides) = {} <=> OverridesTighten(b.overrides, a.overrides)
    BY QuietOverrides DEF IsLocPolicy
  <2> HIDE DEF T, M, K
  <2> QED BY <1>3, <2>1, <2>2, <2>3, <2>4, <2>5 DEF LocTightens
<1> QED BY <1>1, <1>2, <1>3 DEF IsLocPolicy

\* compare() passes exactly when every control is at least as tight as before.
THEOREM PassMeansTighter ==
    ASSUME NEW b, NEW a, IsPolicy(b), IsPolicy(a)
    PROVE  Compare(b, a) = "pass" <=> Tightens(b, a)
<1>1. Compare(b, a) = "pass" <=> Relaxations(b, a) = {}
  BY DEF Compare
<1>2. Relaxations(b, a) = {} <=>
        /\ LocReasons(b.loc, a.loc) = {} /\ ReviewReasons(b.reviews, a.reviews) = {}
        /\ a.scope \ b.scope = {} /\ AllowanceReasons(b.allowed, a.allowed) = {}
        /\ AllowanceReasons(b.reviewed, a.reviewed) = {}
  <2>1. Relaxations(b, a) = UNION {
          LocReasons(b.loc, a.loc), ReviewReasons(b.reviews, a.reviews),
          Reasons("exclusionAdded", a.scope \ b.scope),
          AllowanceReasons(b.allowed, a.allowed), AllowanceReasons(b.reviewed, a.reviewed)}
    BY DEF Relaxations
  <2>2. Reasons("exclusionAdded", a.scope \ b.scope) = {} <=> a.scope \ b.scope = {}
    BY NoReasons
  <2> QED BY <2>1, <2>2, EmptyUnion, Zenon
<1>3. LocReasons(b.loc, a.loc) = {} <=> LocTightens(b.loc, a.loc)
  BY QuietLoc DEF IsPolicy
<1>4. ReviewReasons(b.reviews, a.reviews) = {} <=> ReviewsTighten(b.reviews, a.reviews)
  BY QuietReviews DEF IsPolicy
<1>5. /\ AllowanceReasons(b.allowed, a.allowed) = {} <=> TableTightens(b.allowed, a.allowed)
      /\ AllowanceReasons(b.reviewed, a.reviewed) = {} <=> TableTightens(b.reviewed, a.reviewed)
  BY QuietTable DEF IsPolicy
<1> QED BY <1>1, <1>2, <1>3, <1>4, <1>5 DEF Tightens

---------------------------------------------------------------------------
(* Quiet comparisons compose.                                              *)

\* Every policy is as tight as itself.
LEMMA TightensReflexive == ASSUME NEW p, IsPolicy(p) PROVE Tightens(p, p)
<1>1. LocTightens(p.loc, p.loc)
  <2>1. \A i \in DOMAIN p.loc.overrides :
           p.loc.overrides[i].warnAt \in Nat /\ p.loc.overrides[i].failAt \in Nat
    BY OverrideTypes DEF IsPolicy
  <2> QED BY <2>1 DEF LocTightens, OverridesTighten, IsPolicy, IsLocPolicy
<1>2. ReviewsTighten(p.reviews, p.reviews)
  BY DEF ReviewsTighten, IsPolicy
<1>3. TableTightens(p.allowed, p.allowed) /\ TableTightens(p.reviewed, p.reviewed)
  BY DEF TableTightens, IsPolicy
<1> QED BY <1>1, <1>2, <1>3 DEF Tightens

\* Being as tight is transitive.
LEMMA TightensTransitive ==
    ASSUME NEW p, NEW q, NEW r, IsPolicy(p), IsPolicy(q), IsPolicy(r),
           Tightens(p, q), Tightens(q, r)
    PROVE  Tightens(p, r)
<1>1. LocTightens(p.loc, r.loc)
  <2>1. ASSUME p.loc.enabled PROVE OverridesTighten(p.loc.overrides, r.loc.overrides)
    <3>1. OverridesTighten(p.loc.overrides, q.loc.overrides)
          /\ OverridesTighten(q.loc.overrides, r.loc.overrides)
      BY <2>1 DEF Tightens, LocTightens
    <3>2. \A c \in {p.loc, q.loc, r.loc} : \A i \in DOMAIN c.overrides :
             c.overrides[i].warnAt \in Nat /\ c.overrides[i].failAt \in Nat
      BY OverrideTypes DEF IsPolicy
    <3> QED BY <3>1, <3>2 DEF OverridesTighten
  <2>2. ASSUME p.loc.enabled
        PROVE  q.loc.enabled /\ r.loc.enabled
               /\ r.loc.warnAt <= p.loc.warnAt /\ r.loc.failAt <= p.loc.failAt
    <3>1. p.loc.warnAt \in Nat /\ q.loc.warnAt \in Nat /\ r.loc.warnAt \in Nat
          /\ p.loc.failAt \in Nat /\ q.loc.failAt \in Nat /\ r.loc.failAt \in Nat
      BY DEF IsPolicy, IsLocPolicy
    <3>2. q.loc.enabled /\ q.loc.warnAt <= p.loc.warnAt /\ q.loc.failAt <= p.loc.failAt
      BY <2>2 DEF Tightens, LocTightens
    <3>3. r.loc.enabled /\ r.loc.warnAt <= q.loc.warnAt /\ r.loc.failAt <= q.loc.failAt
      BY <3>2 DEF Tightens, LocTightens
    <3> QED BY <3>1, <3>2, <3>3
  <2>3. ASSUME p.loc.enabled
        PROVE  /\ ~(p.loc.ratchetAt = "review" /\ r.loc.ratchetAt = "fail")
               /\ p.loc.countBlank => r.loc.countBlank
               /\ p.loc.countComments => r.loc.countComments
               /\ p.loc.extensions \subseteq r.loc.extensions
               /\ r.loc.exclude \subseteq p.loc.exclude
               /\ r.loc.allowedLarge \subseteq p.loc.allowedLarge
    BY <2>2, <2>3 DEF Tightens, LocTightens, IsPolicy, IsLocPolicy
  <2> QED BY <2>1, <2>2, <2>3 DEF LocTightens
<1>2. ReviewsTighten(p.reviews, r.reviews)
  BY DEF Tightens, ReviewsTighten, IsPolicy
<1>3. TableTightens(p.allowed, r.allowed)
  BY DEF Tightens, TableTightens, IsPolicy
<1>4. TableTightens(p.reviewed, r.reviewed)
  BY DEF Tightens, TableTightens, IsPolicy
<1>5. r.scope \subseteq p.scope
  BY DEF Tightens
<1> QED BY <1>1, <1>2, <1>3, <1>4, <1>5 DEF Tightens

\* Comparing with oneself is quiet, and quiet comparisons compose: what
\* compare() of policy_relaxation.py passes is a preorder on policies.
THEOREM QuietIsPreorder ==
    /\ \A p : IsPolicy(p) => Compare(p, p) = "pass"
    /\ \A p, q, r :
          /\ IsPolicy(p) /\ IsPolicy(q) /\ IsPolicy(r)
          /\ Compare(p, q) = "pass" /\ Compare(q, r) = "pass"
          => Compare(p, r) = "pass"
<1>1. \A p : IsPolicy(p) => Compare(p, p) = "pass"
  BY PassMeansTighter, TightensReflexive
<1>2. ASSUME NEW p, NEW q, NEW r, IsPolicy(p), IsPolicy(q), IsPolicy(r),
             Compare(p, q) = "pass", Compare(q, r) = "pass"
      PROVE  Compare(p, r) = "pass"
  <2>1. Tightens(p, q) /\ Tightens(q, r)
    BY <1>2, PassMeansTighter
  <2>2. Tightens(p, r)
    BY <1>2, <2>1, TightensTransitive
  <2> QED BY <1>2, <2>2, PassMeansTighter
<1> QED BY <1>1, <1>2

---------------------------------------------------------------------------
(* A quiet comparison is sound: no verdict becomes milder.                 *)

\* The override the last match selects is one of the overrides.
LEMMA LastMatch ==
    ASSUME NEW n \in Nat, NEW M \in SUBSET (1..n), M # {}
    PROVE  Max(M) \in M
<1> DEFINE T == {n - i : i \in M}
           less == OpToRel(<, Nat)
<1>1. T \subseteq Nat /\ T # {}
  <2>1. \A i \in M : n - i \in Nat
    OBVIOUS
  <2>2. PICK i \in M : TRUE
    OBVIOUS
  <2>3. n - i \in T
    OBVIOUS
  <2> QED BY <2>1, <2>3
<1>2. PICK x \in T : \A y \in T : <<y, x>> \notin less
  <2> HIDE DEF T, less
  <2>1. IsWellFoundedOn(less, Nat)
    BY NatLessThanWellFounded DEF less
  <2> QED BY <1>1, <2>1, WFMin
<1>3. \A y \in T : ~(y < x)
  BY <1>1, <1>2 DEF OpToRel
<1>4. PICK i \in M : x = n - i
  OBVIOUS
<1>5. \A j \in M : i >= j
  BY <1>3, <1>4
<1> QED BY <1>5 DEF Max

\* effective_thresholds: with the same ordered matches and no larger limit the
\* thresholds of no file rise.
LEMMA ThresholdsTighten ==
    ASSUME NEW b, NEW a, IsLocPolicy(b), IsLocPolicy(a), NEW f,
           a.warnAt <= b.warnAt, a.failAt <= b.failAt,
           OverridesTighten(b.overrides, a.overrides)
    PROVE  LET tb == EffectiveThresholds(f, Resolved(b))
               ta == EffectiveThresholds(f, Resolved(a))
           IN  /\ tb.warnAt \in Nat /\ tb.failAt \in Nat /\ tb.warnAt < tb.failAt
               /\ ta.warnAt \in Nat /\ ta.failAt \in Nat /\ ta.warnAt < ta.failAt
               /\ ta.warnAt <= tb.warnAt /\ ta.failAt <= tb.failAt
<1> DEFINE rb == Resolved(b)
           ra == Resolved(a)
           M == {i \in DOMAIN a.overrides : f \in Matched(a.overrides[i].match)}
<1>1. /\ DOMAIN rb.overrides = DOMAIN b.overrides /\ DOMAIN ra.overrides = DOMAIN a.overrides
      /\ \A i \in DOMAIN b.overrides :
            /\ rb.overrides[i].match = Matched(b.overrides[i].match)
            /\ rb.overrides[i].warnAt = b.overrides[i].warnAt
            /\ rb.overrides[i].failAt = b.overrides[i].failAt
      /\ \A i \in DOMAIN a.overrides :
            /\ ra.overrides[i].match = Matched(a.overrides[i].match)
            /\ ra.overrides[i].warnAt = a.overrides[i].warnAt
            /\ ra.overrides[i].failAt = a.overrides[i].failAt
      /\ rb.warnAt = b.warnAt /\ rb.failAt = b.failAt
      /\ ra.warnAt = a.warnAt /\ ra.failAt = a.failAt
  BY DEF Resolved
<1>2. DOMAIN b.overrides = DOMAIN a.overrides
  BY DEF OverridesTighten
<1>3. /\ {i \in DOMAIN ra.overrides : f \in ra.overrides[i].match} = M
      /\ {i \in DOMAIN rb.overrides : f \in rb.overrides[i].match} = M
  BY <1>1, <1>2 DEF OverridesTighten
<1>4. /\ EffectiveThresholds(f, ra) = IF M = {} THEN ra ELSE ra.overrides[Max(M)]
      /\ EffectiveThresholds(f, rb) = IF M = {} THEN rb ELSE rb.overrides[Max(M)]
  <2> HIDE DEF ra, rb, M
  <2> QED BY <1>3 DEF EffectiveThresholds
<1>5. CASE M = {}
  BY <1>1, <1>4, <1>5 DEF IsLocPolicy
<1>6. CASE M # {}
  <2>1. Max(M) \in M
    <3>1. DOMAIN a.overrides = 1..Len(a.overrides) /\ Len(a.overrides) \in Nat
      BY DEF IsLocPolicy
    <3> QED BY <1>6, <3>1, LastMatch
  <2> DEFINE i == Max(M)
  <2>2. i \in DOMAIN a.overrides /\ i \in DOMAIN b.overrides
    BY <1>2, <2>1
  <2>3. /\ EffectiveThresholds(f, ra) = ra.overrides[i]
        /\ EffectiveThresholds(f, rb) = rb.overrides[i]
    BY <1>4, <1>6
  <2>4. /\ a.overrides[i].warnAt \in Nat /\ a.overrides[i].failAt \in Nat
        /\ a.overrides[i].warnAt < a.overrides[i].failAt
        /\ b.overrides[i].warnAt \in Nat /\ b.overrides[i].failAt \in Nat
        /\ b.overrides[i].warnAt < b.overrides[i].failAt
    BY <2>2, OverrideTypes
  <2>5. a.overrides[i].warnAt <= b.overrides[i].warnAt
        /\ a.overrides[i].failAt <= b.overrides[i].failAt
    BY <2>2 DEF OverridesTighten
  <2> HIDE DEF i, M
  <2> QED BY <1>1, <2>2, <2>3, <2>4, <2>5
<1> QED BY <1>5, <1>6

\* The state evaluate() gives, without the wording of its finding.
LEMMA EvaluateState ==
    ASSUME NEW f, NEW n \in Nat, NEW c, NEW x \in Nat
    PROVE  LET w == EffectiveThresholds(f, c).warnAt
               l == EffectiveThresholds(f, c).failAt
           IN  Evaluate(f, n, c, x).state =
                 IF f \in c.allowedLarge /\ n > w THEN "pass"
                 ELSE IF c.ratchetAt = "review" /\ x # 0
                 THEN IF n > x THEN "fail"
                      ELSE IF n > l \/ n > w THEN "review" ELSE "pass"
                 ELSE IF n > l
                 THEN IF x # 0 /\ n <= x THEN "review" ELSE "fail"
                 ELSE IF n > w THEN "review" ELSE "pass"
BY DEF Evaluate, Finding

\* evaluate() under a policy at least as tight, of at least as many lines, is at
\* least as severe, unless an entry was dropped under ratchetAt review.
LEMMA EvaluateTightens ==
    ASSUME NEW f, NEW n \in Nat, NEW m \in Nat, n <= m, NEW b, NEW a,
           NEW x \in Nat, NEW y \in Nat,
           y # 0 => x # 0 /\ y <= x,
           b.ratchetAt \in {"fail", "review"}, a.ratchetAt \in {"fail", "review"},
           ~(b.ratchetAt = "review" /\ a.ratchetAt = "fail"),
           ~(b.ratchetAt = "review" /\ x # 0 /\ y = 0),
           f \in a.allowedLarge => f \in b.allowedLarge /\ y = 0,
           NEW tb, NEW ta,
           tb = EffectiveThresholds(f, b), ta = EffectiveThresholds(f, a),
           tb.warnAt \in Nat, tb.failAt \in Nat, tb.warnAt < tb.failAt,
           ta.warnAt \in Nat, ta.failAt \in Nat, ta.warnAt < ta.failAt,
           ta.warnAt <= tb.warnAt, ta.failAt <= tb.failAt
    PROVE  Severity(Evaluate(f, n, b, x).state) <= Severity(Evaluate(f, m, a, y).state)
<1> DEFINE s == Evaluate(f, n, b, x).state
           t == Evaluate(f, m, a, y).state
<1>1. s = IF f \in b.allowedLarge /\ n > tb.warnAt THEN "pass"
          ELSE IF b.ratchetAt = "review" /\ x # 0
          THEN IF n > x THEN "fail"
               ELSE IF n > tb.failAt \/ n > tb.warnAt THEN "review" ELSE "pass"
          ELSE IF n > tb.failAt THEN IF x # 0 /\ n <= x THEN "review" ELSE "fail"
          ELSE IF n > tb.warnAt THEN "review" ELSE "pass"
  BY EvaluateState
<1>2. t = IF f \in a.allowedLarge /\ m > ta.warnAt THEN "pass"
          ELSE IF a.ratchetAt = "review" /\ y # 0
          THEN IF m > y THEN "fail"
               ELSE IF m > ta.failAt \/ m > ta.warnAt THEN "review" ELSE "pass"
          ELSE IF m > ta.failAt THEN IF y # 0 /\ m <= y THEN "review" ELSE "fail"
          ELSE IF m > ta.warnAt THEN "review" ELSE "pass"
  BY EvaluateState
<1> HIDE DEF s, t
<1>3. s \in {"pass", "review", "fail"} /\ t \in {"pass", "review", "fail"}
  BY <1>1, <1>2
<1>4. ASSUME s = "fail" PROVE t = "fail"
  BY <1>1, <1>2, <1>4
<1>5. ASSUME s = "review" PROVE t # "pass"
  BY <1>1, <1>2, <1>5
<1>6. Severity(s) <= Severity(t)
  BY <1>3, <1>4, <1>5 DEF Severity
<1> QED BY <1>6 DEF s, t

\* Each verdict is one of three.
LEMMA StateTypes ==
    ASSUME NEW f, NEW n \in Nat, NEW c, NEW x \in Nat
    PROVE  Evaluate(f, n, c, x).state \in {"pass", "review", "fail"}
BY EvaluateState

\* should_include: fewer declarations cover fewer files.
LEMMA MatchedMonotone ==
    ASSUME NEW P, NEW Q, P \subseteq Q PROVE Matched(P) \subseteq Matched(Q)
BY DEF Matched

\* count_loc: counting more kinds of lines counts more.
LEMMA CountedTypes ==
    ASSUME NEW content, content.code \in Nat, content.blank \in Nat, content.comment \in Nat,
           NEW c
    PROVE  Counted(content, c) \in Nat
BY DEF Counted

\* What compare() passes judges no content of a file more leniently.
THEOREM QuietLocIsSound ==
    ASSUME NEW b, NEW a, IsPolicy(b), IsPolicy(a), Tightens(b, a), ~Overlaps(a),
           NEW f \in Files, ~Released(f, b, a),
           NEW content, content.code \in Nat, content.blank \in Nat, content.comment \in Nat
    PROVE  Severity(LocState(f, content, b)) <= Severity(LocState(f, content, a))
<1> DEFINE n == Counted(content, b.loc)
           m == Counted(content, a.loc)
           x == b.allowed[f]
           y == a.allowed[f]
           judged == b.loc.enabled /\ f \notin Matched(b.scope) /\ Included(f, b.loc)
<1>1. n \in Nat /\ m \in Nat /\ x \in Nat /\ y \in Nat
  BY CountedTypes DEF IsPolicy
<1>2. LocState(f, content, a) \in {"pass", "review", "fail"}
  BY <1>1, StateTypes DEF LocState
<1>3. CASE ~judged
  <2>1. LocState(f, content, b) = "pass"
    BY <1>3 DEF LocState
  <2> QED BY <1>2, <2>1 DEF Severity
<1>4. CASE judged
  <2>1. /\ b.loc.enabled /\ a.loc.enabled
        /\ a.loc.warnAt <= b.loc.warnAt /\ a.loc.failAt <= b.loc.failAt
        /\ ~(b.loc.ratchetAt = "review" /\ a.loc.ratchetAt = "fail")
        /\ b.loc.countBlank => a.loc.countBlank
        /\ b.loc.countComments => a.loc.countComments
        /\ b.loc.extensions \subseteq a.loc.extensions
        /\ a.loc.exclude \subseteq b.loc.exclude
        /\ a.loc.allowedLarge \subseteq b.loc.allowedLarge
        /\ OverridesTighten(b.loc.overrides, a.loc.overrides)
        /\ a.scope \subseteq b.scope
    BY <1>4 DEF Tightens, LocTightens
  <2>2. f \notin Matched(a.scope) /\ Included(f, a.loc)
    BY <1>4, <2>1, MatchedMonotone DEF Included
  <2>3. /\ LocState(f, content, b) = Evaluate(f, n, Resolved(b.loc), x).state
        /\ LocState(f, content, a) = Evaluate(f, m, Resolved(a.loc), y).state
    BY <1>4, <2>1, <2>2 DEF LocState
  <2>4. n <= m
    BY <2>1 DEF Counted, IsPolicy, IsLocPolicy
  <2>5. /\ y # 0 => x # 0 /\ y <= x
        /\ ~(b.loc.ratchetAt = "review" /\ x # 0 /\ y = 0)
    BY DEF Tightens, TableTightens, Released, IsPolicy
  <2>6. /\ Resolved(b.loc).ratchetAt = b.loc.ratchetAt
        /\ Resolved(a.loc).ratchetAt = a.loc.ratchetAt
        /\ Resolved(b.loc).allowedLarge = Matched(b.loc.allowedLarge)
        /\ Resolved(a.loc).allowedLarge = Matched(a.loc.allowedLarge)
    BY DEF Resolved
  <2>7. f \in Matched(a.loc.allowedLarge) => f \in Matched(b.loc.allowedLarge) /\ y = 0
    BY <2>1, MatchedMonotone DEF Overlaps
  <2> DEFINE tb == EffectiveThresholds(f, Resolved(b.loc))
             ta == EffectiveThresholds(f, Resolved(a.loc))
  <2>8. /\ tb.warnAt \in Nat /\ tb.failAt \in Nat /\ tb.warnAt < tb.failAt
        /\ ta.warnAt \in Nat /\ ta.failAt \in Nat /\ ta.warnAt < ta.failAt
        /\ ta.warnAt <= tb.warnAt /\ ta.failAt <= tb.failAt
    BY <2>1, ThresholdsTighten DEF IsPolicy
  <2>9. b.loc.ratchetAt \in {"fail", "review"} /\ a.loc.ratchetAt \in {"fail", "review"}
    BY DEF IsPolicy, IsLocPolicy
  <2> HIDE DEF n, m, x, y, ta, tb
  <2>10. Severity(Evaluate(f, n, Resolved(b.loc), x).state)
            <= Severity(Evaluate(f, m, Resolved(a.loc), y).state)
    <3>1. tb = EffectiveThresholds(f, Resolved(b.loc)) /\ ta = EffectiveThresholds(f, Resolved(a.loc))
      BY DEF ta, tb
    <3> DEFINE rb == Resolved(b.loc)
               ra == Resolved(a.loc)
    <3>2. /\ rb.ratchetAt \in {"fail", "review"} /\ ra.ratchetAt \in {"fail", "review"}
          /\ ~(rb.ratchetAt = "review" /\ ra.ratchetAt = "fail")
          /\ ~(rb.ratchetAt = "review" /\ x # 0 /\ y = 0)
          /\ f \in ra.allowedLarge => f \in rb.allowedLarge /\ y = 0
      BY <2>1, <2>5, <2>6, <2>7, <2>9
    <3> HIDE DEF ra, rb
    <3>3. Severity(Evaluate(f, n, rb, x).state) <= Severity(Evaluate(f, m, ra, y).state)
      BY <1>1, <2>4, <2>5, <2>8, <3>1, <3>2, EvaluateTightens DEF ra, rb
    <3> QED BY <3>3 DEF ra, rb
  <2> QED BY <2>3, <2>10 DEF n, m, x, y
<1> QED BY <1>3, <1>4

\* What compare() passes judges no callable, document or section more leniently.
THEOREM QuietReviewIsSound ==
    ASSUME NEW b, NEW a, IsPolicy(b), IsPolicy(a), Tightens(b, a),
           NEW s \in Subjects, NEW n \in Nat
    PROVE  Severity(ReviewState(s, n, b)) <= Severity(ReviewState(s, n, a))
<1> DEFINE g == GuardOf[s]
<1>1. g \in ReviewGuards
  BY PatternsAssumption
<1>2. /\ b.reviews[g].enabled \in BOOLEAN /\ a.reviews[g].enabled \in BOOLEAN
      /\ b.reviews[g].reviewAt \in Nat /\ a.reviews[g].reviewAt \in Nat
      /\ b.reviewed[s] \in Nat /\ a.reviewed[s] \in Nat
  BY <1>1 DEF IsPolicy
<1>3. b.reviews[g].enabled => a.reviews[g].enabled /\ a.reviews[g].reviewAt <= b.reviews[g].reviewAt
  BY <1>1 DEF Tightens, ReviewsTighten
<1>4. a.reviewed[s] # 0 => b.reviewed[s] # 0 /\ a.reviewed[s] <= b.reviewed[s]
  BY DEF Tightens, TableTightens, IsPolicy
<1>5. ASSUME NEW r \in Nat, NEW x \in Nat
      PROVE  JudgeCallable(n, r, x).state = IF n <= r \/ (x # 0 /\ n <= x) THEN "pass" ELSE "review"
  BY DEF JudgeCallable, Verdict
<1> HIDE DEF g
<1>6. ReviewState(s, n, a) \in {"pass", "review"}
  BY <1>2, <1>5 DEF ReviewState, g
<1>7. ReviewState(s, n, b) = "review" => ReviewState(s, n, a) = "review"
  BY <1>2, <1>3, <1>4, <1>5 DEF ReviewState, g
<1>8. ReviewState(s, n, b) \in {"pass", "review"}
  BY <1>2, <1>5 DEF ReviewState, g
<1> QED BY <1>6, <1>7, <1>8 DEF Severity

---------------------------------------------------------------------------
(* The history.                                                            *)

\* Every artifact of p is that of q.
Same(p, q) ==
    /\ p.loc = q.loc /\ p.reviews = q.reviews /\ p.scope = q.scope
    /\ p.allowed = q.allowed /\ p.reviewed = q.reviewed

\* Comparing looks at nothing but the artifacts.
LEMMA SameCompares ==
    ASSUME NEW p, NEW q, NEW r, Same(p, q)
    PROVE  Compare(p, r) = Compare(q, r)
BY DEF Same, Compare, Relaxations

\* What the invocation has read is what the retained commit holds.
Retained ==
    /\ pc \in {"read configuration", "read allowed", "read reviewed", "compare"} => ~Overlaps(after)
    /\ pc \in {"read allowed", "read reviewed", "compare"} =>
          before.loc = ReadAt.loc /\ before.reviews = ReadAt.reviews /\ before.scope = ReadAt.scope
    /\ pc \in {"read reviewed", "compare"} => before.allowed = ReadAt.allowed
    /\ pc = "compare" => before.reviewed = ReadAt.reviewed
    /\ result # "none" => pc = "done"
    /\ result = "pass" =>
          Same(before, ReadAt) /\ Compare(before, after) = "pass" /\ ~Overlaps(after)

IInv == TypeOK /\ Retained

\* A commit resolved stays the same object.
LEMMA CommitsStay ==
    ASSUME commits \in Seq(Policies), base \in 0..HeadCommit, NEW p \in Policies,
           commits' = Append(commits, p), base' = base
    PROVE  ReadAt' = ReadAt
<1>1. CASE base = 0
  BY <1>1 DEF ReadAt, PolicyAt
<1>2. CASE base # 0
  <2>1. base \in 1..Len(commits)
    BY <1>2 DEF HeadCommit
  <2>2. commits'[base] = commits[base]
    BY <2>1, AppendProperties
  <2> QED BY <1>2, <2>2 DEF ReadAt, PolicyAt
<1> QED BY <1>1, <1>2

\* Every commit, and the tree without the files, has a policy.
LEMMA ReadTypes ==
    ASSUME commits \in Seq(Policies), base \in 0..HeadCommit
    PROVE  IsPolicy(ReadAt)
<1>1. CASE base = 0
  BY <1>1, HistoryAssumption DEF ReadAt, PolicyAt
<1>2. CASE base # 0
  <2>1. base \in 1..Len(commits)
    BY <1>2 DEF HeadCommit
  <2>2. commits[base] \in Policies
    BY <2>1, ElementOfSeq
  <2> QED BY <1>2, <2>2, HistoryAssumption DEF ReadAt, PolicyAt
<1> QED BY <1>1, <1>2

\* Before anything is read the invariant holds.
LEMMA InitInv == Init => IInv
<1> SUFFICES ASSUME Init PROVE IInv
  OBVIOUS
<1>1. /\ Defaults \in Policies /\ IsPolicy(Defaults)
      /\ MaxEdits \in Nat /\ MaxCommits \in Nat \ {0}
  BY HistoryAssumption
<1>2. commits \in Seq(Policies) /\ Len(commits) \in {0, 1}
  <2>1. CASE commits = <<>>
    BY <2>1
  <2>2. ASSUME NEW p \in Policies, commits = <<p>>
        PROVE  commits \in Seq(Policies) /\ Len(commits) = 1
    BY <2>2
  <2> QED BY <2>1, <2>2 DEF Init
<1>3. TypeOK
  <2>1. HeadCommit \in Nat /\ HeadCommit <= MaxCommits
    BY <1>1, <1>2 DEF HeadCommit
  <2>2. work \in Policies /\ mode \in {"changed", "base"} /\ base = 0 /\ after = Defaults
        /\ before = Defaults /\ result = "none" /\ edits = 0
    BY DEF Init
  <2> QED BY <1>1, <1>2, <2>1, <2>2 DEF TypeOK
<1>4. Retained
  BY DEF Init, Retained
<1> QED BY <1>3, <1>4 DEF IInv

\* The policy being put together stays a policy, whichever artifact arrives.
LEMMA ReadingTypes ==
    ASSUME NEW p, NEW q, IsPolicy(p), IsPolicy(q)
    PROVE  /\ IsPolicy([p EXCEPT !.loc = q.loc, !.reviews = q.reviews, !.scope = q.scope])
           /\ IsPolicy([p EXCEPT !.allowed = q.allowed])
           /\ IsPolicy([p EXCEPT !.reviewed = q.reviewed])
<1>1. IsPolicy([p EXCEPT !.loc = q.loc, !.reviews = q.reviews, !.scope = q.scope])
  <2> DEFINE r == [p EXCEPT !.loc = q.loc, !.reviews = q.reviews, !.scope = q.scope]
  <2>1. /\ DOMAIN r = {"loc", "reviews", "scope", "allowed", "reviewed"}
        /\ r.loc = q.loc /\ r.reviews = q.reviews /\ r.scope = q.scope
        /\ r.allowed = p.allowed /\ r.reviewed = p.reviewed
    BY DEF IsPolicy
  <2> HIDE DEF r
  <2> QED BY <2>1 DEF IsPolicy, r
<1>2. IsPolicy([p EXCEPT !.allowed = q.allowed])
  BY DEF IsPolicy
<1>3. IsPolicy([p EXCEPT !.reviewed = q.reviewed])
  BY DEF IsPolicy
<1> QED BY <1>1, <1>2, <1>3

\* Every step of the invocation and of the developers keeps it.
LEMMA StepInv == IInv /\ [Next]_vars => IInv'
<1> SUFFICES ASSUME IInv, [Next]_vars PROVE IInv'
  OBVIOUS
<1> USE DEF IInv
<1>1. /\ IsPolicy(after) /\ IsPolicy(before) /\ IsPolicy(ReadAt)
      /\ work \in Policies /\ IsPolicy(work) /\ HeadCommit \in Nat
  BY ReadTypes, HistoryAssumption DEF TypeOK, HeadCommit
<1>2. CASE LoadConfiguration
  <2>1. IsPolicy(after')
    BY <1>1, <1>2, ReadingTypes DEF LoadConfiguration
  <2>2. TypeOK'
    BY <1>2, <2>1 DEF LoadConfiguration, TypeOK, HeadCommit
  <2> QED BY <1>2, <2>2 DEF LoadConfiguration, Retained, Goto
<1>3. CASE ResolveAuthority
  <2>1. TypeOK'
    BY <1>1, <1>3 DEF ResolveAuthority, TypeOK, HeadCommit
  <2> QED BY <1>3, <2>1 DEF ResolveAuthority, Retained, Goto
<1>4. CASE Fail /\ pc # "done"
  <2>1. TypeOK'
    BY <1>4 DEF Fail, TypeOK, HeadCommit
  <2> QED BY <1>4, <2>1 DEF Fail, Retained, Goto
<1>5. CASE LoadAllowed
  <2>1. IsPolicy(after')
    BY <1>1, <1>5, ReadingTypes DEF LoadAllowed
  <2>2. TypeOK'
    BY <1>5, <2>1 DEF LoadAllowed, TypeOK, HeadCommit
  <2> QED BY <1>5, <2>2 DEF LoadAllowed, Retained, Goto
<1>6. CASE LoadReviewed
  <2>1. IsPolicy(after')
    BY <1>1, <1>6, ReadingTypes DEF LoadReviewed
  <2>2. TypeOK'
    BY <1>6, <2>1 DEF LoadReviewed, TypeOK, HeadCommit
  <2> QED BY <1>6, <2>2 DEF LoadReviewed, Retained, Goto
<1>7. CASE CheckOverlap
  <2>1. TypeOK'
    BY <1>7 DEF CheckOverlap, TypeOK, HeadCommit
  <2>2. Overlaps(after)' = Overlaps(after)
    BY <1>7 DEF CheckOverlap, Overlaps
  <2> QED BY <1>7, <2>1, <2>2 DEF CheckOverlap, Retained, Goto
<1>8. ASSUME UNCHANGED <<commits, base, after>>
      PROVE  ReadAt' = ReadAt /\ Overlaps(after)' = Overlaps(after)
  BY <1>8 DEF ReadAt, PolicyAt, Overlaps
<1>9. CASE ReadConfiguration
  <2>1. IsPolicy(before')
    BY <1>1, <1>9, ReadingTypes DEF ReadConfiguration
  <2>2. TypeOK'
    BY <1>9, <2>1 DEF ReadConfiguration, TypeOK, HeadCommit
  <2>3. before'.loc = ReadAt.loc /\ before'.reviews = ReadAt.reviews /\ before'.scope = ReadAt.scope
    BY <1>1, <1>9 DEF ReadConfiguration, IsPolicy
  <2>4. ReadAt' = ReadAt /\ Overlaps(after)' = Overlaps(after)
    BY <1>8, <1>9 DEF ReadConfiguration
  <2> QED BY <1>9, <2>2, <2>3, <2>4 DEF ReadConfiguration, Retained, Goto
<1>10. CASE ReadAllowed
  <2>1. IsPolicy(before')
    BY <1>1, <1>10, ReadingTypes DEF ReadAllowed
  <2>2. TypeOK'
    BY <1>10, <2>1 DEF ReadAllowed, TypeOK, HeadCommit
  <2>3. /\ before'.loc = before.loc /\ before'.reviews = before.reviews
        /\ before'.scope = before.scope /\ before'.allowed = ReadAt.allowed
    BY <1>1, <1>10 DEF ReadAllowed, IsPolicy
  <2>4. ReadAt' = ReadAt /\ Overlaps(after)' = Overlaps(after)
    BY <1>8, <1>10 DEF ReadAllowed
  <2> QED BY <1>10, <2>2, <2>3, <2>4 DEF ReadAllowed, Retained, Goto
<1>11. CASE ReadReviewed
  <2>1. IsPolicy(before')
    BY <1>1, <1>11, ReadingTypes DEF ReadReviewed
  <2>2. TypeOK'
    BY <1>11, <2>1 DEF ReadReviewed, TypeOK, HeadCommit
  <2>3. /\ before'.loc = before.loc /\ before'.reviews = before.reviews
        /\ before'.scope = before.scope /\ before'.allowed = before.allowed
        /\ before'.reviewed = ReadAt.reviewed
    BY <1>1, <1>11 DEF ReadReviewed, IsPolicy
  <2>4. ReadAt' = ReadAt /\ Overlaps(after)' = Overlaps(after)
    BY <1>8, <1>11 DEF ReadReviewed
  <2> QED BY <1>11, <2>2, <2>3, <2>4 DEF ReadReviewed, Retained, Goto
<1>12. CASE CompareCurrent
  <2>1. TypeOK'
    BY <1>12 DEF CompareCurrent, TypeOK, HeadCommit, Compare
  <2>2. ReadAt' = ReadAt /\ Overlaps(after)' = Overlaps(after)
    BY <1>8, <1>12 DEF CompareCurrent
  <2>3. Same(before, ReadAt) /\ ~Overlaps(after)
    BY <1>12 DEF CompareCurrent, Retained, Same
  <2>4. before' = before /\ after' = after /\ pc' = "done" /\ result' = Compare(before, after)
    BY <1>12 DEF CompareCurrent, Goto
  <2>5. Retained'
    BY <2>2, <2>3, <2>4 DEF Retained
  <2> QED BY <2>1, <2>5
<1>13. CASE Commit
  <2>1. commits' = Append(commits, work) /\ commits' \in Seq(Policies) /\ Len(commits') = Len(commits) + 1
    BY <1>1, <1>13 DEF Commit, TypeOK
  <2>2. TypeOK'
    BY <1>1, <1>13, <2>1, HistoryAssumption DEF Commit, TypeOK, HeadCommit
  <2>3. ReadAt' = ReadAt
    BY <1>13, <2>1, CommitsStay DEF Commit, TypeOK
  <2>4. Overlaps(after)' = Overlaps(after) /\ UNCHANGED <<pc, after, before, result>>
    BY <1>13 DEF Commit, Overlaps
  <2>5. Retained'
    BY <2>3, <2>4 DEF Retained
  <2> QED BY <2>2, <2>5
<1>14. ASSUME NEW p \in Policies, EditPolicy(p) PROVE IInv'
  <2>1. TypeOK'
    BY <1>14, HistoryAssumption DEF EditPolicy, TypeOK, HeadCommit
  <2>2. ReadAt' = ReadAt /\ Overlaps(after)' = Overlaps(after)
    BY <1>8, <1>14 DEF EditPolicy
  <2>3. UNCHANGED <<pc, after, before, result>>
    BY <1>14 DEF EditPolicy
  <2>4. Retained'
    BY <2>2, <2>3 DEF Retained
  <2> QED BY <2>1, <2>4
<1>15. CASE UNCHANGED vars
  <2>1. TypeOK'
    BY <1>15 DEF vars, TypeOK, HeadCommit
  <2>2. ReadAt' = ReadAt /\ Overlaps(after)' = Overlaps(after)
    BY <1>8, <1>15 DEF vars
  <2>3. UNCHANGED <<pc, after, before, result>>
    BY <1>15 DEF vars
  <2>4. Retained'
    BY <2>2, <2>3 DEF Retained
  <2> QED BY <2>1, <2>4
<1>16. NoAuthority \/ OverlapNow \/ OverlapBefore => Fail /\ pc # "done"
  BY DEF NoAuthority, OverlapNow, OverlapBefore
<1> QED
  BY <1>2, <1>3, <1>4, <1>5, <1>6, <1>7, <1>9, <1>10, <1>11, <1>12, <1>13, <1>14, <1>15, <1>16
  DEF Next, Invocation

\* The inductive invariant of the history.
LEMMA Invariance == Spec => []IInv
<1>1. Init => IInv
  BY InitInv
<1>2. IInv /\ [Next]_vars => IInv'
  BY StepInv
<1> QED BY <1>1, <1>2, PTL DEF Spec

\* What the invocation has read, and the branch, keep their types.
THEOREM TypeCorrect == Spec => []TypeOK
<1>1. IInv => TypeOK
  BY DEF IInv
<1> QED BY <1>1, Invariance, PTL

\* A pass of the guard means that no verdict became milder, for any policies,
\* file contents and measures, whatever is committed and edited meanwhile.
THEOREM PassIsSound == Spec => []PassNeverWeaker
<1>1. IInv => PassNeverWeaker
  <2> SUFFICES ASSUME IInv, result = "pass" PROVE PassNeverWeaker
    BY DEF PassNeverWeaker
  <2> DEFINE was == PolicyAt(base)
  <2>1. IsPolicy(was) /\ IsPolicy(after) /\ IsPolicy(before)
    BY ReadTypes DEF IInv, TypeOK, ReadAt
  <2>2. Same(before, was) /\ Compare(before, after) = "pass" /\ ~Overlaps(after)
    BY DEF IInv, Retained, ReadAt
  <2> HIDE DEF was
  <2>3. Tightens(was, after)
    <3>1. Compare(was, after) = "pass"
      BY <2>2, SameCompares
    <3> QED BY <2>1, <3>1, PassMeansTighter
  <2>4. ASSUME NEW f \in Files, NEW content \in Contents, ~Released(f, was, after)
        PROVE  Severity(LocState(f, content, was)) <= Severity(LocState(f, content, after))
    <3>1. content.code \in Nat /\ content.blank \in Nat /\ content.comment \in Nat
      BY HistoryAssumption
    <3> QED BY <2>1, <2>2, <2>3, <2>4, <3>1, QuietLocIsSound
  <2>5. ASSUME NEW s \in Subjects, NEW n \in Measures
        PROVE  Severity(ReviewState(s, n, was)) <= Severity(ReviewState(s, n, after))
    <3>1. n \in Nat
      BY HistoryAssumption
    <3> QED BY <2>1, <2>3, <3>1, QuietReviewIsSound
  <2> QED BY <2>4, <2>5 DEF PassNeverWeaker, was
<1> QED BY <1>1, Invariance, PTL

\* Any number of quiet commits is a quiet branch.
THEOREM QuietCommitsAddUp == Spec => []QuietAddsUp
<1> DEFINE Quiet(i, j) == Compare(commits[i], commits[j]) = "pass"
<1>1. Init => QuietAddsUp
  <2> SUFFICES ASSUME Init, NEW i \in 1..HeadCommit, NEW j \in 1..HeadCommit, i <= j
               PROVE  Quiet(i, j)
    BY DEF QuietAddsUp
  <2>1. IsPolicy(commits[1]) /\ i = 1 /\ j = 1
    <3>1. CASE commits = <<>>
      BY <3>1 DEF HeadCommit
    <3>2. ASSUME NEW p \in Policies, commits = <<p>> PROVE IsPolicy(commits[1]) /\ i = 1 /\ j = 1
      BY <3>2, HistoryAssumption DEF HeadCommit
    <3> QED BY <3>1, <3>2 DEF Init
  <2> QED BY <2>1, QuietIsPreorder
<1>2. TypeOK /\ QuietAddsUp /\ [Next]_vars => QuietAddsUp'
  <2> SUFFICES ASSUME TypeOK, QuietAddsUp, [Next]_vars PROVE QuietAddsUp'
    OBVIOUS
  <2>1. CASE UNCHANGED commits
    BY <2>1 DEF QuietAddsUp, HeadCommit
  <2>2. CASE Commit
    <3> DEFINE n == Len(commits)
    <3>1. /\ commits' = Append(commits, work) /\ n \in Nat /\ Len(commits') = n + 1
          /\ commits'[n + 1] = work
          /\ \A i \in 1..n : commits'[i] = commits[i] /\ commits[i] \in Policies
      BY <2>2, AppendProperties, ElementOfSeq DEF Commit, TypeOK
    <3>2. /\ IsPolicy(work) /\ Compare(work, work) = "pass"
          /\ \A i \in 1..n : IsPolicy(commits[i])
      BY <3>1, HistoryAssumption, QuietIsPreorder DEF TypeOK
    <3> SUFFICES ASSUME \A i \in 1..n : Compare(commits'[i], commits'[i + 1]) = "pass",
                        NEW i \in 1..n + 1, NEW j \in 1..n + 1, i <= j
                 PROVE  Compare(commits'[i], commits'[j]) = "pass"
      BY <3>1 DEF QuietAddsUp, HeadCommit
    <3>3. \A k, l \in 1..n : k <= l => Compare(commits[k], commits[l]) = "pass"
      <4>1. \A k \in 1..n - 1 : Compare(commits[k], commits[k + 1]) = "pass"
        <5> SUFFICES ASSUME NEW k \in 1..n - 1 PROVE Compare(commits[k], commits[k + 1]) = "pass"
          OBVIOUS
        <5>1. k \in 1..n /\ k + 1 \in 1..n
          BY <3>1
        <5> QED BY <3>1, <5>1
      <4> QED BY <4>1 DEF QuietAddsUp, HeadCommit
    <3>4. CASE j <= n
      <4>1. i \in 1..n /\ j \in 1..n
        BY <3>1, <3>4
      <4> QED BY <3>1, <3>3, <4>1
    <3>5. CASE j = n + 1 /\ i = n + 1
      BY <3>1, <3>2, <3>5
    <3>6. CASE j = n + 1 /\ i <= n
      <4>1. i \in 1..n /\ n \in 1..n
        BY <3>1, <3>6
      <4>2. Compare(commits[i], commits[n]) = "pass"
        BY <3>1, <3>3, <4>1
      <4>3. Compare(commits[n], work) = "pass"
        BY <3>1, <4>1
      <4>4. Compare(commits[i], work) = "pass"
        BY <3>2, <4>1, <4>2, <4>3, QuietIsPreorder
      <4> QED BY <3>1, <3>6, <4>1, <4>4
    <3> QED BY <3>1, <3>4, <3>5, <3>6
  <2>3. [Next]_vars => UNCHANGED commits \/ Commit
    BY DEF Next, Invocation, vars, LoadConfiguration, ResolveAuthority, NoAuthority, Fail,
           LoadAllowed, LoadReviewed, CheckOverlap, OverlapNow, ReadConfiguration, ReadAllowed,
           ReadReviewed, CompareCurrent, OverlapBefore, EditPolicy
  <2> QED BY <2>1, <2>2, <2>3
<1> QED BY <1>1, <1>2, TypeCorrect, PTL DEF Spec
=============================================================================
