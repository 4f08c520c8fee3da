SPECIFICATION Spec
CONSTANTS
    Absent = Absent
    Twice = Twice
    f1 = f1
    f2 = f2
    g1 = g1
    Files = {f1, f2}
    Names = {n1}
    Guards = {g1}
    MaxMeasure = 3
    Configs <- Varied
    Accepters = {a1, a2}
    Updaters = {u1}
    MaxEdits = 1
INVARIANTS
    TypeOK
    CeilingMeasured
    UpdateIsTight
    RemovalNeedsEvidence
    AcceptanceHolds
PROPERTY
    CeilingNeverRaised
SYMMETRY Symmetry
CHECK_DEADLOCK FALSE
