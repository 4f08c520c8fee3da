SPECIFICATION Spec
CONSTANTS
    d1 = d1
    d2 = d2
    Docs = {d1, d2}
    MaxLines = 3
    Policies <- Varied
    Creators = {c1}
    Updaters = {u1, u2}
    MaxEdits = 2
INVARIANTS
    TypeOK
    AllowancesFit
PROPERTY
    NeverRaised
SYMMETRY Symmetry
CHECK_DEADLOCK FALSE
