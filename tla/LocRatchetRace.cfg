SPECIFICATION Spec
CONSTANTS
    f1 = f1
    f2 = f2
    Files = {f1, f2}
    MaxLoc = 3
    Configs <- Policies
    Creators = {c1}
    Updaters = {u1, u2}
    MaxEdits = 2
PROPERTY
    UpdateNeverRaises
SYMMETRY Symmetry
CHECK_DEADLOCK FALSE
