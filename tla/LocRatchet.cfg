SPECIFICATION Spec
CONSTANTS
    f1 = f1
    f2 = f2
    Files = {f1, f2}
    MaxLoc = 3
    Configs <- Policies
    Creators = {c1, c2}
    Updaters = {u1}
    MaxEdits = 1
INVARIANTS
    TypeOK
    AllowanceMeasured
    UpdateIsTight
    CreateAdoptsScope
PROPERTIES
    NeverRaised
    UpdateKeepsOutside
    RefusalIsFinal
SYMMETRY Symmetry
CHECK_DEADLOCK FALSE
