SPECIFICATION Spec
CONSTANTS
    f1 = f1
    f2 = f2
    Files = {f1, f2}
    MaxLoc = 3
    Configs <- Loosened
    Creators = {c1}
    Updaters = {u1}
    MaxEdits = 2
INVARIANT
    UnneededReported
CHECK_DEADLOCK FALSE
