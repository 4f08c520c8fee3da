SPECIFICATION MCSpec
CONSTANTS
    w1 = w1
    w2 = w2
    d1 = d1
    d2 = d2
    Writers = {w1, w2}
    Readers = {r1}
    Docs = {d1, d2}
    Partial = Partial
    Old = Old
    Nil = Nil
INVARIANTS
    TypeOK
    OnlyWholeDocuments
    TempsOwned
PROPERTIES
    RefinesRegister
    InvocationsEnd
CHECK_DEADLOCK FALSE
