SPECIFICATION Spec
CONSTANTS
    c1 = c1
    d1 = d1
    Code = {c1}
    Docs = {d1}
    MaxSize = 3
    LocPolicies <- Varied
    ReviewAt = 1
    Offers <- Tight
    MaxEdits = 2
INVARIANTS
    NoAllowanceByLink
    SuccessAccountsForAll
    IncompleteDominates
CHECK_DEADLOCK FALSE
