SPECIFICATION MCSpec
CONSTANTS
    Workloads <- All
    Unreliable = {"vue", "typescript", "csharp"}
    Lines <- Kinds
    MaxLines = 5
INVARIANTS
    MeasurementTypeOK
    WholeFiles
    DepthExact
    ComplexityExact
    LinesExact
    HeadingsExact
    SectionsAccount
CHECK_DEADLOCK FALSE
