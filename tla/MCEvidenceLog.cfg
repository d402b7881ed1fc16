SPECIFICATION Spec
CONSTANTS
    Kinds <- AllKinds
    CutsOf <- ToleratedCuts
    MaxRecords = 6
    MaxCrashes = 4
    Torn = Torn
    None = None
INVARIANTS
    TypeOK
    AckedSurvive
    MemoryIsDisk
    LossBounded
PROPERTY ImplementsDurableLog
CHECK_DEADLOCK FALSE
