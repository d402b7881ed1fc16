SPECIFICATION Spec
CONSTANTS
    NumModels = 3
    Worlds <- Directories
    MinTune = 2
    Estimate = 1
INVARIANTS
    TypeOK
    NothingLeftOut
    EndIsHonest
    RecordsAreEvidence
PROPERTIES
    WorkIsKept
