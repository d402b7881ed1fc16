SPECIFICATION Spec
CONSTANT
    Worlds <- Cases
INVARIANTS
    TypeOK
    GradedOnce
    OneChild
    ExitIsHonest
PROPERTIES
    ProcessEnds
CHECK_DEADLOCK FALSE
