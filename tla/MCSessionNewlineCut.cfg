SPECIFICATION Spec
CONSTANTS
    Kinds <- SessionOnly
    CutsOf <- AnySessionCut
    MaxRecords = 4
    MaxCrashes = 2
    Torn = Torn
    None = None
INVARIANT ResumedJournalNeverMerges
CHECK_DEADLOCK FALSE
