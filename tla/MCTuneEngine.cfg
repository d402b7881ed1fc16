SPECIFICATION Spec
CONSTANTS
    Default = Default
    Others = {c1, c2}
    Scores <- ScoreLevels
    Builds = {"old", "new"}
    Threshold = 1
    OptionSets <- CommandLines
    MaxLost = 1
    MaxResumes = 1
    Rejected = Rejected
    None = None
INVARIANTS
    TypeOK
    BudgetHolds
    RecommendationsAreHonest
PROPERTIES
    MeasuredOnce
    RunTerminates
