SPECIFICATION Spec
CONSTANTS
    NglAll = 6
    NLayer = 8
    OptionSets <- CommandLines
    AnswerSets <- Machines
    Scorings <- ScoreFunctions
    MaxCrashes = 1
    None = None
INVARIANTS
    TypeOK
    BoundariesAreTrue
    SpillIsMinimal
    ReplayAgrees
    BudgetHolds
