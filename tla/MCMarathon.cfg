SPECIFICATION Spec
CONSTANTS
    w1 = w1
    w2 = w2
    Winners = {w1, w2}
    None = None
    Worlds <- Commands
INVARIANTS
    TypeOK
    MatrixIsFirstFit
    ChampionIsWon
    EndIsHonest
PROPERTIES
    ProcessEnds
CHECK_DEADLOCK FALSE
