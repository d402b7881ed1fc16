SPECIFICATION Spec
CONSTANTS
    w1 = w1
    w2 = w2
    Winners = {w1, w2}
    None = None
    Worlds <- OneRound
INVARIANTS
    InterruptedRunContinues
CHECK_DEADLOCK FALSE
