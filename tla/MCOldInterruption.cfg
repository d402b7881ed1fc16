SPECIFICATION Spec
CONSTANTS
    NumModels = 3
    Worlds <- CutShort
    MinTune = 2
    Estimate = 1
INVARIANT InterruptionNeedsSignal
