SPECIFICATION Spec
CONSTANTS
    Streams <- OutErr
    Cap = 2
    PipeSize = 1
    Programs <- Children
    MaxInterrupts = 2
INVARIANTS
    TypeOK
    CaptureComplete
    ReapedDespiteInterrupt
PROPERTIES
    RunEnds
