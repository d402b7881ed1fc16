SPECIFICATION Spec
CONSTANTS
    Settings <- Instances
    UbatchCandidates <- Ubatches
    BatchCandidates <- Batches
    Answers <- Outcomes
    ProbeAnswers <- Statuses
    Noise = 2
    MaxLost = 1
    MaxResumes = 1
    RungProbes = 3
    TotalProbes = 6
    MaxRevalidated = 1
    None = None
INVARIANTS
    TypeOK
    SweptGainsSurvive
    ConvergedIsLocal
    WorkBounded
    EnvelopeIsTrue
PROPERTIES
    ProcessEnds
