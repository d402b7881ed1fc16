SPECIFICATION Spec
CONSTANTS
    Default = Default
    Others = {c1, c2, c3, c4}
    Scores <- ScoreLevels
    Builds = {"old", "new"}
    Threshold = 1
    OptionSets <- WithContext
    MaxLost = 0
    MaxResumes = 0
    Rejected = Rejected
    None = None
INVARIANT ExhaustionJumpsToConfirmation
