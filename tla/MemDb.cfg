SPECIFICATION Spec
CONSTANTS
    Keys = {k1, k2}
    Values = {v1}
    Absent = absent
    Durability = "batch"
    MaxOps = 2
    Torn = TRUE
    IoErrors = TRUE
    FileErrors = TRUE
    PowerLoss = TRUE
    MaxSeq = 2
    MaxLines = 3
    MaxCrashes = 2
SYMMETRY KeySymmetry
CHECK_DEADLOCK FALSE
INVARIANTS
    RecoversAPrefix
    RetriedSurvives
