SPECIFICATION StoreSpec
CONSTANTS
    f1 = f1
    f2 = f2
    Files = {f1, f2}
    KeepLast = 2
    Periods <- Daily
    MaxRuns = 4
    MaxSeq = 3
    MaxFaults = 1
SYMMETRY FileSymmetry
INVARIANTS
    Restorable
    AuditWhole
    LatestResolves
PROPERTY
    RetentionKept
CHECK_DEADLOCK FALSE
