SPECIFICATION TasksSpec
CONSTANTS
    Accounts = {a1, a2}
    Requests = {m1, m2}
    None = none
CHECK_DEADLOCK FALSE
INVARIANTS
    MutualExclusion
    BusyExact
PROPERTIES
    EverythingEnds
