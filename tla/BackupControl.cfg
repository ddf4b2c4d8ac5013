SPECIFICATION ControlSpec
CONSTANTS
    Mail = {"m1", "m2", "m3"}
    Installs <- MCInstalls
    NoDir = NoDir
    MaxFaults = 2
    Setups <- MCSetups
    Admins = {"a1", "a2"}
    HistoryLimit = 2
INVARIANTS
    DirectoryServed
    BackupsTrue
PROPERTIES
    OperatorGetsThrough
    BackupsEnd
