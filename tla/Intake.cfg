CONSTANTS
    Mail <- MCMail
    Body <- MCBody
    Sessions = {1, 2}
    Importer = 3
    Loads <- MCLoads
    MaxFaults = 2
    BatchLimit = 2
    MaxBuffer = 3
SPECIFICATION Spec
INVARIANTS IntakeTrue
PROPERTIES IntakeEnds
CHECK_DEADLOCK FALSE
