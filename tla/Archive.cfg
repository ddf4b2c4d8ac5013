SPECIFICATION Spec
CONSTANTS
    Workers = {w1, w2}
    Boxes = {"inbox", "inbox/sub"}
    Under <- UnderTwo
    Contents = {"mail", "report"}
    Attached <- Reports
    Aging = {"mail"}
    MaxEntries = 2
    Archived = 1
    MaxDocs = 2
    MaxEvents = 2
INVARIANTS
    ContentPresent
    Reclaimed
    ReferencesResolve
PROPERTIES
    OnlyDeletionsRemove
CHECK_DEADLOCK FALSE
SYMMETRY Symmetry
