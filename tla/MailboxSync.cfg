SPECIFICATION Spec
CONSTANTS
    Mailboxes = {"inbox"}
    Messages = {"m1", "m2"}
    Setups <- SmallSetups
    BatchSize = 1
    MaxRetries = 1
    MaxUid = 2
    MaxValidity = 2
INVARIANTS WatermarkCovers OneCopy
PROPERTIES SessionsTrue EventuallyArchived
CHECK_DEADLOCK FALSE
