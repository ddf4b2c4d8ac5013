SPECIFICATION ReadingSpec
CONSTANTS
    Accounts <- MCAccounts
    Views <- MCViews
    Messages <- MCMessages
    Message <- MCMessage
    Roles <- MCRoles
    Permissions <- MCPermissions
    Fold <- MCFold
    Directories <- MCDirectories
    Requests <- MCRequests
    Arrivals <- MCArrivals
    Everything = Everything
    Sample = 1
    PageLimit = 2
    MaxChanges = 1
    MaxTime = 1
    Files <- SmallFiles
    Holdings <- MCHoldings
    QueueRoom = 1
    MaxCandidates = 1
    HistoryLimit = 1
    MaxServerUid = 3
INVARIANTS
    ListsAgree
    NothingBeyond
PROPERTIES
    ContentTrue
CHECK_DEADLOCK FALSE
