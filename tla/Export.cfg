SPECIFICATION Spec
CONSTANTS
    Messages = {1, 2, 3}
    Archived = {2, 3}
    Holed = {3}
    PageSize = 1
    MaxConcurrent = 1
    Users = {1, 2}
    Workers = {1, 2}
    MaxJobs = 2
    MaxEvents = 2

    
PROPERTIES ExportsEnd
CHECK_DEADLOCK FALSE
