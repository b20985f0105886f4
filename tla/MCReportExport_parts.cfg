SPECIFICATION Spec
CONSTANTS
    NumEntries = 3
    PartSize = 2
    MaxJobs = 2
    MaxRequests = 2
    MaxFaults = 2
    NoCheckpoint = NoCheckpoint
INVARIANT OfferedIsWhole
CHECK_DEADLOCK FALSE
