CONSTANTS
    TotalChunks = 2
    MaxInFlight = 2
    MaxRuns = 2
    Starts = 2
    MaxJobs = 3
    MaxRetries = 0
    MaxSlaveRetries = 1
    NoState = NoState
SPECIFICATION Spec
INVARIANTS TypeOK EveryChunkAccounted CompletedMeansDone
PROPERTY ImplementsDispatch
CHECK_DEADLOCK FALSE
