CONSTANTS
    TotalChunks = 2
    MaxInFlight = 1
    MaxRuns = 2
    Starts = 1
    MaxJobs = 4
    MaxRetries = 1
    MaxSlaveRetries = 0
    NoState = NoState
SPECIFICATION FairSpec
INVARIANTS WindowOnTheWay OneSlavePerChunk
PROPERTIES ProgressNeverLost BatonReachesTheEnd
CHECK_DEADLOCK FALSE
