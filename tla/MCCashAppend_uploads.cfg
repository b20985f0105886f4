CONSTANTS
    NumAccounts = 2
    Txns <- TwoUploads
    NumImports = 2
    Slack = 1
    MaxTime = 3
    MaxRuns = 3
    MaxRetries = 1
    MaxHandoffs = 1
    MaxFaults = 2
    PageSize = 2
    DeleteCap = 1
SPECIFICATION FairSpec
INVARIANTS PassbookExact PostedOnce
PROPERTY WalkEnds
CONSTRAINT Within
CHECK_DEADLOCK FALSE
