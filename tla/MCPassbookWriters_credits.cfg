SPECIFICATION Spec
CONSTANTS
    NumAccounts = 2
    Trades <- MCTrades
    NumImports = 1
    Opening <- MCOpening
    NumDividends = 1
    RecordDate <- MCRecordDate
    Amount <- MCAmount
    File <- MCFile
    NumRequests = 2
    MaxJobs = 3
    RebuildOf = {1}
    MaxOpen = 2
    MaxTries = 1
    MaxSpent = 2
    ChunkDays = 2
    LastDay = 4
INVARIANTS PassbookAdds DividendOnce CompletedMeansPaid
CONSTRAINT Apart
CHECK_DEADLOCK FALSE
