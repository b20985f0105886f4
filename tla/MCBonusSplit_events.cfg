SPECIFICATION Spec
CONSTANTS
    NumAccounts = 3
    Holders = {1, 3}
    SplitHolders = {1, 2}
    MaxRequests = 2
    MaxRuns = 2
    MaxRetries = 1
    MaxFaults = 2
INVARIANTS TypeOK BonusOnce CompletedMeansBonus NobodyLeftBehind SharesFresh
CHECK_DEADLOCK FALSE
