SPECIFICATION Spec
CONSTANTS
    NumAccounts = 2
    Scenarios <- MCScenarios
    RecordDate = 4
    Ratio1 = 1
    Ratio2 = 2
    Pct = 50
    MaxJobs = 2
    MaxTries = 2
    MaxFaults = 2
INVARIANTS SuccessIsApplied AppliedOnce CompletedIsRebuilt
CHECK_DEADLOCK FALSE
