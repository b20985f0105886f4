SPECIFICATION Spec
CONSTANTS
    NumAccounts = 1
    Scenarios <- MCDemerged
    RecordDate = 4
    Ratio1 = 1
    Ratio2 = 2
    Pct = 50
    MaxJobs = 1
    MaxTries = 1
    MaxFaults = 0
INVARIANT DemergerSeesAllLots
CHECK_DEADLOCK FALSE
