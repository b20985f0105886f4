SPECIFICATION Spec
CONSTANTS
    RowsOf <- MCRowsOf
    First <- MCFirst
    IsinTargets <- MCIsinTargets
    ApplyTargets <- MCApplyTargets
    Requests <- MCRequests
    Holder <- MCHolder
    Batch = 1
    Page = 1
    MaxWalks = 2
    MaxJobs = 2
    MaxTries = 2
    MaxFaults = 2
INVARIANT SuccessIsDrained
CHECK_DEADLOCK FALSE
