SPECIFICATION Spec
CONSTANTS
    NumPairs = 3
    AcctOf <- MCAcctOf
    IsinOf <- MCIsinOf
    Histories <- MCHistories
    Batches <- MCBatches
    Deeds <- MCDeeds
    MaxJobs = 2
    SlackRows = 1
    DeleteCap = 4
    MaxTries = 1
    MaxFaults = 1
INVARIANTS ReconstructAgrees HoldingsExact AppendedOnce SuccessIsWhole RebuildIsWhole
CHECK_DEADLOCK FALSE
