SPECIFICATION Spec
CONSTANTS
    NumPairs = 3
    AcctOf <- MCAcctOf
    IsinOf <- MCIsinOf
    NumAccounts = 2
    Histories <- MCHistories
    Batches <- MCBatches
    Deeds <- MCDeeds
    SlackRows = 1
    MaxJobs = 2
    MaxTries = 1
    MaxFaults = 2
INVARIANTS CompletedIsWhole RowsExact LotsAccounted CopiesAgree AsOnViewAgrees
CHECK_DEADLOCK FALSE
