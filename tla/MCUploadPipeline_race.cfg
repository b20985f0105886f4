CONSTANTS
    MaxCallbacks = 2
    MaxCrashes = 1
    MaxErrors = 2
SPECIFICATION FairSpec
INVARIANTS DispatchOnlyAfterImport CompletedIsFollowedUp
PROPERTIES WindowClosesAtMark FinalStatusIsFinal RunningEnds
CHECK_DEADLOCK FALSE
