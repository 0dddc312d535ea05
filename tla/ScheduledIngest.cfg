SPECIFICATION FairSpec
CONSTANTS
    hook = hook
    user = user
    Hooks <- AHook
    Users <- AUser
    MaxRuns = 2
    Period = 1
    Threshold = 1
    ForceAfter = 1
    MaxRetries = 1
    Attempts = 1
    Horizon = 1
    MaxTime = 3
    MaxFaults = 2
    Faults <- Survivable
INVARIANTS TypeOK LiveRunHeld OneLiveRun FinishedRunsSpared
PROPERTIES ClaimsAreReleased DisabledOnlyAfterFailures
CHECK_DEADLOCK FALSE
