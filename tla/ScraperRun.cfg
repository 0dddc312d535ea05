SPECIFICATION FairSpec
CONSTANTS
    call = call
    Callers <- ACall
    MaxRuns = 2
    Limit = 1
    Period = 1
    Threshold = 2
    ForceAfter = 2
    Horizon = 2
    MaxTime = 4
    MaxFaults = 2
    Faults <- Survivable
INVARIANTS TypeOK PendingRunHeld NoStrandedRow QuotaSettled
PROPERTIES DeleteSparesRuns ClaimsAreReleased RunsEnd
CHECK_DEADLOCK FALSE
