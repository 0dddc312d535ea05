SPECIFICATION FairSpec
CONSTANTS
  a = a  b = b
  Sheets = Sheets  Reaper = Reaper
  Jobs = {a, b}
  Trips <- Mixed
  ResetTargets = {"detect-schema", "geocode-batch", "create-events"}
  MaxCalls = 1
  Faults = {"throw", "late", "queueFail", "reap"}
INVARIANTS TypeOK NoStrandedJob NoUnapprovedSchema CompletedFileIsComplete
PROPERTIES ReviewNotBypassed StageSettles
CHECK_DEADLOCK FALSE
