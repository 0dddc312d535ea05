SPECIFICATION Spec
CONSTANTS
  a = a  b = b
  k1 = k1  k2 = k2  k3 = k3
  d1 = d1
  w1 = w1  w2 = w2
  Seed = Seed  NoJob = NoJob  Free = Free  Nobody = Nobody
  Jobs = {a}
  Workers = {w1}
  Datasets = {d1}
  Keys = {k1, k2}
  DatasetOf <- OneDataset
  Rows <- SameRows
  UpdateJobs = {a}
  SeedKeys = {k1}
  Limit = 2
  ImportLimit = 2
  MaxTries = 3
  Faults = {"throw", "rowError", "crash", "restoreFail", "cleanupFail", "refundFail", "discardFail", "markFail", "redeliver"}
INVARIANTS TypeOK
PROPERTIES CommittedEventsKept AllOrNothing
CHECK_DEADLOCK FALSE
