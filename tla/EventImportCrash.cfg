SPECIFICATION Spec
CONSTANTS
  a = a  b = b
  k1 = k1  k2 = k2  k3 = k3
  d1 = d1
  w1 = w1  w2 = w2
  Seed = Seed  NoJob = NoJob  Free = Free  Nobody = Nobody
  Jobs = {a, b}
  Workers = {w1, w2}
  Datasets = {d1}
  Keys = {k1}
  DatasetOf <- OneDataset
  Rows <- SameRows
  UpdateJobs = {a}
  SeedKeys = {}
  Limit = 3
  ImportLimit = 3
  MaxTries = 2
  Faults = {"throw", "rowError", "crash", "restoreFail", "cleanupFail"}
PROPERTIES CleanupDeletesOwnInserts
CHECK_DEADLOCK FALSE
