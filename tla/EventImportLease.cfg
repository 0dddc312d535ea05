SPECIFICATION FairSpec
CONSTANTS
  a = a  b = b
  k1 = k1  k2 = k2  k3 = k3
  d1 = d1
  w1 = w1  w2 = w2
  Seed = Seed  NoJob = NoJob  Free = Free  Nobody = Nobody
  Jobs = {a, b}
  Workers = {w1, w2}
  Datasets = {d1}
  Keys = {k1}
  DatasetOf <- OneDataset
  Rows <- SameRows
  UpdateJobs = {a}
  SeedKeys = {}
  Limit = 1
  ImportLimit = 2
  MaxTries = 2
  Faults = {"throw", "leaseFail", "double", "guardFail", "redeliverReview"}
INVARIANTS Serialised
PROPERTIES LeaseFreed ImportSettles
CHECK_DEADLOCK FALSE
