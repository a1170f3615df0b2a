\* One browser job, two workers under one name: every race for one try.
SPECIFICATION FairSpec
CONSTANTS
  j1 = j1  j2 = j2  w1 = w1  w2 = w2  o1 = o1  o2 = o2  k1 = k1  k2 = k2  host = host
  Jobs = {j1}
  Workers = {w1, w2}
  Owners = {host}
  OwnerOf <- MCOwnerOf
  Executors = {"http", "browser"}
  JobExecutor <- BrowserJobs
  WorkerExecutor <- BrowserWorkers
  Objects = {o1, o2}
  KnownCaptures <- MCKnown
  Budgets = {1, 2}
  Lease = 1
  BackoffBase = 1
  BackoffCap = 2
  MaxTries = 3
  None = None
INVARIANTS HistoryIsExact EveryCaptureIsRecorded TryHeldOnce WithinBudget ClaimsAreEvidenced
PROPERTIES LiveLeaseIsKept RefinesTryLedger EveryJobSettles
