\* An http and a browser job, each with a worker of its own executor.
SPECIFICATION FairSpec
CONSTANTS
  j1 = j1  j2 = j2  w1 = w1  w2 = w2  o1 = o1  o2 = o2  k1 = k1  k2 = k2  host = host
  Jobs = {j1, j2}
  Workers = {w1, w2}
  Owners = {host}
  OwnerOf <- MCOwnerOf
  Executors = {"http", "browser"}
  JobExecutor <- TwoJobExecutor
  WorkerExecutor <- TwoWorkerExecutor
  Objects = {o1}
  KnownCaptures <- NoKnown
  Budgets = {2}
  Lease = 1
  BackoffBase = 1
  BackoffCap = 2
  MaxTries = 2
  None = None
PROPERTIES EveryJobSettles
