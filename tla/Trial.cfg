\* Two workers and two submitters over two jobs, with limits every one of which is reached.
SPECIFICATION TrialSpec
CONSTANTS
  j1 = j1  j2 = j2  w1 = w1  w2 = w2  o1 = o1  s1 = s1  s2 = s2  host = host
  Jobs = {j1, j2}
  Workers = {w1, w2}
  Submitters = {s1, s2}
  Refused = {j2}
  Owners = {host}
  OwnerOf <- OneName
  Executors = {"http"}
  JobExecutor <- HttpJobs
  WorkerExecutor <- HttpWorkers
  Objects = {o1}
  KnownCaptures <- NoCaptures
  Budgets = {2}
  Lease = 1
  BackoffBase = 1
  BackoffCap = 1
  MaxTries = 2
  MaxQueued = 2
  MaxSubmitsPerDay = 2
  MaxFetchesHour = 1
  MaxFetchesDay = 2
  MinInterval = 1
  Hour = 1
  Day = 2
  MaxPauses = 1
  MaxKills = 1
  MaxSubmits = 2
  None = None
INVARIANTS RequestsWithinBudget PauseHolds
