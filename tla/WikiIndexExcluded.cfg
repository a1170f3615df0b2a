\* A page the server's tools may write and the scan leaves out.
SPECIFICATION FairSpec
CONSTANTS
  LastPage = 1
  IndexPage = 1
  ContentOf <- Distinct
  Excluded = {1}
  Callers = {c1, c2}
  Commands = {"init", "index"}
  MaxVersion = 2
  MaxWritten = 2
  MaxFaults = 1
  RebuildTears = FALSE
INVARIANT StampMeansCurrent
PROPERTIES IndexCatchesUp
