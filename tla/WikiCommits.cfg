\* Tool calls and an ingest run on two pages; one timeout or kill.
SPECIFICATION FairSpec
CONSTANTS
  Pages = {p1, p2}
  Calls = {c1}
  Ingest = Ingest
  AutoCommit = "write+ingest"
  MaxVersion = 2
  MaxFaults = 1
  None = None
INVARIANT CutOnlyByFaults
PROPERTIES CommittedUnlessCut
CHECK_DEADLOCK FALSE
