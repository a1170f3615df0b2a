\* One page under a server with one call at a time, a command beside it, one
\* fault; an edit may bring the first content back.
SPECIFICATION FairSpec
CONSTANTS
  LastPage = 1
  IndexPage = 1
  ContentOf <- Returning
  Excluded = {}
  Callers = {c1}
  Commands = {"init", "embed"}
  MaxVersion = 3
  MaxWritten = 2
  MaxFaults = 1
  RebuildTears = FALSE
INVARIANT StampMeansCurrent
PROPERTIES IndexCatchesUp EmbeddingsCatchUp
