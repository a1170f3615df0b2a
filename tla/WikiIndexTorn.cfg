\* A rebuild that is killed between its deletes, and a page whose first content comes back while it is
\* embedded. Each of the two properties fails, also alone.
SPECIFICATION FairSpec
CONSTANTS
  LastPage = 1
  IndexPage = 1
  ContentOf <- Returning
  Excluded = {}
  Callers = {c1}
  Commands = {"init", "embed"}
  MaxVersion = 3
  MaxWritten = 2
  MaxFaults = 1
  RebuildTears = TRUE

PROPERTIES IndexCatchesUp EmbeddingsAreCurrent
