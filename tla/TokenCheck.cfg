\* Two requests, a key that comes and goes, one outage.
SPECIFICATION TokenSpec
CONSTANTS
  Requests = {r1, r2}
  Kids = {k1}
  Unknown = unknown
  TTL = 4
  Floor = 2
  FetchMax = 1
  Lives = {1}
  Leeway = 1
  MaxRotations = 2
  MaxOutages = 1
INVARIANTS FetchesAreSpaced
PROPERTIES AdmittedIsCurrent RotationIsSeen EveryRequestEnds
