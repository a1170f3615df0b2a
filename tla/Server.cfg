\* Two calls and a worker over four edits of the file.
SPECIFICATION FairSpec
CONSTANTS
  Calls = {c1, c2}
  Workers = {w1}
  MaxEdits = 4
INVARIANTS DisabledIsQuiet
PROPERTIES LastEditIsApplied
CHECK_DEADLOCK FALSE
