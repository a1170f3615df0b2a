\* A crash in the middle of a move, then a handle that was open before.
SPECIFICATION Spec
CONSTANTS
  Objects <- MCObjects
  Originals = {1, 3}
  Derives <- TwoSources
  Targets = {1, 3}
  MaxLog = 4
INVARIANTS OnePlace
