\* Operators also act on the derived object itself: each of the properties fails, alone too.
SPECIFICATION Spec
CONSTANTS
  Objects <- MCObjects
  Originals = {1, 3}
  Derives <- TwoSources
  Targets = {1, 2, 3}
  MaxLog = 4
INVARIANTS QuarantinedIsRestorable RowsTellPlaces
PROPERTIES PurgedStays ReplayIsNeutral
