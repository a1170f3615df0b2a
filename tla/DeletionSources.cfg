\* Operators act on two of the three sources that share a derived object.
SPECIFICATION Spec
CONSTANTS
  Objects <- FourObjects
  Originals = {1, 3, 4}
  Derives <- ThreeSources
  Targets = {1, 3}
  MaxLog = 4
INVARIANTS RowsTellPlaces DerivedFollows BytesSurvive QuarantinedIsRestorable
PROPERTIES ReplayIsNeutral
