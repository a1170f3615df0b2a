\* One source and an object derived from it; a restore to any older copy.
SPECIFICATION BackupSpec
CONSTANTS
  Objects = {1, 2}
  Originals = {1}
  Derives <- OneSource
  Targets = {1}
  MaxLog = 4
  NoBackup = NoBackup
PROPERTIES NothingReturns RestoredInPlace
CHECK_DEADLOCK FALSE
