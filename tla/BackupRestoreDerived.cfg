\* Both sources of a derived object are deleted after the backup.
SPECIFICATION BackupSpec
CONSTANTS
  Objects <- MCObjects
  Originals = {1, 3}
  Derives <- TwoSources
  Targets = {1, 3}
  MaxLog = 3
  NoBackup = NoBackup
INVARIANTS RestoredDerivedFollows
