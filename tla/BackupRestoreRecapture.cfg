\* An object the log deletes is captured again in a restored archive.
SPECIFICATION BackupSpec
CONSTANTS
  Objects <- MCObjects
  Originals = {1, 3}
  Derives <- TwoSources
  Targets = {1, 3}
  MaxLog = 2
  NoBackup = NoBackup
INVARIANTS DeletedIsHidden
