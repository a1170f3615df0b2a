-------------------------- MODULE MCBackupRestore --------------------------
(* As MCDeletion, with one backup that a restore may go back to.              *)
EXTENDS BackupRestore

MCObjects == {1, 2, 3}
OneSource == {<<2, 1>>}
TwoSources == {<<2, 1>>, <<2, 3>>}
==============================================================================
