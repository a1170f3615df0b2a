--------------------------- MODULE BackupRestore ---------------------------
(****************************************************************************)
(* Backups and restores of the archive (internal/archive/backup.go) over    *)
(* the deletion log of module Deletion. A backup is one consistent copy of  *)
(* registry, files and log, taken under the exclusive lock. A restore puts  *)
(* an old copy in a new root beside the newest log it is given, and Open    *)
(* re-applies that log, so that nothing deleted since comes back.           *)
(****************************************************************************)
EXTENDS Deletion

CONSTANT NoBackup

VARIABLES
  backup,     \* the copy at hand, or NoBackup
  unopened,   \* the archive is a restored copy that no Open has gone through yet
  deleted     \* what the live log deleted when the copy was restored (auxiliary)

allVars == <<vars, backup, unopened, deleted>>

Copy == [rows : [Objects -> Row], files : [Objects -> SUBSET Places],
         captured : SUBSET Objects, links : SUBSET Derives, length : Nat]

-----------------------------------------------------------------------------
BackupInit == Init /\ backup = NoBackup /\ unopened = FALSE /\ deleted = {}

(* checkBackupObjects: every active and quarantined object is in its place.   *)
Consistent ==
  \A o \in Objects :
    /\ rows[o].state = "active" => "active" \in files[o]
    /\ rows[o].state = "quarantined" => "quarantine" \in files[o]

Backup_Unchecked ==
  /\ LockFree /\ ~unopened
  /\ backup' = [rows |-> rows, files |-> files, captured |-> captured, links |-> links,
                length |-> Len(log)]
  /\ UNCHANGED <<vars, unopened, deleted>>

(* An inconsistent copy gets no manifest; one without a manifest is no backup. *)
Backup ==
  /\ LockFree /\ ~unopened
  /\ Consistent
  /\ backup' = [rows |-> rows, files |-> files, captured |-> captured, links |-> links,
                length |-> Len(log)]
  /\ UNCHANGED <<vars, unopened, deleted>>

(* What a restore has in hand: the copy, and a log that extends the copy's.   *)
RestoredFrom(copy, n) ==
  /\ rows' = copy.rows /\ files' = copy.files
  /\ captured' = copy.captured /\ links' = copy.links
  /\ log' = SubSeq(log, 1, n)
  /\ pending' = {} /\ applying' = NotApplying /\ opening' = FALSE
  /\ stale' = TRUE /\ unopened' = TRUE
  /\ deleted' = {o \in Logged : Latest(o).action # "restore"}
  /\ UNCHANGED backup

Restore_BackupLogOnly ==
  /\ backup # NoBackup
  /\ LockFree
  /\ RestoredFrom(backup, backup.length)

(* Restore into a new root with the live log, which extends the backup's own.  *)
(* The live archive is given up: from here on the copy is the archive.      *)
Restore ==
  /\ backup # NoBackup
  /\ LockFree
  /\ RestoredFrom(backup, Len(log))

BackupThirtyDays ==
  /\ ThirtyDays
  /\ backup' = IF backup = NoBackup THEN NoBackup
               ELSE [backup EXCEPT !.rows = [o \in Objects |-> [backup.rows[o] EXCEPT !.at = "ripe"]]]
  /\ UNCHANGED <<unopened, deleted>>

(* Restore returns the archive only after Open went through the whole log; an   *)
(* Open that fails is repeated by the next command on that root.            *)
Opening ==
  /\ Open \/ BeginApply \/ MoveFile \/ SetRow \/ Stop
  /\ unopened' = (unopened /\ stale')
  /\ UNCHANGED <<backup, deleted>>

Using ==
  /\ ~unopened
  /\ \/ \E o \in Originals : CaptureSource(o)
     \/ \E p \in Derives : AddDerived(p[1], p[2])
     \/ \E o \in Targets : Quarantine(o) \/ Unquarantine(o) \/ Purge(o)
  /\ UNCHANGED <<backup, unopened, deleted>>

BackupNext == Backup \/ Restore \/ BackupThirtyDays \/ Opening \/ Using

BackupSpec == BackupInit /\ [][BackupNext]_allVars

-----------------------------------------------------------------------------
(* Properties.                                                              *)

(* The tables, the copy at hand and its place in the log have their types.    *)
BackupTypeOK ==
  /\ TypeOK
  /\ backup \in {NoBackup} \cup Copy
  /\ unopened \in BOOLEAN
  /\ deleted \subseteq Objects

(* What a restore hands over, however old the copy and however often its Open   *)
(* stopped: nothing the live log deleted is active or has a file in         *)
(* objects/.                                                                *)
NothingReturns ==
  [][unopened /\ ~unopened' =>
       \A o \in deleted : rows'[o].state # "active" /\ "active" \notin files'[o]]_allVars

(* And every row of it says where the bytes are.                              *)
RestoredInPlace == [][unopened /\ ~unopened' => \A o \in Objects : InPlace(o)']_allVars

(* A derived object whose sources are all quarantined or purged in a restored   *)
(* archive is not active there: the log deletes it with its last source,    *)
(* as it did in the live archive. RestoreTest reports one that is.          *)
RestoredDerivedFollows ==
  Settled /\ ~unopened => \A d \in Objects \ captured :
    SourcesOf(d) # {} /\ (\A s \in SourcesOf(d) : rows[s].state # "active")
      => rows[d].state # "active"
=============================================================================
