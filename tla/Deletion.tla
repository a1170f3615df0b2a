------------------------------ MODULE Deletion ------------------------------
(****************************************************************************)
(* Quarantine, restore and purge of archive objects                         *)
(* (internal/archive/deletion.go), with what adds objects beside them       *)
(* (archive.go store, fetched.go, extract.go).                              *)
(*                                                                          *)
(* A deletion action appends a record to the durable log, then brings the   *)
(* registry rows and the files in line with it, object by object and file   *)
(* before row. It may stop at any point (crash, I/O error). Open re-applies *)
(* the latest record of every object in the log, in the order of their ids. *)
(* All of it happens under the exclusive archive lock; adding takes the     *)
(* shared one. Object ids are numbers, so that they have their order.       *)
(*                                                                          *)
(* Clocks: the only use of time is the wait before a purge, so an instant   *)
(* is "recent" until ThirtyDays passes and "ripe" after.                    *)
(****************************************************************************)
EXTENDS Naturals, Sequences, FiniteSets

CONSTANTS
  Objects,     \* object ids
  Originals,   \* objects somebody captures
  Derives,     \* pairs <<derived, source>> an import or extraction may record
  Targets,     \* objects operators act on
  MaxLog       \* bound of the model: records in the log

ASSUME ObjectAssumption ==
  /\ Objects \subseteq Nat
  /\ Originals \subseteq Objects
  /\ Derives \subseteq Objects \X Objects
  /\ Targets \subseteq Objects
  /\ MaxLog \in Nat

VARIABLES
  rows,       \* table objects: state and state_at; "absent" when there is no row
  files,      \* the directories an object's bytes are in: objects/sha256, quarantine
  captured,   \* objects that are the original of a capture
  links,      \* tables derivations and extractions: <<derived, source>>
  log,        \* deletions/log.jsonl
  pending,    \* objects whose latest record the lock holder has still to apply
  applying,   \* the record it is applying
  opening,    \* the lock holder is in Open, re-applying the whole log
  stale       \* a record was left unapplied since the last Open (auxiliary)

vars == <<rows, files, captured, links, log, pending, applying, opening, stale>>

-----------------------------------------------------------------------------
States  == {"absent", "active", "quarantined", "purged"}
Actions == {"quarantine", "restore", "purge"}
Ages    == {"recent", "ripe"}
Places  == {"active", "quarantine"}

Row    == [state : States, at : Ages]
Record == [action : Actions, object : Objects, at : Ages]

NotApplying == [action |-> "none", object |-> 0, at |-> "recent", left |-> {}, moved |-> {}]

Applying == [action : Actions \cup {"none"}, object : Objects \cup {0}, at : Ages,
             left : SUBSET Objects, moved : SUBSET Objects]

LockFree == pending = {} /\ applying = NotApplying

Least(S) == CHOOSE x \in S : \A y \in S : x <= y

Logged == {log[n].object : n \in 1..Len(log)}

(* latestDeletions: the record of o with the highest seq.                    *)
Latest(o) == LET n == CHOOSE n \in 1..Len(log) :
                        log[n].object = o /\ \A k \in (n + 1)..Len(log) : log[k].object # o
             IN  log[n]

(* Another source still needs d: for a quarantine an active one, for a purge   *)
(* also a quarantined one.                                                  *)
NeededByOther(d, o, action) ==
  \E s \in Objects \ {o} :
    /\ <<d, s>> \in links
    /\ rows[s].state = "active" \/ (action = "purge" /\ rows[s].state = "quarantined")

derivedObjects_IgnoresOthers(o, action) ==
  {d \in Objects \ (captured \cup {o}) : <<d, o>> \in links}

derivedObjects_PurgesQuarantined(o, action) ==
  {d \in Objects \ (captured \cup {o}) :
     <<d, o>> \in links /\ (action = "restore" \/ ~NeededByOther(d, o, "quarantine"))}

(* The objects made from o's bytes that an action on o moves along.          *)
derivedObjects(o, action) ==
  {d \in Objects \ (captured \cup {o}) :
     <<d, o>> \in links /\ (action = "restore" \/ ~NeededByOther(d, o, action))}

(* The state an action leaves an object in.                                  *)
StateFor(action) ==
  CASE action = "quarantine" -> "quarantined"
    [] action = "restore"    -> "active"
    [] action = "purge"      -> "purged"

(* moveIfPresent: nothing when the source is missing; when both exist the      *)
(* verified destination stays and the source is removed.                    *)
moveIfPresent(places, src, dst) == IF src \in places THEN {dst} ELSE places

Moved(places, action) ==
  CASE action = "quarantine" -> moveIfPresent(places, "active", "quarantine")
    [] action = "restore"    -> moveIfPresent(places, "quarantine", "active")
    [] action = "purge"      -> {}

-----------------------------------------------------------------------------
Init ==
  /\ rows = [o \in Objects |-> [state |-> "absent", at |-> "recent"]]
  /\ files = [o \in Objects |-> {}]
  /\ captured = {}
  /\ links = {}
  /\ log = <<>>
  /\ pending = {}
  /\ applying = NotApplying
  /\ opening = FALSE
  /\ stale = FALSE

(* store and addDerivation insert the row of an object that has none.         *)
WithRow(o) ==
  IF rows[o].state = "absent" THEN [rows EXCEPT ![o] = [state |-> "active", at |-> "recent"]]
  ELSE rows

Usable_AnyState(o) == TRUE

(* Bytes of a quarantined or purged object are refused.                      *)
Usable(o) == rows[o].state \in {"absent", "active"}

(* store: a capture of bytes o. The file is published before the row is       *)
(* committed, so a crash between leaves the file alone.                     *)
CaptureSource(o) ==
  /\ LockFree
  /\ Usable(o)
  /\ files' = [files EXCEPT ![o] = @ \cup {"active"}]
  /\ \/ rows' = WithRow(o) /\ captured' = captured \cup {o}
     \/ UNCHANGED <<rows, captured>>
  /\ UNCHANGED <<links, log, pending, applying, opening, stale>>

(* addDerivation and the end of ExtractText: bytes d made from source s. The  *)
(* source must still be active; the body was captured in an earlier commit. *)
AddDerived(d, s) ==
  /\ LockFree
  /\ s \in captured /\ rows[s].state = "active"
  /\ Usable(d)
  /\ files' = [files EXCEPT ![d] = @ \cup {"active"}]
  /\ \/ rows' = WithRow(d) /\ links' = links \cup {<<d, s>>}
     \/ UNCHANGED <<rows, links>>
  /\ UNCHANGED <<captured, log, pending, applying, opening, stale>>

(* record: the durable record is appended first, and only then applied.      *)
Append1(o, action) ==
  /\ log' = Append(log, [action |-> action, object |-> o, at |-> "recent"])
  /\ pending' = {o}
  /\ UNCHANGED <<rows, files, captured, links, applying, opening, stale>>

(* The digest an operator passes is that of the current impact report: any     *)
(* other one is refused.                                                    *)
Quarantine(o) ==
  /\ LockFree /\ Len(log) < MaxLog
  /\ rows[o].state = "active"
  /\ Append1(o, "quarantine")

(* A restore needs the bytes of every object it brings back.                 *)
Restorable(o) == \A x \in {o} \cup derivedObjects(o, "restore") : files[x] # {}

Unquarantine(o) ==
  /\ LockFree /\ Len(log) < MaxLog
  /\ rows[o].state = "quarantined"
  /\ Restorable(o)
  /\ Append1(o, "restore")

Purge(o) ==
  /\ LockFree /\ Len(log) < MaxLog
  /\ rows[o].state = "quarantined"
  /\ rows[o].at = "ripe"
  /\ Append1(o, "purge")

(* applyDeletions: what Open does once it has the lock.                      *)
Open ==
  /\ LockFree
  /\ pending' = Logged
  /\ opening' = (Logged # {})
  /\ stale' = (stale /\ Logged # {})
  /\ UNCHANGED <<rows, files, captured, links, log, applying>>

(* apply begins: the derived objects are looked up once, before any is moved. *)
BeginApply ==
  /\ applying = NotApplying /\ pending # {}
  /\ LET rec == Latest(Least(pending)) IN
       applying' = [action |-> rec.action, object |-> rec.object, at |-> rec.at,
                    left |-> {rec.object} \cup derivedObjects(rec.object, rec.action),
                    moved |-> {}]
  /\ UNCHANGED <<rows, files, captured, links, log, pending, opening, stale>>

(* The next object: the record's own first, then the derived ones by id.     *)
NextObject ==
  IF applying.object \in applying.left THEN applying.object ELSE Least(applying.left)

(* applyObject moves the file, then sets the row.                            *)
MoveFile ==
  /\ applying.left # {} /\ applying.moved = {}
  /\ files' = [files EXCEPT ![NextObject] = Moved(@, applying.action)]
  /\ applying' = [applying EXCEPT !.moved = {NextObject}]
  /\ UNCHANGED <<rows, captured, links, log, pending, opening, stale>>

RowSet(o) ==
  IF rows[o].state = "absent" THEN rows
  ELSE [rows EXCEPT ![o] = [state |-> StateFor(applying.action), at |-> applying.at]]

(* UPDATE ... WHERE object_id: nothing when the registry has no such row. The  *)
(* lock is released after the last one.                                     *)
SetRow ==
  LET o == NextObject
      rest == applying.left \ {o}
      last == rest = {} /\ pending = {applying.object}
  IN
  /\ applying.moved # {}
  /\ rows' = RowSet(o)
  /\ IF rest = {}
     THEN applying' = NotApplying /\ pending' = pending \ {applying.object}
     ELSE applying' = [applying EXCEPT !.left = rest, !.moved = {}] /\ UNCHANGED pending
  /\ opening' = (opening /\ ~last)
  /\ stale' = (stale /\ ~(last /\ opening))
  /\ UNCHANGED <<files, captured, links, log>>

(* The process dies, or an error ends the action: the lock is free again and   *)
(* what was not applied waits for the next Open.                            *)
Stop ==
  /\ ~LockFree
  /\ pending' = {} /\ applying' = NotApplying /\ opening' = FALSE
  /\ stale' = TRUE
  /\ UNCHANGED <<rows, files, captured, links, log>>

(* QuarantineMinimum passes.                                                *)
ThirtyDays ==
  /\ LockFree
  /\ rows' = [o \in Objects |-> [rows[o] EXCEPT !.at = "ripe"]]
  /\ log' = [n \in 1..Len(log) |-> [log[n] EXCEPT !.at = "ripe"]]
  /\ UNCHANGED <<files, captured, links, pending, applying, opening, stale>>

Next ==
  \/ \E o \in Originals : CaptureSource(o)
  \/ \E p \in Derives : AddDerived(p[1], p[2])
  \/ \E o \in Targets : Quarantine(o) \/ Unquarantine(o) \/ Purge(o)
  \/ Open \/ BeginApply \/ MoveFile \/ SetRow \/ Stop \/ ThirtyDays

Spec == Init /\ [][Next]_vars

-----------------------------------------------------------------------------
(* Properties.                                                              *)

(* Every table, directory and record has its type.                          *)
TypeOK ==
  /\ rows \in [Objects -> Row]
  /\ files \in [Objects -> SUBSET Places]
  /\ captured \subseteq Objects
  /\ links \subseteq Derives
  /\ log \in Seq(Record)
  /\ pending \subseteq Objects
  /\ applying \in Applying
  /\ opening \in BOOLEAN /\ stale \in BOOLEAN

(* Nobody holds the lock and every record has been applied.                 *)
Settled == LockFree /\ ~stale

(* The bytes of o are where its row says.                                    *)
InPlace(o) ==
  CASE rows[o].state = "absent"      -> TRUE
    [] rows[o].state = "active"      -> "active" \in files[o]
    [] rows[o].state = "quarantined" -> files[o] = {"quarantine"}
    [] rows[o].state = "purged"      -> files[o] = {}

(* Between actions an object's row says where its bytes are, whatever stopped   *)
(* before and was re-applied. A file beside an active one may stay behind in *)
(* quarantine/ (see OnePlace); nothing deleted stays behind in objects/.    *)
RowsTellPlaces == Settled => \A o \in Objects : InPlace(o)

(* What the comment of moveIfPresent promises: an object never lives in two     *)
(* places.                                                                  *)
OnePlace == Settled => \A o \in Objects : Cardinality(files[o]) <= 1

SourcesOf(d) == {s \in Objects : <<d, s>> \in links}

FollowsSources(d) ==
  LET states == {rows[s].state : s \in SourcesOf(d)} IN
  rows[d].state = (IF "active" \in states THEN "active"
                   ELSE IF "quarantined" \in states THEN "quarantined"
                   ELSE "purged")

(* A derived object that is no capture's original is as deleted as the least   *)
(* deleted of its sources: kept while one needs it, gone with the last. It   *)
(* holds however the actions on the sources interleave, stop and replay.    *)
DerivedFollows ==
  Settled => \A d \in Objects \ captured : SourcesOf(d) # {} => FollowsSources(d)

PurgeLogged(o) == o \in Logged /\ Latest(o).action = "purge"

(* Bytes are only ever removed by a purge: at every moment, also in the middle  *)
(* of an action or after one that stopped, an object has its bytes somewhere *)
(* unless its last record, or that of each of its sources, is a purge.      *)
BytesSurvive ==
  \A o \in Objects :
    rows[o].state # "absent" /\ files[o] = {} =>
      \/ PurgeLogged(o)
      \/ SourcesOf(o) # {} /\ \A s \in SourcesOf(o) : PurgeLogged(s)

(* A quarantined object can be restored: its own bytes and those of every      *)
(* derived object a restore would bring back are there.                     *)
QuarantinedIsRestorable ==
  Settled => \A o \in Targets : rows[o].state = "quarantined" => Restorable(o)

(* Once the last record of an object says it is deleted, no reader finds it:   *)
(* its row is not active and its bytes are not in objects/.                 *)
DeletedIsHidden ==
  Settled => \A o \in Logged :
    Latest(o).action # "restore" => rows[o].state # "active" /\ "active" \notin files[o]

(* An Open of an archive that is in line with its log changes nothing: in the   *)
(* middle of such a replay no row leaves its state and no file its place;    *)
(* all it may do is clear a file left in quarantine/ beside an active one.  *)
ReplayIsNeutral ==
  [][opening /\ ~stale => \A o \in Objects :
       /\ rows'[o].state = rows[o].state
       /\ \/ files'[o] = files[o]
          \/ rows[o].state = "active" /\ files[o] = Places /\ files'[o] = {"active"}]_vars

(* A purged object stays purged: no later action, capture or replay brings     *)
(* back its row.                                                            *)
PurgedStays == [][\A o \in Objects : rows[o].state = "purged" => rows'[o].state = "purged"]_vars

(* The last quarantine of o that was recorded, whatever came after it.         *)
LastQuarantine(o) ==
  LET n == CHOOSE n \in 1..Len(log) :
             /\ log[n].object = o /\ log[n].action = "quarantine"
             /\ \A k \in (n + 1)..Len(log) : ~(log[k].object = o /\ log[k].action = "quarantine")
  IN  log[n]

(* An object is purged only after thirty days in the quarantine it is in: when *)
(* a purge is appended, the last quarantine of the object is ripe, not one   *)
(* from before a restore; and it is the object's last record, unless what    *)
(* came after it was never applied.                                         *)
PurgedOnlyRipe ==
  [][\A n \in DOMAIN log' \ DOMAIN log :
       log'[n].action = "purge" =>
         LET o == log'[n].object IN
         /\ \E k \in DOMAIN log : log[k].object = o /\ log[k].action = "quarantine"
         /\ LastQuarantine(o).at = "ripe"
         /\ ~stale => Latest(o).action = "quarantine"]_vars
=============================================================================
