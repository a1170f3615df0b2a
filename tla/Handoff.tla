------------------------------ MODULE Handoff ------------------------------
(* The hand-off of originals from the archive host to the ingest host and of *)
(* receipts back (internal/archive/handoff.go, capturemap.go, pagelinks.go). *)
(* The hosts share the directories objects/, outbox/ and receipts/; only the  *)
(* archive host opens the registry. Every command is a process of its own     *)
(* that may be killed between two of its writes, and commands overlap.        *)
EXTENDS Integers, Sequences, FiniteSets, FiniteSetsExt, SequencesExt

CONSTANTS
  Captures,       \* 1..n, in the order they are recorded
  Objects,        \* contents
  Extensions,     \* file types
  ObjectOf,       \* the bytes of a capture
  NameOf,         \* the extension of its original name
  Verified,       \* captures that are acquired and verified
  HandoffTypes,   \* the sets of types `handoff --types` is run with
  AcceptTypes,    \* the types the ingest host picks up
  Pages,          \* wiki pages a digest may write
  Handers, Pickers, Writers,    \* overlapping commands
  MaxDigests, MaxDeletions, MaxStops,       \* bounds of the environment
  None

ASSUME CaptureAssumption ==
  /\ IsFiniteSet(Captures) /\ Captures = 1..Cardinality(Captures)
  /\ ObjectOf \in [Captures -> Objects]
  /\ NameOf \in [Captures -> Extensions]
  /\ Verified \subseteq Captures

ASSUME BoundsAssumption == {MaxDigests, MaxDeletions, MaxStops} \subseteq Nat

ASSUME TypesAssumption == HandoffTypes \subseteq SUBSET Extensions /\ AcceptTypes \subseteq Extensions

ASSUME NoneAssumption == None \notin Objects \cup Extensions \cup Pages \cup Pickers

VARIABLES
  recorded,   \* captures 1..recorded are in the registry
  active,     \* objects whose bytes are in objects/
  outbox,     \* capture -> extension of its manifest, or None
  handoffs,   \* the table of that name: [capture, ext], ordered by written_at, capture_id
  hander,     \* what each Handoff remembers
  copies,     \* <<object, extension>>: the files of the source directory
  map,        \* the capture map: file -> captures
  mapLock,    \* the Pickup that holds the flock on the source directory
  picker,     \* what each Pickup remembers
  ledger,     \* the ingest ledger: file -> entry, or None
  onPage,     \* captures the page of a file records
  receipts,   \* capture -> receipt files, the n-th under number n
  writer,     \* what each WriteReceipts remembers
  registry,   \* capture -> numbers of the receipts collected
  links,      \* page_links: capture -> page -> number of the basis receipt
  budget      \* what the environment may still do

archiveVars == <<recorded, active, outbox, handoffs, hander>>
pickupVars == <<copies, map, mapLock, picker>>
ingestVars == <<ledger, onPage>>
receiptVars == <<receipts, writer>>
collectVars == <<registry, links>>
vars == <<archiveVars, pickupVars, ingestVars, receiptVars, collectVars, budget>>

-----------------------------------------------------------------------------
(* Rows and files. *)

Files == Objects \X Extensions
SourcePath(c, ext) == <<ObjectOf[c], ext>>

\* An observation of the ledger; n tells two digests with the same result apart (digested_at).
Entry == [status : {"success", "failed"}, page : Pages \cup {None}, n : 1..MaxDigests]

IdleHander == [todo |-> {}, types |-> {}, ext |-> None, at |-> "idle"]
IdlePicker == [picked |-> {}, seen |-> None, at |-> "idle"]
IdleWriter == [about |-> None, entry |-> None]

HandedOff(c) == \E i \in DOMAIN handoffs : handoffs[i].capture = c

\* The manifests a reader finds.
Manifests == {c \in Captures : outbox[c] # None}

\* A capture that is acquired and verified is handed off under a type that is asked for.
heldReason(c, ext, types) == c \notin Verified \/ ext \notin types

\* readManifests refuses an outbox with two extensions for one object.
OutboxAgrees == \A c, d \in Manifests : ObjectOf[c] = ObjectOf[d] => outbox[c] = outbox[d]

-----------------------------------------------------------------------------
(* Archive host. *)

Init ==
  /\ recorded = 0
  /\ active = Objects
  /\ outbox = [c \in Captures |-> None]
  /\ handoffs = <<>>
  /\ hander = [h \in Handers |-> IdleHander]
  /\ copies = {}
  /\ map = [f \in Files |-> {}]
  /\ mapLock = None
  /\ picker = [p \in Pickers |-> IdlePicker]
  /\ ledger = [f \in Files |-> None]
  /\ onPage = [f \in Files |-> {}]
  /\ receipts = [c \in Captures |-> <<>>]
  /\ writer = [w \in Writers |-> IdleWriter]
  /\ registry = [c \in Captures |-> {}]
  /\ links = [c \in Captures |-> [page \in Pages |-> 0]]
  /\ budget = [digests |-> MaxDigests, deletions |-> MaxDeletions, stops |-> MaxStops]

\* Handoff holds the archive's lock shared, deletion actions exclusively.
NobodyShares == \A h \in Handers : hander[h].at = "idle"

\* A capture is committed. Bytes of a deleted object are refused.
RecordCapture ==
  /\ recorded + 1 \in Captures
  /\ ObjectOf[recorded + 1] \in active
  /\ recorded' = recorded + 1
  /\ UNCHANGED <<active, outbox, handoffs, hander, pickupVars, ingestVars, receiptVars, collectVars, budget>>

\* Quarantine moves the bytes away and removes the manifests of the object's captures.
Quarantine(o) ==
  /\ budget.deletions > 0
  /\ NobodyShares
  /\ o \in active
  /\ \E c \in 1..recorded : ObjectOf[c] = o
  /\ active' = active \ {o}
  /\ outbox' = [c \in Captures |-> IF ObjectOf[c] = o THEN None ELSE outbox[c]]
  /\ budget' = [budget EXCEPT !.deletions = @ - 1]
  /\ UNCHANGED <<recorded, handoffs, hander, pickupVars, ingestVars, receiptVars, collectVars>>

Unquarantine(o) ==
  /\ NobodyShares
  /\ o \notin active
  /\ active' = active \cup {o}
  /\ UNCHANGED <<recorded, outbox, handoffs, hander, pickupVars, ingestVars, receiptVars, collectVars, budget>>

\* The source captures whose bytes are active; those whose own name has a hand-off type go first,
\* and otherwise the order is that of recording.
Candidates == {c \in 1..recorded : ObjectOf[c] \in active}

Foremost(cands, types) ==
  LET named == {c \in cands : NameOf[c] \in types}
  IN  Min(IF named = {} THEN cands ELSE named)

BeginHandoff(h) ==
  /\ hander[h].at = "idle"
  /\ \E types \in HandoffTypes :
       /\ Candidates # {}
       /\ hander' = [hander EXCEPT ![h] = [todo |-> Candidates, types |-> types, ext |-> None, at |-> "look"]]
  /\ UNCHANGED <<recorded, active, outbox, handoffs, pickupVars, ingestVars, receiptVars, collectVars, budget>>

\* The extension of the object's first row, else that of the own name.
canonical(c) ==
  LET rows == {i \in DOMAIN handoffs : ObjectOf[handoffs[i].capture] = ObjectOf[c]}
  IN  IF rows = {} THEN NameOf[c] ELSE handoffs[Min(rows)].ext

\* The candidate the hander is at.
Current(h) == Foremost(hander[h].todo, hander[h].types)

\* The hander goes on with the next candidate.
NextCandidate(h) ==
  LET rest == hander[h].todo \ {Current(h)}
  IN  [hander EXCEPT ![h] = IF rest = {} THEN IdleHander
                            ELSE [hander[h] EXCEPT !.todo = rest, !.ext = None, !.at = "look"]]

\* One candidate: its extension is looked up, and it is held or goes on to the outbox.
LookUpExtension(h) ==
  /\ hander[h].at = "look"
  /\ LET c == Current(h)
         ext == canonical(c)
     IN  hander' = IF heldReason(c, ext, hander[h].types)
                   THEN NextCandidate(h)
                   ELSE [hander EXCEPT ![h].ext = ext, ![h].at = "write"]
  /\ UNCHANGED <<recorded, active, outbox, handoffs, pickupVars, ingestVars, receiptVars, collectVars, budget>>

\* A manifest is published where there is none; an identical one is kept.
writeOnce(c, ext) == outbox[c] \in {None, ext}

\* Another manifest ends the command with ErrConflict.
WriteManifest(h) ==
  /\ hander[h].at = "write"
  /\ LET c == Current(h)
         ext == hander[h].ext
     IN  IF writeOnce(c, ext)
         THEN /\ outbox' = [outbox EXCEPT ![c] = ext]
              /\ hander' = [hander EXCEPT ![h].at = "row"]
         ELSE /\ hander' = [hander EXCEPT ![h] = IdleHander]
              /\ UNCHANGED outbox
  /\ UNCHANGED <<recorded, active, handoffs, pickupVars, ingestVars, receiptVars, collectVars, budget>>

\* INSERT OR IGNORE INTO handoffs. The row may come before rows that are there already: now is taken
\* before the insert, times are compared as text without trailing zeros, and equal ones by capture.
RecordHandoff(h) ==
  /\ hander[h].at = "row"
  /\ LET c == Current(h)
     IN  IF HandedOff(c)
         THEN UNCHANGED handoffs
         ELSE \E place \in 1..(Len(handoffs) + 1) :
                handoffs' = InsertAt(handoffs, place, [capture |-> c, ext |-> hander[h].ext])
  /\ hander' = NextCandidate(h)
  /\ UNCHANGED <<recorded, active, outbox, pickupVars, ingestVars, receiptVars, collectVars, budget>>

-----------------------------------------------------------------------------
(* Ingest host. *)

BeginPickup(p) ==
  /\ picker[p].at = "idle"
  /\ OutboxAgrees
  /\ LET wanted == {c \in Manifests : outbox[c] \in AcceptTypes}
     IN  /\ wanted # {}
         /\ picker' = [picker EXCEPT ![p] = [picked |-> {<<c, outbox[c]>> : c \in wanted}, seen |-> None, at |-> "copy"]]
  /\ UNCHANGED <<archiveVars, copies, map, mapLock, ingestVars, receiptVars, collectVars, budget>>

\* A copy is there already.
verifyFile(m) == SourcePath(m[1], m[2]) \in copies

\* The bytes can be copied.
copyVerified(m) == ObjectOf[m[1]] \in active

Available(m) == verifyFile(m) \/ copyVerified(m)

\* The manifests are copied one by one; the first without bytes ends the command.
CopyObjects(p) ==
  /\ picker[p].at = "copy"
  /\ \E done \in SUBSET picker[p].picked :
       /\ \A m \in done : Available(m)
       /\ copies' = copies \cup {SourcePath(m[1], m[2]) : m \in done}
       /\ \/ /\ done = picker[p].picked
             /\ picker' = [picker EXCEPT ![p].at = "map"]
          \/ /\ \E m \in picker[p].picked \ done : ~Available(m)
             /\ picker' = [picker EXCEPT ![p] = IdlePicker]
  /\ UNCHANGED <<archiveVars, map, mapLock, ingestVars, receiptVars, collectVars, budget>>

\* updateCaptureMap, up to the rename: take the flock, then read the map.
ReadMap(p) ==
  /\ picker[p].at = "map"
  /\ mapLock = None
  /\ mapLock' = p
  /\ picker' = [picker EXCEPT ![p].seen = map, ![p].at = "rename"]
  /\ UNCHANGED <<archiveVars, copies, map, ingestVars, receiptVars, collectVars, budget>>

\* Capture ids only accumulate in the map read; the file is replaced and the flock released.
RenameMap(p) ==
  /\ picker[p].at = "rename"
  /\ map' = [f \in Files |-> picker[p].seen[f] \cup {m[1] : m \in {x \in picker[p].picked : SourcePath(x[1], x[2]) = f}}]
  /\ mapLock' = None
  /\ picker' = [picker EXCEPT ![p] = IdlePicker]
  /\ UNCHANGED <<archiveVars, copies, ingestVars, receiptVars, collectVars, budget>>

\* The captures of the bytes in a file.
CapturesForSource(f) == map[f]

\* Ingest digests a copy (again): its page records the captures the map names for these bytes.
Digest(f) ==
  /\ budget.digests > 0
  /\ f \in copies
  /\ \/ \E page \in Pages :
          /\ ledger' = [ledger EXCEPT ![f] = [status |-> "success", page |-> page, n |-> budget.digests]]
          /\ onPage' = [onPage EXCEPT ![f] = CapturesForSource(f)]
     \/ /\ ledger' = [ledger EXCEPT ![f] = [status |-> "failed", page |-> None, n |-> budget.digests]]
        /\ UNCHANGED onPage
  /\ budget' = [budget EXCEPT !.digests = @ - 1]
  /\ UNCHANGED <<archiveVars, pickupVars, receiptVars, collectVars>>

\* The last receipt of a capture says the same.
latestReceipt(c, entry) == receipts[c] # <<>> /\ Last(receipts[c]) = entry

\* WriteReceipts looks at one manifest: the ledger is asked for its copy; without a copy or a row
\* nothing is written.
Observe(w, c) ==
  /\ writer[w] = IdleWriter
  /\ OutboxAgrees
  /\ c \in Manifests
  /\ LET file == SourcePath(c, outbox[c])
     IN  /\ file \in copies
         /\ ledger[file] # None
         /\ writer' = [writer EXCEPT ![w] = [about |-> c, entry |-> ledger[file]]]
  /\ UNCHANGED <<archiveVars, pickupVars, ingestVars, receipts, collectVars, budget>>

\* A slip: what any receipt said before is not said again.
PutReceipt_Once(w) ==
  /\ writer[w] # IdleWriter
  /\ LET c == writer[w].about
         entry == writer[w].entry
     IN  receipts' = IF entry \in ToSet(receipts[c]) THEN receipts ELSE [receipts EXCEPT ![c] = Append(@, entry)]
  /\ writer' = [writer EXCEPT ![w] = IdleWriter]
  /\ UNCHANGED <<archiveVars, pickupVars, ingestVars, collectVars, budget>>

\* The receipt gets the next number unless the latest one says the same.
PutReceipt(w) ==
  /\ writer[w] # IdleWriter
  /\ LET c == writer[w].about
         entry == writer[w].entry
     IN  receipts' = IF latestReceipt(c, entry)
                     THEN receipts ELSE [receipts EXCEPT ![c] = Append(@, entry)]
  /\ writer' = [writer EXCEPT ![w] = IdleWriter]
  /\ UNCHANGED <<archiveVars, pickupVars, ingestVars, collectVars, budget>>

-----------------------------------------------------------------------------
(* Archive host: collection. *)

\* The first receipt, in the order of captures and numbers, that the registry does not have.
Uncollected == {c \in Captures : registry[c] # DOMAIN receipts[c]}

\* A slip: the basis is the receipt collected last.
linkReceipt_Latest(c, n) ==
  LET r == receipts[c][n]
  IN  IF r.status # "success" THEN links ELSE [links EXCEPT ![c][r.page] = n]

\* linkReceipt: a success with a page links; the basis is the linking receipt with the lowest number.
linkReceipt(c, n) ==
  LET r == receipts[c][n]
  IN  IF r.status # "success" THEN links
      ELSE [links EXCEPT ![c][r.page] = IF @ = 0 \/ n < @ THEN n ELSE @]

\* A receipt must be of a hand-off.
checkReceipt(c) == HandedOff(c)

\* The next receipt with its link, in one transaction. A receipt of a capture that was never handed
\* off ends the command.
CollectReceipt ==
  /\ Uncollected # {}
  /\ LET c == Min(Uncollected)
         n == Min(DOMAIN receipts[c] \ registry[c])
     IN  /\ checkReceipt(c)
         /\ registry' = [registry EXCEPT ![c] = @ \cup {n}]
         /\ links' = linkReceipt(c, n)
  /\ UNCHANGED <<archiveVars, pickupVars, ingestVars, receiptVars, budget>>

\* The collected receipt with the highest number.
latestObservation(c) == IF registry[c] = {} THEN None ELSE receipts[c][Max(registry[c])]

\* What a status view says of a capture.
ingestView(c) ==
  IF latestObservation(c) # None THEN "observed"
  ELSE IF HandedOff(c) THEN "awaiting_ingest"
  ELSE IF heldReason(c, NameOf[c], Extensions) THEN "held" ELSE "not_handed_off"

-----------------------------------------------------------------------------
(* A command is killed, or fails on a file that disappears or a name that is taken. *)

MayStop == budget.stops > 0 /\ budget' = [budget EXCEPT !.stops = @ - 1]

StopHandoff(h) ==
  /\ MayStop
  /\ hander[h].at # "idle"
  /\ hander' = [hander EXCEPT ![h] = IdleHander]
  /\ UNCHANGED <<recorded, active, outbox, handoffs, pickupVars, ingestVars, receiptVars, collectVars>>

\* The kernel releases the flock of a dead Pickup.
StopPickup(p) ==
  /\ MayStop
  /\ picker[p].at # "idle"
  /\ picker' = [picker EXCEPT ![p] = IdlePicker]
  /\ mapLock' = IF mapLock = p THEN None ELSE mapLock
  /\ UNCHANGED <<archiveVars, copies, map, ingestVars, receiptVars, collectVars>>

StopReceipts(w) ==
  /\ MayStop
  /\ writer[w] # IdleWriter
  /\ writer' = [writer EXCEPT ![w] = IdleWriter]
  /\ UNCHANGED <<archiveVars, pickupVars, ingestVars, receipts, collectVars>>

HandoffStep(h) == BeginHandoff(h) \/ LookUpExtension(h) \/ WriteManifest(h) \/ RecordHandoff(h)
PickupStep(p) == BeginPickup(p) \/ CopyObjects(p) \/ ReadMap(p) \/ RenameMap(p)
ReceiptStep(w) == PutReceipt(w) \/ \E c \in Captures : Observe(w, c)

Next ==
  \/ RecordCapture
  \/ \E o \in Objects : Quarantine(o) \/ Unquarantine(o)
  \/ \E h \in Handers : HandoffStep(h) \/ StopHandoff(h)
  \/ \E p \in Pickers : PickupStep(p) \/ StopPickup(p)
  \/ \E f \in Files : Digest(f)
  \/ \E w \in Writers : ReceiptStep(w) \/ StopReceipts(w)
  \/ CollectReceipt

Spec == Init /\ [][Next]_vars

\* The operator's schedule runs the four commands again and again; a run of WriteReceipts looks at
\* every manifest.
Fairness ==
  /\ \A h \in Handers : WF_vars(HandoffStep(h))
  /\ \A p \in Pickers : WF_vars(PickupStep(p))
  /\ \A w \in Writers : WF_vars(PutReceipt(w)) /\ \A c \in Captures : SF_vars(Observe(w, c))
  /\ WF_vars(CollectReceipt)

FairSpec == Spec /\ Fairness

-----------------------------------------------------------------------------
(* Properties. *)

(* One object has one source path on the ingest host, whatever its captures  *)
(* are called, so identical bytes get one ledger key and one page            *)
(* (HandoffResult.Extension, SourcePath).                                    *)
OneSourcePath == \A f, g \in copies : f[1] = g[1] => f = g

(* The manifests of one object agree, so that no reader refuses the outbox   *)
(* (Handoff: the first capture handed off fixes the extension).              *)
OneExtension == OutboxAgrees

(* A link's basis is the collected receipt with the lowest number that saw    *)
(* the capture's bytes on that page, and every collected success has its link *)
(* (linkReceipt).                                                            *)
LinksHaveTheirBasis ==
  \A c \in Captures, page \in Pages :
    LET seen == {n \in registry[c] : receipts[c][n].status = "success" /\ receipts[c][n].page = page}
    IN  links[c][page] = IF seen = {} THEN 0 ELSE Min(seen)

(* Re-digesting a page never loses a capture it recorded: overlapping Pickups *)
(* do not take each other's entries out of the capture map                   *)
(* (updateCaptureMap).                                                       *)
PagesKeepCaptures == [][\A f \in Files : onPage[f] \subseteq onPage'[f]]_vars

\* A capture went all the way: copied, in the map, and what the archive shows is the ledger's entry.
Delivered(c) ==
  /\ outbox[c] \in Extensions
  /\ LET file == SourcePath(c, outbox[c])
     IN  /\ file \in copies
         /\ c \in map[file]
         /\ ledger[file] = None => ingestView(c) = "awaiting_ingest"
         /\ ledger[file] # None =>
              /\ ingestView(c) = "observed"
              /\ latestObservation(c) = ledger[file]
              /\ ledger[file].status = "success" => links[c][ledger[file].page] # 0

Eligible(c) == \E types \in HandoffTypes : ~heldReason(c, canonical(c), types)

(* Once nothing changes any more, every eligible capture is copied, mapped,    *)
(* and shown as the ledger has it, although commands overlap, are killed      *)
(* half-way, and meet objects that are quarantined (Handoff, Pickup,          *)
(* WriteReceipts, CollectReceipts).                                          *)
EverythingIsDelivered ==
  <>[](\A c \in 1..recorded : Eligible(c) /\ ObjectOf[c] \in active => Delivered(c))

(* The number of a receipt is the order of observation: a later receipt is    *)
(* never of an earlier digest (receiptSeq). Digests count down.               *)
ReceiptsInOrder ==
  \A c \in Captures : \A m, n \in DOMAIN receipts[c] : m < n => receipts[c][m].n >= receipts[c][n].n
=============================================================================
