---------------------------- MODULE HandoffProofs ----------------------------
(****************************************************************************)
(* Theorems about Handoff for any number of captures, commands and types,   *)
(* and all bounds: links, the capture map, and the extension of an object.  *)
(****************************************************************************)
EXTENDS Handoff, SequenceTheorems, FiniteSetTheorems, WellFoundedInduction, TLAPS

(* An entry of the ledger that is a success names a page.                     *)
Entries == {e \in Entry : e.status = "success" => e.page \in Pages}

Hander == [todo : SUBSET Captures, types : SUBSET Extensions, ext : Extensions \cup {None},
           at : {"idle", "look", "write", "row"}]
Picker == [picked : SUBSET (Captures \X Extensions), seen : [Files -> SUBSET Captures] \cup {None},
           at : {"idle", "copy", "map", "rename"}]
Writer == [about : Captures, entry : Entries] \cup {IdleWriter}
Row    == [capture : Captures, ext : Extensions]

(* What a Handoff on its way holds.                                           *)
Sane(x) ==
  /\ x.at # "idle" => x.todo # {} /\ x.types \in HandoffTypes
  /\ x.at \in {"write", "row"} => x.ext \in Extensions

Budgets == [digests : 0 .. MaxDigests, deletions : 0 .. MaxDeletions, stops : 0 .. MaxStops]

ArchiveInv ==
  /\ recorded \in 0 .. Cardinality(Captures)
  /\ active \subseteq Objects
  /\ outbox \in [Captures -> Extensions \cup {None}]
  /\ handoffs \in Seq(Row)
  /\ hander \in [Handers -> Hander]
  /\ \A h \in Handers : Sane(hander[h])

(* Who is about to rename the map holds the flock and read the map as it is.  *)
PickupInv ==
  /\ copies \subseteq Files
  /\ map \in [Files -> SUBSET Captures]
  /\ mapLock \in Pickers \cup {None}
  /\ picker \in [Pickers -> Picker]
  /\ \A p \in Pickers : picker[p].at = "rename" => mapLock = p /\ picker[p].seen = map

IngestInv ==
  /\ ledger \in [Files -> Entries \cup {None}]
  /\ onPage \in [Files -> SUBSET Captures]
  /\ \A f \in Files : onPage[f] \subseteq map[f]
  /\ budget \in Budgets

(* The numbers of the receipts among reg that saw a page, and the one a link  *)
(* rests on.                                                                  *)
Seen(reg, recs, page) == {n \in reg : recs[n].status = "success" /\ recs[n].page = page}
Basis(seen) == IF seen = {} THEN 0 ELSE Min(seen)

(* What is collected is there, and the links tell what is collected.          *)
ReceiptInv ==
  /\ receipts \in [Captures -> Seq(Entries)]
  /\ writer \in [Writers -> Writer]
  /\ registry \in [Captures -> SUBSET Nat]
  /\ \A c \in Captures : registry[c] \subseteq DOMAIN receipts[c]
  /\ links \in [Captures -> [Pages -> Nat]]
  /\ LinksHaveTheirBasis

HandoffInv == ArchiveInv /\ PickupInv /\ IngestInv /\ ReceiptInv

-----------------------------------------------------------------------------
(* Extensions. When all hand-offs are run with the same types, the extension  *)
(* of an object is that of its first capture that is eligible by its own name.*)

Eligibles(o, types) == {c \in Verified : ObjectOf[c] = o /\ NameOf[c] \in types}

Fixed(o, ext, types) == Eligibles(o, types) # {} /\ ext = NameOf[Min(Eligibles(o, types))]

Among(rows, c) == \E i \in DOMAIN rows : rows[i].capture = c

(* What a Handoff is about to write is the extension that is fixed.           *)
Settled(x, types) ==
  x.at \in {"write", "row"} => Fixed(ObjectOf[Foremost(x.todo, x.types)], x.ext, types)

(* It leaves no eligible capture of an object behind that is not handed off,  *)
(* and so comes to the one that fixes the extension first.                    *)
NoneLeftBehind(x, rows, types) ==
  x.at # "idle" => \A d \in x.todo : \A c \in Eligibles(ObjectOf[d], types) :
    c < d => c \in x.todo \/ Among(rows, c)

ExtensionInv(types) ==
  /\ \A c \in Captures : outbox[c] # None => Fixed(ObjectOf[c], outbox[c], types)
  /\ \A i \in DOMAIN handoffs : Fixed(ObjectOf[handoffs[i].capture], handoffs[i].ext, types)
  /\ \A h \in Handers : Settled(hander[h], types) /\ NoneLeftBehind(hander[h], handoffs, types)

(* So do the manifests a pickup read, and the copies it made.                 *)
CopyInv(types) ==
  /\ \A p \in Pickers : \A m \in picker[p].picked : Fixed(ObjectOf[m[1]], m[2], types)
  /\ \A f \in copies : Fixed(f[1], f[2], types)

-----------------------------------------------------------------------------
(* Helpers.                                                                   *)

LEMMA LeastOf ==
  ASSUME NEW S \in SUBSET Nat, S # {}
  PROVE  Min(S) \in S /\ \A y \in S : Min(S) <= y
<1> DEFINE R == OpToRel(<, Nat)
<1> HIDE DEF R
<1>1. IsWellFoundedOn(R, Nat)  BY NatLessThanWellFounded DEF R
<1>2. PICK x \in S : \A y \in S : ~(<<y, x>> \in R)  BY <1>1, WFMin
<1>3. \A y \in S : ~(y < x)  BY <1>2 DEF R, OpToRel
<1>4. \A y \in S : x =< y  BY <1>3
<1>5. QED BY <1>4 DEF Min

LEMMA Numbered ==
  /\ Captures \subseteq Nat \ {0} /\ Cardinality(Captures) \in Nat
  /\ Captures = 1 .. Cardinality(Captures)
<1>1. IsFiniteSet(Captures) /\ Captures = 1 .. Cardinality(Captures)  BY CaptureAssumption
<1>2. Cardinality(Captures) \in Nat  BY <1>1, FS_CardinalityType
<1>3. QED BY <1>1, <1>2

LEMMA ForemostIsCandidate ==
  ASSUME NEW cands \in SUBSET Captures, cands # {}, NEW types
  PROVE  /\ Foremost(cands, types) \in cands
         /\ \A c \in cands : NameOf[c] \in types => Foremost(cands, types) <= c
<1> DEFINE named == {c \in cands : NameOf[c] \in types}
<1>1. cands \subseteq Nat /\ named \subseteq Nat  BY Numbered
<1>2. CASE named = {}
  <2>1. Foremost(cands, types) = Min(cands)  BY <1>2 DEF Foremost
  <2>2. QED BY <1>1, <1>2, <2>1, LeastOf
<1>3. CASE named # {}
  <2>1. Foremost(cands, types) = Min(named)  BY <1>3 DEF Foremost
  <2>2. QED BY <1>1, <1>3, <2>1, LeastOf
<1>4. QED BY <1>2, <1>3

LEMMA Constants ==
  /\ IdleHander \in Hander /\ IdlePicker \in Picker /\ IdleWriter \in Writer
  /\ MaxDigests \in Nat /\ MaxDeletions \in Nat /\ MaxStops \in Nat
  /\ None \notin Pickers /\ None \notin Extensions
BY BoundsAssumption, NoneAssumption DEF IdleHander, Hander, IdlePicker, Picker, IdleWriter, Writer

LEMMA PathIsFile ==
  ASSUME NEW c \in Captures, NEW ext \in Extensions
  PROVE  SourcePath(c, ext) \in Files /\ SourcePath(c, ext)[1] = ObjectOf[c]
         /\ SourcePath(c, ext)[2] = ext
BY CaptureAssumption DEF SourcePath, Files

LEMMA InitHandoff == ASSUME Init PROVE HandoffInv
<1>1. /\ recorded = 0 /\ active = Objects /\ outbox = [c \in Captures |-> None]
      /\ handoffs = <<>> /\ hander = [h \in Handers |-> IdleHander]
      /\ copies = {} /\ map = [f \in Files |-> {}] /\ mapLock = None
      /\ picker = [p \in Pickers |-> IdlePicker]
      /\ ledger = [f \in Files |-> None] /\ onPage = [f \in Files |-> {}]
      /\ receipts = [c \in Captures |-> <<>>] /\ writer = [w \in Writers |-> IdleWriter]
      /\ registry = [c \in Captures |-> {}] /\ links = [c \in Captures |-> [page \in Pages |-> 0]]
      /\ budget = [digests |-> MaxDigests, deletions |-> MaxDeletions, stops |-> MaxStops]
  BY DEF Init
<1>2. ArchiveInv
  <2>1. \A h \in Handers : hander[h].at = "idle"  BY <1>1 DEF IdleHander
  <2>2. recorded \in 0 .. Cardinality(Captures)  BY <1>1, Numbered
  <2>3. handoffs \in Seq(Row)  BY <1>1
  <2>4. QED BY <1>1, <2>1, <2>2, <2>3, Constants DEF ArchiveInv, Sane
<1>3. PickupInv
  <2>1. \A p \in Pickers : picker[p].at = "idle"  BY <1>1 DEF IdlePicker
  <2>2. QED BY <1>1, <2>1, Constants DEF PickupInv
<1>4. IngestInv
  BY <1>1, Constants DEF IngestInv, Budgets
<1>5. ReceiptInv
  <2>1. \A c \in Captures : receipts[c] \in Seq(Entries) /\ registry[c] = {}  BY <1>1
  <2>2. LinksHaveTheirBasis  BY <1>1 DEF LinksHaveTheirBasis
  <2>3. QED BY <1>1, <2>1, <2>2, Constants DEF ReceiptInv
<1>6. QED BY <1>2, <1>3, <1>4, <1>5 DEF HandoffInv

(* What no step touches stays.                                                *)
LEMMA ArchiveStays == ASSUME ArchiveInv, UNCHANGED archiveVars PROVE ArchiveInv'
BY DEF ArchiveInv, archiveVars

LEMMA PickupStays == ASSUME PickupInv, UNCHANGED pickupVars PROVE PickupInv'
BY DEF PickupInv, pickupVars

LEMMA IngestStays ==
  ASSUME IngestInv, UNCHANGED <<ingestVars, map>>, budget' \in Budgets
  PROVE  IngestInv'
BY DEF IngestInv, ingestVars

LEMMA BasisByCapture ==
  LinksHaveTheirBasis <=>
    \A c \in Captures, page \in Pages : links[c][page] = Basis(Seen(registry[c], receipts[c], page))
BY DEF LinksHaveTheirBasis, Basis, Seen

LEMMA ReceiptsStay == ASSUME ReceiptInv, UNCHANGED <<receiptVars, collectVars>> PROVE ReceiptInv'
<1>1. UNCHANGED <<receipts, writer, registry, links>>  BY DEF receiptVars, collectVars
<1>2. \A c \in Captures, page \in Pages : links'[c][page] = Basis(Seen(registry'[c], receipts'[c], page))
  BY <1>1, BasisByCapture DEF ReceiptInv
<1>3. LinksHaveTheirBasis'  BY <1>2 DEF LinksHaveTheirBasis, Basis, Seen
<1>4. QED BY <1>1, <1>3 DEF ReceiptInv

-----------------------------------------------------------------------------
(* The archive host hands off.                                                *)

LEMMA OnlyArchive ==
  ASSUME HandoffInv, ArchiveInv', budget' \in Budgets,
         UNCHANGED <<pickupVars, ingestVars, receiptVars, collectVars>>
  PROVE  HandoffInv'
<1>1. PickupInv'  BY PickupStays DEF HandoffInv
<1>2. IngestInv'  BY IngestStays DEF HandoffInv, pickupVars
<1>3. ReceiptInv'  BY ReceiptsStay DEF HandoffInv
<1>4. QED BY <1>1, <1>2, <1>3 DEF HandoffInv

LEMMA Spending ==
  ASSUME HandoffInv
  PROVE  /\ UNCHANGED budget => budget' \in Budgets
         /\ MayStop => budget' \in Budgets
         /\ budget.deletions > 0 /\ budget' = [budget EXCEPT !.deletions = @ - 1] => budget' \in Budgets
         /\ budget.digests > 0 /\ budget' = [budget EXCEPT !.digests = @ - 1] => budget' \in Budgets
<1>1. budget \in Budgets  BY DEF HandoffInv, IngestInv
<1>2. /\ budget.digests \in 0 .. MaxDigests /\ budget.deletions \in 0 .. MaxDeletions
      /\ budget.stops \in 0 .. MaxStops
  BY <1>1 DEF Budgets
<1>3. /\ budget.digests > 0 => budget.digests - 1 \in 0 .. MaxDigests
      /\ budget.deletions > 0 => budget.deletions - 1 \in 0 .. MaxDeletions
      /\ budget.stops > 0 => budget.stops - 1 \in 0 .. MaxStops
  BY <1>2, Constants
<1>4. MayStop => budget' \in Budgets  BY <1>1, <1>3 DEF MayStop, Budgets
<1>5. QED BY <1>1, <1>3, <1>4 DEF Budgets

LEMMA HanderIs ==
  ASSUME HandoffInv, NEW h \in Handers
  PROVE  /\ hander \in [Handers -> Hander] /\ hander[h] \in Hander /\ Sane(hander[h])
         /\ hander[h].todo \in SUBSET Captures
         /\ hander[h].at # "idle" => Current(h) \in hander[h].todo /\ Current(h) \in Captures
<1>1. hander \in [Handers -> Hander] /\ hander[h] \in Hander /\ Sane(hander[h])
  BY DEF HandoffInv, ArchiveInv
<1>2. hander[h].todo \in SUBSET Captures  BY <1>1 DEF Hander
<1>3. QED BY <1>1, <1>2, ForemostIsCandidate DEF Current, Sane

LEMMA HanderMoves ==
  ASSUME HandoffInv, NEW h \in Handers, NEW x \in Hander, Sane(x),
         hander' = [hander EXCEPT ![h] = x]
  PROVE  hander' \in [Handers -> Hander] /\ \A g \in Handers : Sane(hander'[g])
BY DEF HandoffInv, ArchiveInv

LEMMA IdleIsSane == Sane(IdleHander)
BY DEF Sane, IdleHander

(* Where the hander goes from a candidate.                                    *)
Follows(x, h) ==
  \/ x = IdleHander
  \/ /\ x.at = "look" /\ x.types = hander[h].types
     /\ x.todo = hander[h].todo \ {Current(h)}

LEMMA NextIs ==
  ASSUME HandoffInv, NEW h \in Handers, hander[h].at # "idle"
  PROVE  \E x \in Hander : Sane(x) /\ Follows(x, h) /\ NextCandidate(h) = [hander EXCEPT ![h] = x]
<1>1. PICK rest : rest = hander[h].todo \ {Current(h)}  OBVIOUS
<1>2. CASE rest = {}
  <2>1. NextCandidate(h) = [hander EXCEPT ![h] = IdleHander]
    BY <1>1, <1>2 DEF NextCandidate
  <2>2. QED BY <2>1, Constants, IdleIsSane DEF Follows
<1>3. CASE rest # {}
  <2>1. PICK x : x = [hander[h] EXCEPT !.todo = rest, !.ext = None, !.at = "look"]  OBVIOUS
  <2>2. NextCandidate(h) = [hander EXCEPT ![h] = x]  BY <1>1, <1>3, <2>1 DEF NextCandidate
  <2>3. x \in Hander /\ x.at = "look" /\ x.types = hander[h].types /\ x.todo = rest
    BY <1>1, <2>1, HanderIs DEF Hander
  <2>4. Sane(x)  BY <1>3, <2>3, HanderIs DEF Sane
  <2>5. QED BY <1>1, <2>2, <2>3, <2>4 DEF Follows
<1>4. QED BY <1>2, <1>3

LEMMA RecordKeeps == ASSUME HandoffInv, RecordCapture PROVE HandoffInv'
<1>1. /\ recorded' \in 0 .. Cardinality(Captures)
      /\ UNCHANGED <<active, outbox, handoffs, hander, budget>>
  BY Numbered DEF RecordCapture, HandoffInv, ArchiveInv
<1>2. ArchiveInv'  BY <1>1 DEF HandoffInv, ArchiveInv
<1>3. QED BY <1>1, <1>2, OnlyArchive, Spending DEF RecordCapture

LEMMA QuarantineKeeps ==
  ASSUME HandoffInv, NEW o \in Objects, Quarantine(o) \/ Unquarantine(o) PROVE HandoffInv'
<1>1. outbox \in [Captures -> Extensions \cup {None}] /\ active \subseteq Objects
  BY DEF HandoffInv, ArchiveInv
<1>2. /\ active' \subseteq Objects /\ outbox' \in [Captures -> Extensions \cup {None}]
      /\ UNCHANGED <<recorded, handoffs, hander>>
  BY <1>1 DEF Quarantine, Unquarantine
<1>3. ArchiveInv'  BY <1>2 DEF HandoffInv, ArchiveInv
<1>4. budget' \in Budgets  BY Spending DEF Quarantine, Unquarantine
<1>5. QED BY <1>3, <1>4, OnlyArchive DEF Quarantine, Unquarantine

LEMMA BeginIs ==
  ASSUME HandoffInv, NEW h \in Handers, BeginHandoff(h)
  PROVE  \E x \in Hander : /\ Sane(x) /\ hander' = [hander EXCEPT ![h] = x]
                           /\ x.at = "look" /\ x.todo = Candidates /\ x.types \in HandoffTypes
<1>1. PICK types \in HandoffTypes :
        /\ Candidates # {}
        /\ hander' = [hander EXCEPT ![h] = [todo |-> Candidates, types |-> types, ext |-> None, at |-> "look"]]
  BY DEF BeginHandoff
<1>2. Candidates \subseteq Captures
  <2>1. recorded \in 0 .. Cardinality(Captures)  BY DEF HandoffInv, ArchiveInv
  <2>2. 1 .. recorded \subseteq Captures  BY <2>1, Numbered
  <2>3. QED BY <2>2 DEF Candidates
<1>3. PICK x : x = [todo |-> Candidates, types |-> types, ext |-> None, at |-> "look"]  OBVIOUS
<1>4. types \subseteq Extensions  BY TypesAssumption
<1>5. x \in Hander  BY <1>2, <1>3, <1>4 DEF Hander
<1>6. Sane(x)  BY <1>1, <1>3 DEF Sane
<1>7. QED BY <1>1, <1>3, <1>5, <1>6

LEMMA canonicalIsExtension ==
  ASSUME HandoffInv, NEW c \in Captures
  PROVE  canonical(c) \in Extensions
<1> DEFINE rows == {i \in DOMAIN handoffs : ObjectOf[handoffs[i].capture] = ObjectOf[c]}
<1>1. handoffs \in Seq(Row)  BY DEF HandoffInv, ArchiveInv
<1>2. CASE rows = {}
  <2>1. canonical(c) = NameOf[c]  BY <1>2 DEF canonical
  <2>2. QED BY <2>1, CaptureAssumption
<1>3. CASE rows # {}
  <2>1. canonical(c) = handoffs[Min(rows)].ext  BY <1>3 DEF canonical
  <2>2. rows \in SUBSET Nat  BY <1>1
  <2>3. Min(rows) \in DOMAIN handoffs  BY <1>3, <2>2, LeastOf
  <2>4. handoffs[Min(rows)] \in Row  BY <1>1, <2>3
  <2>5. QED BY <2>1, <2>4 DEF Row
<1>4. QED BY <1>2, <1>3

(* A candidate is held, or its extension is taken down.                       *)
LEMMA LookUpIs ==
  ASSUME HandoffInv, NEW h \in Handers, LookUpExtension(h)
  PROVE  \E x \in Hander :
           /\ Sane(x) /\ hander' = [hander EXCEPT ![h] = x]
           /\ \/ /\ heldReason(Current(h), canonical(Current(h)), hander[h].types)
                 /\ Follows(x, h)
              \/ /\ ~heldReason(Current(h), canonical(Current(h)), hander[h].types)
                 /\ x.at = "write" /\ x.types = hander[h].types /\ x.todo = hander[h].todo
                 /\ x.ext = canonical(Current(h))
<1>1. hander[h].at = "look" /\ Current(h) \in Captures  BY HanderIs DEF LookUpExtension
<1>2. PICK ext \in Extensions : ext = canonical(Current(h))  BY <1>1, canonicalIsExtension
<1>3. CASE heldReason(Current(h), ext, hander[h].types)
  <2>1. hander' = NextCandidate(h)  BY <1>2, <1>3 DEF LookUpExtension
  <2>2. QED BY <1>1, <1>2, <1>3, <2>1, NextIs
<1>4. CASE ~heldReason(Current(h), ext, hander[h].types)
  <2>1. hander' = [hander EXCEPT ![h].ext = ext, ![h].at = "write"]
    BY <1>2, <1>4 DEF LookUpExtension
  <2>2. PICK x : x = [hander[h] EXCEPT !.ext = ext, !.at = "write"]  OBVIOUS
  <2>3. hander' = [hander EXCEPT ![h] = x]  BY <2>1, <2>2, HanderIs
  <2>4. /\ x \in Hander /\ x.at = "write" /\ x.types = hander[h].types
        /\ x.todo = hander[h].todo /\ x.ext = ext
    BY <2>2, HanderIs DEF Hander
  <2>5. Sane(x)  BY <1>1, <2>4, HanderIs DEF Sane
  <2>6. QED BY <1>2, <1>4, <2>3, <2>4, <2>5
<1>5. QED BY <1>3, <1>4

LEMMA WriteIs ==
  ASSUME HandoffInv, NEW h \in Handers, WriteManifest(h)
  PROVE  \E x \in Hander :
           /\ Sane(x) /\ hander' = [hander EXCEPT ![h] = x]
           /\ \/ /\ x.at = "row" /\ x.types = hander[h].types /\ x.todo = hander[h].todo
                 /\ x.ext = hander[h].ext
                 /\ outbox' = [outbox EXCEPT ![Current(h)] = hander[h].ext]
              \/ x = IdleHander /\ outbox' = outbox
<1>1. hander[h].at = "write" /\ hander[h].ext \in Extensions  BY HanderIs DEF WriteManifest, Sane
<1>2. CASE writeOnce(Current(h), hander[h].ext)
  <2>1. PICK x : x = [hander[h] EXCEPT !.at = "row"]  OBVIOUS
  <2>2. hander' = [hander EXCEPT ![h] = x] /\ outbox' = [outbox EXCEPT ![Current(h)] = hander[h].ext]
    BY <1>2, <2>1 DEF WriteManifest
  <2>3. /\ x \in Hander /\ x.at = "row" /\ x.types = hander[h].types
        /\ x.todo = hander[h].todo /\ x.ext = hander[h].ext
    BY <2>1, HanderIs DEF Hander
  <2>4. Sane(x)  BY <1>1, <2>3, HanderIs DEF Sane
  <2>5. QED BY <2>2, <2>3, <2>4
<1>3. CASE ~writeOnce(Current(h), hander[h].ext)
  <2>1. hander' = [hander EXCEPT ![h] = IdleHander] /\ outbox' = outbox
    BY <1>3 DEF WriteManifest
  <2>2. QED BY <2>1, Constants, IdleIsSane
<1>4. QED BY <1>2, <1>3

(* What a row inserted anywhere leaves of a sequence of rows.                 *)
Inserted(old, new, row) ==
  /\ new \in Seq(Row)
  /\ \A i \in DOMAIN new : new[i] = row \/ \E j \in DOMAIN old : new[i] = old[j]
  /\ \A j \in DOMAIN old : \E i \in DOMAIN new : new[i] = old[j]
  /\ \E i \in DOMAIN new : new[i] = row

LEMMA InsertIs ==
  ASSUME NEW old \in Seq(Row), NEW row \in Row, NEW place \in 1 .. (Len(old) + 1)
  PROVE  Inserted(old, InsertAt(old, place, row), row)
<1> DEFINE new == InsertAt(old, place, row)
<1>1. PICK len \in Nat : len = Len(old)  OBVIOUS
<1>2. place \in Nat /\ 1 <= place /\ place <= len + 1  BY <1>1
<1>3. PICK head : head = SubSeq(old, 1, place - 1)  OBVIOUS
<1>4. PICK tail : tail = SubSeq(old, place, len)  OBVIOUS
<1>5. /\ head \in Seq(Row) /\ Len(head) = place - 1
      /\ \A i \in 1 .. (place - 1) : head[i] = old[i]
  BY <1>1, <1>2, <1>3
<1>6. /\ tail \in Seq(Row) /\ Len(tail) = len + 1 - place
      /\ \A i \in 1 .. (len + 1 - place) : tail[i] = old[place + i - 1]
  BY <1>1, <1>2, <1>4
<1>7. new = (head \o <<row>>) \o tail
  <2>1. new = SubSeq(old, 1, place - 1) \o <<row>> \o SubSeq(old, place, Len(old))  BY DEF InsertAt
  <2>2. QED BY <1>1, <1>3, <1>4, <2>1, Zenon
<1>8. PICK front : front = head \o <<row>>  OBVIOUS
<1>9. /\ front \in Seq(Row) /\ Len(front) = place
      /\ \A i \in 1 .. (place - 1) : front[i] = old[i]
      /\ front[place] = row
  BY <1>2, <1>5, <1>8
<1>10. /\ new \in Seq(Row) /\ Len(new) = len + 1
       /\ \A i \in 1 .. place : new[i] = front[i]
       /\ \A i \in (place + 1) .. (len + 1) : new[i] = tail[i - place]
  <2>1. new = front \o tail  BY <1>7, <1>8
  <2>2. front \o tail \in Seq(Row) /\ Len(front \o tail) = Len(front) + Len(tail)
    BY <1>6, <1>9, ConcatProperties
  <2>3. /\ \A i \in 1 .. Len(front) : (front \o tail)[i] = front[i]
        /\ \A i \in (Len(front) + 1) .. (Len(front) + Len(tail)) : (front \o tail)[i] = tail[i - Len(front)]
    BY <1>6, <1>9
  <2>4. Len(front) = place /\ Len(front) + Len(tail) = len + 1  BY <1>2, <1>6, <1>9
  <2>5. QED BY <2>1, <2>2, <2>3, <2>4
<1>11. /\ \A i \in 1 .. (place - 1) : new[i] = old[i]
       /\ new[place] = row
  <2>1. new[place] = row
    <3>1. place \in 1 .. place  BY <1>2
    <3>2. new[place] = front[place]  BY <1>10, <3>1
    <3>3. QED BY <1>9, <3>2
  <2>2. ASSUME NEW i \in 1 .. (place - 1) PROVE new[i] = old[i]
    <3>1. i \in 1 .. place  BY <1>2
    <3>2. new[i] = front[i]  BY <1>10, <3>1
    <3>3. front[i] = old[i]  BY <1>9
    <3>4. QED BY <3>2, <3>3
  <2>3. QED BY <2>1, <2>2
<1>12. \A i \in (place + 1) .. (len + 1) : new[i] = old[i - 1] /\ i - 1 \in 1 .. len
  <2>1. TAKE i \in (place + 1) .. (len + 1)
  <2>2. i - place \in 1 .. (len + 1 - place) /\ place + (i - place) - 1 = i - 1  BY <1>2
  <2>3. new[i] = tail[i - place]  BY <1>10
  <2>4. QED BY <1>2, <1>6, <2>2, <2>3
<1>13. DOMAIN new = 1 .. (len + 1) /\ DOMAIN old = 1 .. len  BY <1>1, <1>10
<1>14. ASSUME NEW i \in 1 .. (len + 1) PROVE new[i] = row \/ \E j \in 1 .. len : new[i] = old[j]
  BY <1>2, <1>11, <1>12
<1>15. ASSUME NEW j \in 1 .. len PROVE \E i \in 1 .. (len + 1) : new[i] = old[j]
  <2>1. CASE j < place  BY <1>2, <1>11, <2>1
  <2>2. CASE j >= place
    <3>1. j + 1 \in (place + 1) .. (len + 1) /\ (j + 1) - 1 = j  BY <1>2, <2>2
    <3>2. new[j + 1] = old[j]  BY <1>12, <3>1
    <3>3. QED BY <3>2
  <2>3. QED BY <1>2, <2>1, <2>2
<1>16. place \in 1 .. (len + 1)  BY <1>2
<1>17. QED
  <2>1. \A i \in DOMAIN new : new[i] = row \/ \E j \in DOMAIN old : new[i] = old[j]  BY <1>13, <1>14
  <2>2. \A j \in DOMAIN old : \E i \in DOMAIN new : new[i] = old[j]  BY <1>13, <1>15
  <2>3. \E i \in DOMAIN new : new[i] = row  BY <1>11, <1>13, <1>16
  <2>4. QED BY <1>10, <2>1, <2>2, <2>3, Zenon DEF Inserted

LEMMA RecordIs ==
  ASSUME HandoffInv, NEW h \in Handers, RecordHandoff(h)
  PROVE  /\ \E x \in Hander : Sane(x) /\ Follows(x, h) /\ hander' = [hander EXCEPT ![h] = x]
         /\ Current(h) \in Captures
         /\ \/ handoffs' = handoffs /\ HandedOff(Current(h))
            \/ /\ [capture |-> Current(h), ext |-> hander[h].ext] \in Row
               /\ Inserted(handoffs, handoffs', [capture |-> Current(h), ext |-> hander[h].ext])
<1>1. hander[h].at = "row" /\ hander[h].ext \in Extensions /\ Current(h) \in Captures
  BY HanderIs DEF RecordHandoff, Sane
<1>2. hander' = NextCandidate(h)  BY DEF RecordHandoff
<1>3. \E x \in Hander : Sane(x) /\ Follows(x, h) /\ hander' = [hander EXCEPT ![h] = x]
  BY <1>1, <1>2, NextIs
<1>4. [capture |-> Current(h), ext |-> hander[h].ext] \in Row  BY <1>1 DEF Row
<1>5. \/ handoffs' = handoffs /\ HandedOff(Current(h))
      \/ Inserted(handoffs, handoffs', [capture |-> Current(h), ext |-> hander[h].ext])
  <2>1. PICK row : row = [capture |-> Current(h), ext |-> hander[h].ext]  OBVIOUS
  <2>2. \/ handoffs' = handoffs /\ HandedOff(Current(h))
        \/ \E place \in 1 .. (Len(handoffs) + 1) : handoffs' = InsertAt(handoffs, place, row)
    BY <2>1 DEF RecordHandoff
  <2>3. handoffs \in Seq(Row) /\ row \in Row  BY <1>4, <2>1 DEF HandoffInv, ArchiveInv
  <2>4. QED BY <2>1, <2>2, <2>3, InsertIs
<1>6. QED BY <1>1, <1>3, <1>4, <1>5

LEMMA HandoffKeeps ==
  ASSUME HandoffInv, NEW h \in Handers, HandoffStep(h) \/ StopHandoff(h) PROVE HandoffInv'
<1>1. /\ recorded \in 0 .. Cardinality(Captures) /\ active \subseteq Objects
      /\ outbox \in [Captures -> Extensions \cup {None}] /\ handoffs \in Seq(Row)
  BY DEF HandoffInv, ArchiveInv
<1>2. \E x \in Hander : Sane(x) /\ hander' = [hander EXCEPT ![h] = x]
  BY BeginIs, LookUpIs, WriteIs, RecordIs, IdleIsSane, Constants DEF HandoffStep, StopHandoff
<1>3. hander' \in [Handers -> Hander] /\ \A g \in Handers : Sane(hander'[g])
  BY <1>2, HanderMoves
<1>4. outbox' \in [Captures -> Extensions \cup {None}]
  <2>1. CASE WriteManifest(h)
    <3>1. hander[h].ext \in Extensions  BY <2>1, HanderIs DEF WriteManifest, Sane
    <3>2. outbox' = outbox \/ outbox' = [outbox EXCEPT ![Current(h)] = hander[h].ext]
      BY <2>1, WriteIs
    <3>3. QED BY <1>1, <3>1, <3>2
  <2>2. CASE outbox' = outbox  BY <1>1, <2>2
  <2>3. QED BY <2>1, <2>2 DEF HandoffStep, StopHandoff, BeginHandoff, LookUpExtension, RecordHandoff
<1>5. handoffs' \in Seq(Row)
  <2>1. CASE RecordHandoff(h)
    <3>1. PICK row : row = [capture |-> Current(h), ext |-> hander[h].ext]  OBVIOUS
    <3>2. handoffs' = handoffs \/ Inserted(handoffs, handoffs', row)
      BY <2>1, <3>1, RecordIs
    <3>3. QED BY <1>1, <3>2 DEF Inserted
  <2>2. CASE handoffs' = handoffs  BY <1>1, <2>2
  <2>3. QED BY <2>1, <2>2 DEF HandoffStep, StopHandoff, BeginHandoff, LookUpExtension, WriteManifest
<1>6. /\ UNCHANGED <<recorded, active, pickupVars, ingestVars, receiptVars, collectVars>>
      /\ UNCHANGED budget \/ MayStop
  BY DEF HandoffStep, StopHandoff, BeginHandoff, LookUpExtension, WriteManifest, RecordHandoff
<1>7. ArchiveInv'  BY <1>1, <1>3, <1>4, <1>5, <1>6 DEF ArchiveInv
<1>8. QED BY <1>6, <1>7, OnlyArchive, Spending

-----------------------------------------------------------------------------
(* The ingest host picks up and digests.                                      *)

(* A pickup that is not about to rename the map moves on, and copies may come.*)
LEMMA PickupMoves ==
  ASSUME HandoffInv, NEW p \in Pickers, NEW x \in Picker,
         picker' = [picker EXCEPT ![p] = x], copies' \subseteq Files, map' = map,
         \/ x.at # "rename" /\ mapLock' = mapLock /\ picker[p].at # "rename"
         \/ x.at = "rename" /\ x.seen = map /\ mapLock = None /\ mapLock' = p
         \/ x.at # "rename" /\ mapLock' = IF mapLock = p THEN None ELSE mapLock
  PROVE  PickupInv'
<1>1. /\ map \in [Files -> SUBSET Captures] /\ mapLock \in Pickers \cup {None}
      /\ picker \in [Pickers -> Picker]
      /\ \A q \in Pickers : picker[q].at = "rename" => mapLock = q /\ picker[q].seen = map
  BY DEF HandoffInv, PickupInv
<1>2. picker' \in [Pickers -> Picker] /\ mapLock' \in Pickers \cup {None}  BY <1>1
<1>3. ASSUME NEW q \in Pickers, picker'[q].at = "rename"
      PROVE  mapLock' = q /\ picker'[q].seen = map'
  <2>1. CASE q = p
    <3>1. picker'[q] = x  BY <1>1, <2>1
    <3>2. QED BY <1>3, <2>1, <3>1
  <2>2. CASE q # p
    <3>1. picker'[q] = picker[q]  BY <1>1, <2>2
    <3>2. mapLock = q /\ picker[q].seen = map  BY <1>1, <1>3, <3>1
    <3>3. q # None  BY Constants
    <3>4. QED BY <2>2, <3>1, <3>2, <3>3
  <2>3. QED BY <2>1, <2>2
<1>4. QED BY <1>1, <1>2, <1>3 DEF PickupInv

LEMMA OnlyPickup ==
  ASSUME HandoffInv, PickupInv', map' = map, budget' \in Budgets,
         UNCHANGED <<archiveVars, ingestVars, receiptVars, collectVars>>
  PROVE  HandoffInv'
<1>1. ArchiveInv'  BY ArchiveStays DEF HandoffInv
<1>2. IngestInv'  BY IngestStays DEF HandoffInv
<1>3. ReceiptInv'  BY ReceiptsStay DEF HandoffInv
<1>4. QED BY <1>1, <1>2, <1>3 DEF HandoffInv

LEMMA PickerIs ==
  ASSUME HandoffInv, NEW p \in Pickers
  PROVE  /\ picker \in [Pickers -> Picker] /\ picker[p] \in Picker /\ copies \subseteq Files
         /\ \A m \in picker[p].picked : m[1] \in Captures /\ m[2] \in Extensions
                                        /\ SourcePath(m[1], m[2]) \in Files
<1>1. picker \in [Pickers -> Picker] /\ picker[p] \in Picker /\ copies \subseteq Files
  BY DEF HandoffInv, PickupInv
<1>2. ASSUME NEW m \in picker[p].picked PROVE m[1] \in Captures /\ m[2] \in Extensions
  BY <1>1 DEF Picker
<1>3. QED BY <1>1, <1>2, PathIsFile

LEMMA BeginPickupKeeps ==
  ASSUME HandoffInv, NEW p \in Pickers, BeginPickup(p) PROVE HandoffInv'
<1> DEFINE wanted == {c \in Manifests : outbox[c] \in AcceptTypes}
<1>1. PICK taken : taken = {<<c, outbox[c]>> : c \in wanted}  OBVIOUS
<1>2. taken \in SUBSET (Captures \X Extensions)
  <2>1. \A c \in wanted : c \in Captures /\ outbox[c] \in Extensions
    BY TypesAssumption DEF Manifests
  <2>2. QED BY <1>1, <2>1
<1>3. PICK x : x = [picked |-> taken, seen |-> None, at |-> "copy"]  OBVIOUS
<1>4. picker' = [picker EXCEPT ![p] = x]  BY <1>1, <1>3 DEF BeginPickup
<1>5. x \in Picker /\ x.at = "copy"  BY <1>2, <1>3 DEF Picker
<1>6. UNCHANGED <<archiveVars, copies, map, mapLock, ingestVars, receiptVars, collectVars, budget>>
      /\ picker[p].at = "idle"
  BY DEF BeginPickup
<1>7. PickupInv'  BY <1>4, <1>5, <1>6, PickerIs, PickupMoves
<1>8. QED BY <1>6, <1>7, OnlyPickup, Spending

LEMMA CopyKeeps ==
  ASSUME HandoffInv, NEW p \in Pickers, CopyObjects(p) PROVE HandoffInv'
<1>1. UNCHANGED <<archiveVars, map, mapLock, ingestVars, receiptVars, collectVars, budget>>
      /\ picker[p].at = "copy"
  BY DEF CopyObjects
<1>2. PICK done \in SUBSET picker[p].picked :
        /\ copies' = copies \cup {SourcePath(m[1], m[2]) : m \in done}
        /\ \/ picker' = [picker EXCEPT ![p].at = "map"]
           \/ picker' = [picker EXCEPT ![p] = IdlePicker]
  BY DEF CopyObjects
<1>3. copies' \subseteq Files  BY <1>2, PickerIs
<1>4. PICK x : x = [picker[p] EXCEPT !.at = "map"]  OBVIOUS
<1>5. x \in Picker /\ x.at = "map"  BY <1>4, PickerIs DEF Picker
<1>6. IdlePicker.at # "rename"  BY DEF IdlePicker
<1>7. PickupInv'
  <2>1. CASE picker' = [picker EXCEPT ![p] = x]
    BY <1>1, <1>3, <1>5, <2>1, PickupMoves
  <2>2. CASE picker' = [picker EXCEPT ![p] = IdlePicker]
    BY <1>1, <1>3, <1>6, <2>2, Constants, PickupMoves
  <2>3. QED BY <1>2, <1>4, <2>1, <2>2
<1>8. QED BY <1>1, <1>7, OnlyPickup, Spending

LEMMA ReadMapKeeps ==
  ASSUME HandoffInv, NEW p \in Pickers, ReadMap(p) PROVE HandoffInv'
<1>1. /\ UNCHANGED <<archiveVars, copies, map, ingestVars, receiptVars, collectVars, budget>>
      /\ mapLock = None /\ mapLock' = p
      /\ picker' = [picker EXCEPT ![p].seen = map, ![p].at = "rename"]
  BY DEF ReadMap
<1>2. PICK x : x = [picker[p] EXCEPT !.seen = map, !.at = "rename"]  OBVIOUS
<1>3. picker' = [picker EXCEPT ![p] = x]  BY <1>1, <1>2, PickerIs
<1>4. map \in [Files -> SUBSET Captures]  BY DEF HandoffInv, PickupInv
<1>5. x \in Picker /\ x.at = "rename" /\ x.seen = map  BY <1>2, <1>4, PickerIs DEF Picker
<1>6. PickupInv'  BY <1>1, <1>3, <1>5, PickerIs, PickupMoves
<1>7. QED BY <1>1, <1>6, OnlyPickup, Spending

(* The map that is written holds all that the one it replaces held.           *)
LEMMA RenamedMap ==
  ASSUME HandoffInv, NEW p \in Pickers, RenameMap(p)
  PROVE  map' \in [Files -> SUBSET Captures] /\ \A f \in Files : map[f] \subseteq map'[f]
<1>1. picker[p].seen = map /\ map \in [Files -> SUBSET Captures]
  BY DEF RenameMap, HandoffInv, PickupInv
<1>2. ASSUME NEW f \in Files
      PROVE  {m[1] : m \in {x \in picker[p].picked : SourcePath(x[1], x[2]) = f}} \subseteq Captures
  BY PickerIs
<1>3. map' = [f \in Files |-> map[f] \cup
                {m[1] : m \in {x \in picker[p].picked : SourcePath(x[1], x[2]) = f}}]
  BY <1>1 DEF RenameMap
<1>4. QED BY <1>1, <1>2, <1>3

LEMMA RenameKeeps ==
  ASSUME HandoffInv, NEW p \in Pickers, RenameMap(p) PROVE HandoffInv'
<1>1. /\ UNCHANGED <<archiveVars, copies, ingestVars, receiptVars, collectVars, budget>>
      /\ mapLock' = None /\ picker' = [picker EXCEPT ![p] = IdlePicker] /\ picker[p].at = "rename"
  BY DEF RenameMap
<1>2. /\ picker \in [Pickers -> Picker] /\ copies \subseteq Files
      /\ \A q \in Pickers : picker[q].at = "rename" => mapLock = q
  BY DEF HandoffInv, PickupInv
<1>3. \A q \in Pickers : picker'[q].at # "rename"
  BY <1>1, <1>2 DEF IdlePicker
<1>4. PickupInv'  BY <1>1, <1>2, <1>3, RenamedMap, Constants DEF PickupInv
<1>5. UNCHANGED <<ledger, onPage>>  BY <1>1 DEF ingestVars
<1>6. \A f \in Files : onPage'[f] \subseteq map'[f]
  BY <1>5, RenamedMap DEF HandoffInv, IngestInv
<1>7. budget' \in Budgets  BY <1>1, Spending
<1>8. IngestInv'  BY <1>5, <1>6, <1>7 DEF HandoffInv, IngestInv
<1>9. ArchiveInv' /\ ReceiptInv'  BY <1>1, ArchiveStays, ReceiptsStay DEF HandoffInv
<1>10. QED BY <1>4, <1>8, <1>9 DEF HandoffInv

LEMMA StopPickupKeeps ==
  ASSUME HandoffInv, NEW p \in Pickers, StopPickup(p) PROVE HandoffInv'
<1>1. /\ UNCHANGED <<archiveVars, copies, map, ingestVars, receiptVars, collectVars>> /\ MayStop
      /\ mapLock' = IF mapLock = p THEN None ELSE mapLock
      /\ picker' = [picker EXCEPT ![p] = IdlePicker]
  BY DEF StopPickup
<1>2. IdlePicker.at # "rename"  BY DEF IdlePicker
<1>3. PickupInv'  BY <1>1, <1>2, PickerIs, Constants, PickupMoves
<1>4. QED BY <1>1, <1>3, OnlyPickup, Spending

LEMMA DigestKeeps ==
  ASSUME HandoffInv, NEW f \in Files, Digest(f) PROVE HandoffInv'
<1>1. /\ ledger \in [Files -> Entries \cup {None}] /\ onPage \in [Files -> SUBSET Captures]
      /\ map \in [Files -> SUBSET Captures] /\ \A g \in Files : onPage[g] \subseteq map[g]
      /\ budget \in Budgets
  BY DEF HandoffInv, IngestInv, PickupInv
<1>2. UNCHANGED <<archiveVars, pickupVars, receiptVars, collectVars>> /\ map' = map
      /\ budget.digests > 0 /\ budget' = [budget EXCEPT !.digests = @ - 1]
  BY DEF Digest, pickupVars
<1>3. PICK n \in 1 .. MaxDigests : n = budget.digests
  <2>1. budget.digests \in 0 .. MaxDigests  BY <1>1 DEF Budgets
  <2>2. QED BY <1>2, <2>1, Constants
<1>4. \E entry \in Entries : ledger' = [ledger EXCEPT ![f] = entry]
  <2>1. CASE \E page \in Pages : ledger' = [ledger EXCEPT ![f] =
                 [status |-> "success", page |-> page, n |-> budget.digests]]
    <3>1. PICK page \in Pages : ledger' = [ledger EXCEPT ![f] =
                 [status |-> "success", page |-> page, n |-> n]]
      BY <1>3, <2>1
    <3>2. [status |-> "success", page |-> page, n |-> n] \in Entries  BY DEF Entries, Entry
    <3>3. QED BY <3>1, <3>2
  <2>2. CASE ledger' = [ledger EXCEPT ![f] =
                 [status |-> "failed", page |-> None, n |-> budget.digests]]
    <3>1. [status |-> "failed", page |-> None, n |-> n] \in Entries  BY DEF Entries, Entry
    <3>2. QED BY <1>3, <2>2, <3>1
  <2>3. QED BY <2>1, <2>2 DEF Digest
<1>5. ledger' \in [Files -> Entries \cup {None}]  BY <1>1, <1>4
<1>6. onPage' = onPage \/ onPage' = [onPage EXCEPT ![f] = map[f]]
  BY DEF Digest, CapturesForSource
<1>7. onPage' \in [Files -> SUBSET Captures] /\ \A g \in Files : onPage'[g] \subseteq map'[g]
  BY <1>1, <1>2, <1>6
<1>8. budget' \in Budgets  BY <1>2, Spending
<1>9. IngestInv'  BY <1>5, <1>7, <1>8 DEF IngestInv
<1>10. ArchiveInv' /\ PickupInv' /\ ReceiptInv'
  BY <1>2, ArchiveStays, PickupStays, ReceiptsStay DEF HandoffInv
<1>11. QED BY <1>9, <1>10 DEF HandoffInv

-----------------------------------------------------------------------------
(* Receipts.                                                                  *)

LEMMA OnlyReceipts ==
  ASSUME HandoffInv, ReceiptInv', budget' \in Budgets,
         UNCHANGED <<archiveVars, pickupVars, ingestVars>>
  PROVE  HandoffInv'
<1>1. ArchiveInv' /\ PickupInv'  BY ArchiveStays, PickupStays DEF HandoffInv
<1>2. IngestInv'  BY IngestStays DEF HandoffInv, pickupVars
<1>3. QED BY <1>1, <1>2 DEF HandoffInv

(* A writer looks or ends: the receipts and their links are as before.        *)
LEMMA WriterMoves ==
  ASSUME HandoffInv, NEW w \in Writers, NEW x \in Writer, writer' = [writer EXCEPT ![w] = x],
         UNCHANGED <<receipts, collectVars>>
  PROVE  ReceiptInv'
<1>1. ReceiptInv /\ writer \in [Writers -> Writer]  BY DEF HandoffInv, ReceiptInv
<1>2. writer' \in [Writers -> Writer]  BY <1>1
<1>3. UNCHANGED <<receipts, registry, links>>  BY DEF collectVars
<1>4. \A c \in Captures, page \in Pages : links'[c][page] = Basis(Seen(registry'[c], receipts'[c], page))
  BY <1>1, <1>3, BasisByCapture DEF ReceiptInv
<1>5. LinksHaveTheirBasis'  BY <1>4 DEF LinksHaveTheirBasis, Basis, Seen
<1>6. QED BY <1>1, <1>2, <1>3, <1>5 DEF ReceiptInv

LEMMA ObserveKeeps ==
  ASSUME HandoffInv, NEW w \in Writers, NEW c \in Captures, Observe(w, c) PROVE HandoffInv'
<1>1. /\ UNCHANGED <<archiveVars, pickupVars, ingestVars, receipts, collectVars, budget>>
      /\ c \in Manifests
  BY DEF Observe
<1>2. outbox[c] \in Extensions  BY <1>1 DEF Manifests, HandoffInv, ArchiveInv
<1>3. PICK file \in Files : file = SourcePath(c, outbox[c])  BY <1>2, PathIsFile
<1>4. ledger[file] # None /\ writer' = [writer EXCEPT ![w] = [about |-> c, entry |-> ledger[file]]]
  BY <1>3 DEF Observe
<1>5. ledger[file] \in Entries  BY <1>4 DEF HandoffInv, IngestInv
<1>6. PICK x : x = [about |-> c, entry |-> ledger[file]]  OBVIOUS
<1>7. x \in Writer /\ writer' = [writer EXCEPT ![w] = x]  BY <1>4, <1>5, <1>6 DEF Writer
<1>8. ReceiptInv'  BY <1>1, <1>7, WriterMoves
<1>9. QED BY <1>1, <1>8, OnlyReceipts, Spending

LEMMA StopReceiptsKeeps ==
  ASSUME HandoffInv, NEW w \in Writers, StopReceipts(w) PROVE HandoffInv'
<1>1. /\ UNCHANGED <<archiveVars, pickupVars, ingestVars, receipts, collectVars>> /\ MayStop
      /\ writer' = [writer EXCEPT ![w] = IdleWriter]
  BY DEF StopReceipts
<1>2. ReceiptInv'  BY <1>1, Constants, WriterMoves
<1>3. QED BY <1>1, <1>2, OnlyReceipts, Spending

(* A receipt that is added leaves those there are their numbers.              *)
LEMMA PutKeeps ==
  ASSUME HandoffInv, NEW w \in Writers, PutReceipt(w) PROVE HandoffInv'
<1>1. /\ receipts \in [Captures -> Seq(Entries)] /\ writer \in [Writers -> Writer]
      /\ registry \in [Captures -> SUBSET Nat] /\ links \in [Captures -> [Pages -> Nat]]
      /\ \A c \in Captures : registry[c] \subseteq DOMAIN receipts[c]
      /\ LinksHaveTheirBasis
  BY DEF HandoffInv, ReceiptInv
<1>2. /\ UNCHANGED <<archiveVars, pickupVars, ingestVars, collectVars, budget>>
      /\ writer[w] # IdleWriter /\ writer' = [writer EXCEPT ![w] = IdleWriter]
  BY DEF PutReceipt
<1>3. PICK b \in Captures, entry \in Entries : b = writer[w].about /\ entry = writer[w].entry
  BY <1>1, <1>2 DEF Writer
<1>4. receipts' = receipts \/ receipts' = [receipts EXCEPT ![b] = Append(@, entry)]
  BY <1>3 DEF PutReceipt
<1>5. receipts' \in [Captures -> Seq(Entries)]
  <2>1. PICK grown : grown = Append(receipts[b], entry)  OBVIOUS
  <2>2. grown \in Seq(Entries)  BY <1>1, <2>1
  <2>3. receipts' = receipts \/ receipts' = [receipts EXCEPT ![b] = grown]  BY <1>4, <2>1
  <2>4. QED BY <1>1, <2>2, <2>3
<1>6. UNCHANGED <<registry, links>>  BY <1>2 DEF collectVars
<1>7. ASSUME NEW c \in Captures
      PROVE  /\ DOMAIN receipts[c] \subseteq DOMAIN receipts'[c]
             /\ \A n \in DOMAIN receipts[c] : receipts'[c][n] = receipts[c][n]
  <2>1. receipts'[c] = receipts[c] \/ receipts'[c] = Append(receipts[c], entry)  BY <1>1, <1>4
  <2>2. receipts[c] \in Seq(Entries)  BY <1>1
  <2>3. QED BY <2>1, <2>2
<1>8. \A c \in Captures : registry'[c] \subseteq DOMAIN receipts'[c]  BY <1>1, <1>6, <1>7
<1>9. ASSUME NEW c \in Captures, NEW page \in Pages
      PROVE  links'[c][page] = Basis(Seen(registry'[c], receipts'[c], page))
  <2>1. Seen(registry[c], receipts'[c], page) = Seen(registry[c], receipts[c], page)
    BY <1>1, <1>7 DEF Seen
  <2>2. links[c][page] = Basis(Seen(registry[c], receipts[c], page))  BY <1>1, BasisByCapture
  <2>3. QED BY <1>6, <2>1, <2>2
<1>10. LinksHaveTheirBasis'  BY <1>9 DEF LinksHaveTheirBasis, Basis, Seen
<1>11. writer' \in [Writers -> Writer]  BY <1>1, <1>2, Constants
<1>12. ReceiptInv'  BY <1>1, <1>5, <1>6, <1>8, <1>10, <1>11 DEF ReceiptInv
<1>13. QED BY <1>2, <1>12, OnlyReceipts, Spending

(* The least of a set that grows by one.                                      *)
LEMMA BasisGrows ==
  ASSUME NEW S \in SUBSET (Nat \ {0}), NEW n \in Nat \ {0}
  PROVE  Basis(S \cup {n}) = IF Basis(S) = 0 \/ n < Basis(S) THEN n ELSE Basis(S)
<1>1. S \in SUBSET Nat /\ S \cup {n} \in SUBSET Nat /\ S \cup {n} # {}  OBVIOUS
<1>2. PICK least : least = Min(S \cup {n})  OBVIOUS
<1>3. least \in S \cup {n} /\ \A y \in S \cup {n} : least <= y  BY <1>1, <1>2, LeastOf
<1>4. Basis(S \cup {n}) = least  BY <1>1, <1>2 DEF Basis
<1>5. CASE S = {}
  <2>1. Basis(S) = 0 /\ least = n  BY <1>3, <1>5 DEF Basis
  <2>2. QED BY <1>4, <2>1
<1>6. CASE S # {}
  <2>1. PICK m : m = Min(S)  OBVIOUS
  <2>2. m \in S /\ \A y \in S : m <= y  BY <1>1, <1>6, <2>1, LeastOf
  <2>3. Basis(S) = m  BY <1>6, <2>1 DEF Basis
  <2>4. m \in Nat \ {0} /\ least \in Nat  BY <1>3, <2>2
  <2>5. least <= n /\ least <= m  BY <1>3, <2>2
  <2>6. least = n \/ m <= least  BY <1>3, <2>2
  <2>7. CASE n < m  BY <1>4, <2>3, <2>4, <2>5, <2>6, <2>7
  <2>8. CASE ~(n < m)  BY <1>4, <2>3, <2>4, <2>5, <2>6, <2>8
  <2>9. QED BY <2>7, <2>8
<1>7. QED BY <1>5, <1>6

LEMMA CollectKeeps == ASSUME HandoffInv, CollectReceipt PROVE HandoffInv'
<1>1. /\ receipts \in [Captures -> Seq(Entries)] /\ writer \in [Writers -> Writer]
      /\ registry \in [Captures -> SUBSET Nat] /\ links \in [Captures -> [Pages -> Nat]]
      /\ \A c \in Captures : registry[c] \subseteq DOMAIN receipts[c]
      /\ LinksHaveTheirBasis
  BY DEF HandoffInv, ReceiptInv
<1>2. PICK b : b = Min(Uncollected)  OBVIOUS
<1>3. b \in Captures /\ registry[b] # DOMAIN receipts[b]
  <2>1. Uncollected \in SUBSET Nat /\ Uncollected # {}
    BY Numbered DEF Uncollected, CollectReceipt
  <2>2. b \in Uncollected  BY <1>2, <2>1, LeastOf
  <2>3. QED BY <2>2 DEF Uncollected
<1>4. receipts[b] \in Seq(Entries) /\ DOMAIN receipts[b] \subseteq Nat \ {0}  BY <1>1, <1>3
<1>5. PICK n : n = Min(DOMAIN receipts[b] \ registry[b])  OBVIOUS
<1>6. n \in DOMAIN receipts[b] /\ n \notin registry[b]
  <2>1. DOMAIN receipts[b] \ registry[b] \in SUBSET Nat  BY <1>4
  <2>2. DOMAIN receipts[b] \ registry[b] # {}  BY <1>1, <1>3
  <2>3. QED BY <1>5, <2>1, <2>2, LeastOf
<1>7. PICK r : r = receipts[b][n]  OBVIOUS
<1>8. r \in Entries /\ n \in Nat \ {0}  BY <1>4, <1>6, <1>7
<1>9. /\ registry' = [registry EXCEPT ![b] = @ \cup {n}]
      /\ links' = linkReceipt(b, n)
      /\ UNCHANGED <<archiveVars, pickupVars, ingestVars, receiptVars, budget>>
  BY <1>2, <1>5 DEF CollectReceipt
<1>10. UNCHANGED <<receipts, writer>>  BY <1>9 DEF receiptVars
<1>11. /\ registry' \in [Captures -> SUBSET Nat]
       /\ \A c \in Captures : registry'[c] \subseteq DOMAIN receipts'[c]
  BY <1>1, <1>3, <1>6, <1>8, <1>9, <1>10
<1>12. ASSUME NEW c \in Captures, NEW page \in Pages, c # b \/ r.status # "success" \/ r.page # page
       PROVE  Seen(registry'[c], receipts'[c], page) = Seen(registry[c], receipts[c], page)
  <2>1. CASE c # b
    <3>1. registry'[c] = registry[c]  BY <1>1, <1>9, <2>1
    <3>2. QED BY <1>10, <3>1
  <2>2. CASE c = b
    <3>1. registry'[c] = registry[c] \cup {n}  BY <1>1, <1>9, <2>2
    <3>2. r.status # "success" \/ r.page # page  BY <1>12, <2>2
    <3>3. QED BY <1>7, <1>10, <2>2, <3>1, <3>2 DEF Seen
  <2>3. QED BY <2>1, <2>2
<1>13. links' \in [Captures -> [Pages -> Nat]]
       /\ \A c \in Captures, page \in Pages : links'[c][page] = Basis(Seen(registry'[c], receipts'[c], page))
  <2>1. \A c \in Captures, page \in Pages : links[c][page] = Basis(Seen(registry[c], receipts[c], page))
    BY <1>1, BasisByCapture
  <2>2. CASE r.status # "success"
    <3>1. links' = links  BY <1>7, <1>9, <2>2 DEF linkReceipt
    <3>2. QED BY <1>1, <1>12, <2>1, <2>2, <3>1
  <2>3. CASE r.status = "success"
    <3>1. r.page \in Pages  BY <1>8, <2>3 DEF Entries
    <3>2. PICK old \in Nat : old = links[b][r.page]  BY <1>1, <1>3, <3>1
    <3>3. PICK new : new = IF old = 0 \/ n < old THEN n ELSE old  OBVIOUS
    <3>4. new \in Nat  BY <1>8, <3>3
    <3>5. links' = [links EXCEPT ![b][r.page] = new]
      BY <1>1, <1>3, <1>7, <1>9, <2>3, <3>1, <3>2, <3>3 DEF linkReceipt
    <3>6. links' \in [Captures -> [Pages -> Nat]]  BY <1>1, <3>1, <3>4, <3>5
    <3>7. ASSUME NEW c \in Captures, NEW page \in Pages
          PROVE  links'[c][page] = Basis(Seen(registry'[c], receipts'[c], page))
      <4>1. CASE c # b \/ page # r.page
        <5>1. links'[c][page] = links[c][page]  BY <1>1, <3>5, <4>1
        <5>2. QED BY <1>12, <2>1, <4>1, <5>1
      <4>2. CASE c = b /\ page = r.page
        <5>1. links'[c][page] = new  BY <1>1, <3>1, <3>5, <4>2
        <5>2. registry'[b] = registry[b] \cup {n}  BY <1>1, <1>3, <1>9
        <5>3. Seen(registry'[b], receipts'[b], page) = Seen(registry[b], receipts[b], page) \cup {n}
          BY <1>7, <1>10, <2>3, <4>2, <5>2 DEF Seen
        <5>4. Seen(registry[b], receipts[b], page) \in SUBSET (Nat \ {0})
          BY <1>1, <1>3, <1>4 DEF Seen
        <5>5. old = Basis(Seen(registry[b], receipts[b], page))  BY <1>3, <2>1, <3>1, <3>2, <4>2
        <5>6. Basis(Seen(registry[b], receipts[b], page) \cup {n}) = new
          BY <1>8, <3>3, <5>4, <5>5, BasisGrows
        <5>7. QED BY <4>2, <5>1, <5>3, <5>6
      <4>3. QED BY <4>1, <4>2
    <3>8. QED BY <3>6, <3>7
  <2>4. QED BY <2>2, <2>3
<1>14. LinksHaveTheirBasis'  BY <1>13 DEF LinksHaveTheirBasis, Basis, Seen
<1>15. ReceiptInv'  BY <1>1, <1>10, <1>11, <1>13, <1>14 DEF ReceiptInv
<1>16. QED BY <1>9, <1>15, OnlyReceipts, Spending

-----------------------------------------------------------------------------
LEMMA StepKeepsHandoff == ASSUME HandoffInv, [Next]_vars PROVE HandoffInv'
<1>1. CASE RecordCapture  BY <1>1, RecordKeeps
<1>2. ASSUME NEW o \in Objects, Quarantine(o) \/ Unquarantine(o) PROVE HandoffInv'
  BY <1>2, QuarantineKeeps
<1>3. ASSUME NEW h \in Handers, HandoffStep(h) \/ StopHandoff(h) PROVE HandoffInv'
  BY <1>3, HandoffKeeps
<1>4. ASSUME NEW p \in Pickers, PickupStep(p) \/ StopPickup(p) PROVE HandoffInv'
  BY <1>4, BeginPickupKeeps, CopyKeeps, ReadMapKeeps, RenameKeeps, StopPickupKeeps DEF PickupStep
<1>5. ASSUME NEW f \in Files, Digest(f) PROVE HandoffInv'  BY <1>5, DigestKeeps
<1>6. ASSUME NEW w \in Writers, ReceiptStep(w) \/ StopReceipts(w) PROVE HandoffInv'
  BY <1>6, ObserveKeeps, PutKeeps, StopReceiptsKeeps DEF ReceiptStep
<1>7. CASE CollectReceipt  BY <1>7, CollectKeeps
<1>8. CASE UNCHANGED vars
  <2>1. UNCHANGED <<archiveVars, pickupVars, ingestVars, receiptVars, collectVars, budget>>
    BY <1>8 DEF vars
  <2>2. ReceiptInv'  BY <2>1, ReceiptsStay DEF HandoffInv
  <2>3. QED BY <2>1, <2>2, OnlyReceipts, Spending
<1>9. QED BY <1>1, <1>2, <1>3, <1>4, <1>5, <1>6, <1>7, <1>8 DEF Next

(* Whatever overlaps, stops, is deleted or digested again: rows, files and     *)
(* what the commands remember keep their types, who renames the map holds its *)
(* lock, and pages record what the map names.                                 *)
THEOREM HandoffInvariantHolds == Spec => []HandoffInv
<1>1. Init => HandoffInv  BY InitHandoff
<1>2. HandoffInv /\ [Next]_vars => HandoffInv'  BY StepKeepsHandoff
<1>3. QED BY <1>1, <1>2, PTL DEF Spec

(* A link rests on the collected receipt with the lowest number that saw the  *)
(* page, and each collected success has its link (linkReceipt).               *)
THEOREM LinksKeepTheirBasis == Spec => []LinksHaveTheirBasis
<1>1. HandoffInv => LinksHaveTheirBasis  BY DEF HandoffInv, ReceiptInv
<1>2. QED BY <1>1, HandoffInvariantHolds, PTL

(* No command takes an entry out of the capture map, however many Pickups     *)
(* read and replace it at once (updateCaptureMap and its flock).              *)
THEOREM MapKeepsCaptures == Spec => [][\A f \in Files : map[f] \subseteq map'[f]]_vars
<1>1. HandoffInv /\ [Next]_vars => [\A f \in Files : map[f] \subseteq map'[f]]_vars
  <2>1. SUFFICES ASSUME HandoffInv, Next PROVE \A f \in Files : map[f] \subseteq map'[f]
    OBVIOUS
  <2>2. ASSUME NEW p \in Pickers, RenameMap(p) PROVE \A f \in Files : map[f] \subseteq map'[f]
    BY <2>1, <2>2, RenamedMap
  <2>3. CASE map' = map  BY <2>3
  <2>4. QED
    BY <2>1, <2>2, <2>3 DEF Next, RecordCapture, Quarantine, Unquarantine, HandoffStep, BeginHandoff,
       LookUpExtension, WriteManifest, RecordHandoff, StopHandoff, PickupStep, BeginPickup,
       CopyObjects, ReadMap, StopPickup, Digest, ReceiptStep, Observe, PutReceipt, StopReceipts,
       CollectReceipt, pickupVars
<1>2. QED BY <1>1, HandoffInvariantHolds, PTL DEF Spec

(* Digesting a page again never loses a capture it recorded.                  *)
THEOREM RecordedCapturesStay == Spec => PagesKeepCaptures
<1>1. HandoffInv /\ [Next]_vars => [\A f \in Files : onPage[f] \subseteq onPage'[f]]_vars
  <2>1. SUFFICES ASSUME HandoffInv, Next PROVE \A f \in Files : onPage[f] \subseteq onPage'[f]
    OBVIOUS
  <2>2. ASSUME NEW g \in Files, Digest(g) PROVE \A f \in Files : onPage[f] \subseteq onPage'[f]
    <3>1. onPage' = onPage \/ onPage' = [onPage EXCEPT ![g] = map[g]]
      BY <2>2 DEF Digest, CapturesForSource
    <3>2. onPage \in [Files -> SUBSET Captures] /\ \A f \in Files : onPage[f] \subseteq map[f]
      BY <2>1 DEF HandoffInv, IngestInv
    <3>3. QED BY <3>1, <3>2
  <2>3. CASE onPage' = onPage  BY <2>3
  <2>4. QED
    BY <2>1, <2>2, <2>3 DEF Next, RecordCapture, Quarantine, Unquarantine, HandoffStep, BeginHandoff,
       LookUpExtension, WriteManifest, RecordHandoff, StopHandoff, PickupStep, BeginPickup,
       CopyObjects, ReadMap, RenameMap, StopPickup, ReceiptStep, Observe, PutReceipt, StopReceipts,
       CollectReceipt, ingestVars
<1>2. QED BY <1>1, HandoffInvariantHolds, PTL DEF Spec, PagesKeepCaptures

-----------------------------------------------------------------------------
(* One extension for an object, when all hand-offs are run with one set of    *)
(* types.                                                                     *)

LEMMA FixedIsNamed ==
  ASSUME NEW T, NEW o, NEW ext, Fixed(o, ext, T)
  PROVE  /\ ext \in T
         /\ Min(Eligibles(o, T)) \in Eligibles(o, T)
         /\ \A c \in Eligibles(o, T) : Min(Eligibles(o, T)) <= c
<1>1. Eligibles(o, T) \in SUBSET Nat /\ Eligibles(o, T) # {}
  BY CaptureAssumption, Numbered DEF Eligibles, Fixed
<1>2. Min(Eligibles(o, T)) \in Eligibles(o, T) /\ \A c \in Eligibles(o, T) : Min(Eligibles(o, T)) <= c
  BY <1>1, LeastOf
<1>3. QED BY <1>2 DEF Fixed, Eligibles

(* The extension of the candidate that is not held is fixed.                  *)
LEMMA CanonicalIsFixed ==
  ASSUME NEW T, HandoffInv, ExtensionInv(T), NEW h \in Handers, hander[h].at = "look",
         hander[h].types = T,
         ~heldReason(Current(h), canonical(Current(h)), T)
  PROVE  Fixed(ObjectOf[Current(h)], canonical(Current(h)), T)
<1> DEFINE d == Current(h)
           rows == {i \in DOMAIN handoffs : ObjectOf[handoffs[i].capture] = ObjectOf[d]}
<1>1. d \in Captures /\ d \in hander[h].todo /\ hander[h].todo \in SUBSET Captures  BY HanderIs
<1>2. handoffs \in Seq(Row)  BY DEF HandoffInv, ArchiveInv
<1>3. d \in Verified /\ canonical(d) \in T  BY DEF heldReason
<1>4. CASE rows # {}
  <2>1. canonical(d) = handoffs[Min(rows)].ext  BY <1>4 DEF canonical
  <2>2. rows \in SUBSET Nat  BY <1>2
  <2>3. Min(rows) \in rows  BY <1>4, <2>2, LeastOf
  <2>4. QED BY <2>1, <2>3 DEF ExtensionInv
<1>5. CASE rows = {}
  <2>1. canonical(d) = NameOf[d]  BY <1>5 DEF canonical
  <2>2. d \in Eligibles(ObjectOf[d], T)  BY <1>3, <2>1 DEF Eligibles
  <2>3. Fixed(ObjectOf[d], NameOf[Min(Eligibles(ObjectOf[d], T))], T)  BY <2>2 DEF Fixed
  <2>4. PICK m : m = Min(Eligibles(ObjectOf[d], T))  OBVIOUS
  <2>5. m \in Eligibles(ObjectOf[d], T) /\ m <= d  BY <2>2, <2>3, <2>4, FixedIsNamed
  <2>6. m \in Captures /\ ObjectOf[m] = ObjectOf[d] /\ NameOf[m] \in T
    BY <2>5, CaptureAssumption DEF Eligibles
  <2>7. m \in Nat /\ d \in Nat  BY <1>1, <2>6, Numbered
  <2>8. ~(m < d)
    <3>1. SUFFICES ASSUME m < d PROVE FALSE  OBVIOUS
    <3>2. m \in hander[h].todo \/ Among(handoffs, m)
      BY <1>1, <2>5, <3>1 DEF ExtensionInv, NoneLeftBehind
    <3>3. ~Among(handoffs, m)  BY <1>5, <2>6 DEF Among
    <3>4. d <= m  BY <1>1, <2>6, <3>2, <3>3, ForemostIsCandidate DEF Current
    <3>5. QED BY <2>7, <3>1, <3>4
  <2>9. m = d  BY <2>5, <2>7, <2>8
  <2>10. QED BY <2>1, <2>3, <2>4, <2>9
<1>6. QED BY <1>4, <1>5

(* A held candidate is not eligible by its own name.                          *)
LEMMA HeldIsNotEligible ==
  ASSUME NEW T, HandoffInv, ExtensionInv(T), NEW d \in Captures, heldReason(d, canonical(d), T)
  PROVE  d \notin Eligibles(ObjectOf[d], T)
<1> DEFINE rows == {i \in DOMAIN handoffs : ObjectOf[handoffs[i].capture] = ObjectOf[d]}
<1>1. SUFFICES ASSUME d \in Eligibles(ObjectOf[d], T) PROVE canonical(d) \in T
  BY DEF heldReason, Eligibles
<1>2. CASE rows = {}
  <2>1. canonical(d) = NameOf[d]  BY <1>2 DEF canonical
  <2>2. QED BY <1>1, <2>1 DEF Eligibles
<1>3. CASE rows # {}
  <2>1. canonical(d) = handoffs[Min(rows)].ext  BY <1>3 DEF canonical
  <2>2. rows \in SUBSET Nat  BY DEF HandoffInv, ArchiveInv
  <2>3. Min(rows) \in rows  BY <1>3, <2>2, LeastOf
  <2>4. Fixed(ObjectOf[d], canonical(d), T)  BY <2>1, <2>3 DEF ExtensionInv
  <2>5. QED BY <2>4, FixedIsNamed
<1>4. QED BY <1>2, <1>3

(* One command moves, and the rows that are added are as fixed.               *)
LEMMA ExtensionMoves ==
  ASSUME NEW T, HandoffInv, ExtensionInv(T), NEW h \in Handers, NEW x \in Hander,
         hander' = [hander EXCEPT ![h] = x],
         Settled(x, T), NoneLeftBehind(x, handoffs', T),
         \A c \in Captures : Among(handoffs, c) => Among(handoffs', c),
         \A c \in Captures : outbox'[c] # None => Fixed(ObjectOf[c], outbox'[c], T),
         \A i \in DOMAIN handoffs' : Fixed(ObjectOf[handoffs'[i].capture], handoffs'[i].ext, T)
  PROVE  ExtensionInv(T)'
<1>1. hander \in [Handers -> Hander]  BY HanderIs
<1>2. ASSUME NEW g \in Handers
      PROVE  Settled(hander'[g], T) /\ NoneLeftBehind(hander'[g], handoffs', T)
  <2>1. CASE g = h
    <3>1. hander'[g] = x  BY <1>1, <2>1
    <3>2. QED BY <3>1
  <2>2. CASE g # h
    <3>1. hander'[g] = hander[g]  BY <1>1, <2>2
    <3>2. Settled(hander[g], T) /\ NoneLeftBehind(hander[g], handoffs, T)  BY DEF ExtensionInv
    <3>3. NoneLeftBehind(hander[g], handoffs', T)
      BY <3>2, CaptureAssumption DEF NoneLeftBehind, Eligibles
    <3>4. QED BY <3>1, <3>2, <3>3
  <2>3. QED BY <2>1, <2>2
<1>3. QED BY <1>2 DEF ExtensionInv

(* A command that leaves a candidate took it up or found it not eligible.     *)
LEMMA NextLeavesNone ==
  ASSUME NEW T, HandoffInv, ExtensionInv(T), NEW h \in Handers, hander[h].at # "idle",
         NEW x \in Hander, Follows(x, h), NEW rows,
         \A c \in Captures : Among(handoffs, c) => Among(rows, c),
         Current(h) \notin Eligibles(ObjectOf[Current(h)], T) \/ Among(rows, Current(h))
  PROVE  Settled(x, T) /\ NoneLeftBehind(x, rows, T)
<1>1. CASE x = IdleHander  BY <1>1 DEF IdleHander, Settled, NoneLeftBehind
<1>2. CASE x.at = "look" /\ x.todo = hander[h].todo \ {Current(h)}
  <2>1. Settled(x, T)  BY <1>2 DEF Settled
  <2>2. ASSUME NEW e \in x.todo, NEW c \in Eligibles(ObjectOf[e], T), c < e
        PROVE  c \in x.todo \/ Among(rows, c)
    <3>1. e \in hander[h].todo /\ c \in Captures /\ ObjectOf[c] = ObjectOf[e]
      BY <1>2, <2>2, CaptureAssumption DEF Eligibles
    <3>2. c \in hander[h].todo \/ Among(handoffs, c)
      BY <2>2, <3>1 DEF ExtensionInv, NoneLeftBehind
    <3>3. CASE c = Current(h)  BY <2>2, <3>1, <3>3
    <3>4. CASE c # Current(h)  BY <1>2, <3>1, <3>2, <3>4
    <3>5. QED BY <3>3, <3>4
  <2>3. QED BY <2>1, <2>2 DEF NoneLeftBehind
<1>3. QED BY <1>1, <1>2 DEF Follows

LEMMA HandoffFixes ==
  ASSUME NEW T, HandoffTypes = {T}, HandoffInv, ExtensionInv(T), NEW h \in Handers,
         HandoffStep(h) \/ StopHandoff(h)
  PROVE  ExtensionInv(T)'
<1>1. /\ \A c \in Captures : outbox[c] # None => Fixed(ObjectOf[c], outbox[c], T)
      /\ \A i \in DOMAIN handoffs : Fixed(ObjectOf[handoffs[i].capture], handoffs[i].ext, T)
      /\ Settled(hander[h], T) /\ NoneLeftBehind(hander[h], handoffs, T)
  BY DEF ExtensionInv
<1>2. hander[h].at # "idle" => hander[h].types = T  BY HanderIs DEF Sane
<1>3. CASE BeginHandoff(h)
  <2>1. PICK x \in Hander : /\ hander' = [hander EXCEPT ![h] = x] /\ x.at = "look"
                            /\ x.todo = Candidates
    BY <1>3, BeginIs
  <2>2. UNCHANGED <<outbox, handoffs>>  BY <1>3 DEF BeginHandoff
  <2>3. ASSUME NEW e \in Candidates, NEW c \in Eligibles(ObjectOf[e], T), c < e
        PROVE  c \in Candidates
    <3>1. c \in Captures /\ ObjectOf[c] = ObjectOf[e]  BY CaptureAssumption DEF Eligibles
    <3>2. recorded \in Nat /\ e \in 1 .. recorded /\ ObjectOf[e] \in active
      BY Numbered DEF Candidates, HandoffInv, ArchiveInv
    <3>3. c \in 1 .. recorded
      <4>1. c \in Nat \ {0}  BY <3>1, Numbered
      <4>2. QED BY <2>3, <3>2, <4>1
    <3>4. QED BY <3>1, <3>2, <3>3 DEF Candidates
  <2>4. Settled(x, T) /\ NoneLeftBehind(x, handoffs', T)
    BY <2>1, <2>3 DEF Settled, NoneLeftBehind
  <2>5. QED BY <1>1, <2>1, <2>2, <2>4, ExtensionMoves
<1>4. CASE LookUpExtension(h)
  <2>1. UNCHANGED <<outbox, handoffs>> /\ hander[h].at = "look"  BY <1>4 DEF LookUpExtension
  <2>2. Current(h) \in Captures  BY <2>1, HanderIs
  <2>3. PICK x \in Hander :
          /\ hander' = [hander EXCEPT ![h] = x]
          /\ \/ heldReason(Current(h), canonical(Current(h)), T) /\ Follows(x, h)
             \/ /\ ~heldReason(Current(h), canonical(Current(h)), T)
                /\ x.at = "write" /\ x.types = hander[h].types /\ x.todo = hander[h].todo
                /\ x.ext = canonical(Current(h))
    BY <1>2, <1>4, <2>1, LookUpIs
  <2>4. Settled(x, T) /\ NoneLeftBehind(x, handoffs, T)
    <3>1. CASE heldReason(Current(h), canonical(Current(h)), T) /\ Follows(x, h)
      <4>1. Current(h) \notin Eligibles(ObjectOf[Current(h)], T)  BY <2>2, <3>1, HeldIsNotEligible
      <4>2. QED BY <2>1, <3>1, <4>1, NextLeavesNone
    <3>2. CASE /\ ~heldReason(Current(h), canonical(Current(h)), T)
               /\ x.at = "write" /\ x.types = hander[h].types /\ x.todo = hander[h].todo
               /\ x.ext = canonical(Current(h))
      <4>1. Fixed(ObjectOf[Current(h)], x.ext, T)  BY <1>2, <2>1, <3>2, CanonicalIsFixed
      <4>2. Settled(x, T)  BY <3>2, <4>1 DEF Settled, Current
      <4>3. NoneLeftBehind(x, handoffs, T)  BY <1>1, <2>1, <3>2 DEF NoneLeftBehind
      <4>4. QED BY <4>2, <4>3
    <3>3. QED BY <2>3, <3>1, <3>2
  <2>5. QED BY <1>1, <2>1, <2>3, <2>4, ExtensionMoves
<1>5. CASE WriteManifest(h)
  <2>1. handoffs' = handoffs /\ hander[h].at = "write"  BY <1>5 DEF WriteManifest
  <2>2. PICK x \in Hander :
          /\ hander' = [hander EXCEPT ![h] = x]
          /\ \/ /\ x.at = "row" /\ x.types = hander[h].types /\ x.todo = hander[h].todo
                /\ x.ext = hander[h].ext
                /\ outbox' = [outbox EXCEPT ![Current(h)] = hander[h].ext]
             \/ x = IdleHander /\ outbox' = outbox
    BY <1>5, WriteIs
  <2>3. Fixed(ObjectOf[Current(h)], hander[h].ext, T)  BY <1>1, <2>1 DEF Settled, Current
  <2>4. \A c \in Captures : outbox'[c] # None => Fixed(ObjectOf[c], outbox'[c], T)
    <3>1. outbox \in [Captures -> Extensions \cup {None}]  BY DEF HandoffInv, ArchiveInv
    <3>2. QED BY <1>1, <2>2, <2>3, <3>1
  <2>5. Settled(x, T) /\ NoneLeftBehind(x, handoffs, T)
    <3>1. CASE x = IdleHander  BY <3>1 DEF IdleHander, Settled, NoneLeftBehind
    <3>2. CASE /\ x.at = "row" /\ x.types = hander[h].types /\ x.todo = hander[h].todo
               /\ x.ext = hander[h].ext
      BY <1>1, <2>1, <3>2 DEF Settled, NoneLeftBehind
    <3>3. QED BY <2>2, <3>1, <3>2
  <2>6. QED BY <1>1, <2>1, <2>2, <2>4, <2>5, ExtensionMoves
<1>6. CASE RecordHandoff(h)
  <2>1. outbox' = outbox /\ hander[h].at = "row"  BY <1>6 DEF RecordHandoff
  <2>2. PICK x \in Hander : Follows(x, h) /\ hander' = [hander EXCEPT ![h] = x]  BY <1>6, RecordIs
  <2>3. PICK row : row = [capture |-> Current(h), ext |-> hander[h].ext]  OBVIOUS
  <2>4. \/ handoffs' = handoffs /\ HandedOff(Current(h))
        \/ Inserted(handoffs, handoffs', row)
    BY <1>6, <2>3, RecordIs
  <2>5. Fixed(ObjectOf[row.capture], row.ext, T)  BY <1>1, <2>1, <2>3 DEF Settled, Current
  <2>6. handoffs \in Seq(Row)  BY DEF HandoffInv, ArchiveInv
  <2>7. /\ \A i \in DOMAIN handoffs' : Fixed(ObjectOf[handoffs'[i].capture], handoffs'[i].ext, T)
        /\ \A c \in Captures : Among(handoffs, c) => Among(handoffs', c)
        /\ Among(handoffs', Current(h))
    <3>1. CASE handoffs' = handoffs /\ HandedOff(Current(h))
      BY <1>1, <3>1 DEF HandedOff, Among
    <3>2. CASE Inserted(handoffs, handoffs', row)
      <4>1. \A i \in DOMAIN handoffs' : handoffs'[i] = row \/ \E j \in DOMAIN handoffs : handoffs'[i] = handoffs[j]
        BY <3>2 DEF Inserted
      <4>2. /\ \A j \in DOMAIN handoffs : \E i \in DOMAIN handoffs' : handoffs'[i] = handoffs[j]
            /\ \E i \in DOMAIN handoffs' : handoffs'[i] = row
        BY <3>2 DEF Inserted
      <4>3. \A i \in DOMAIN handoffs' : Fixed(ObjectOf[handoffs'[i].capture], handoffs'[i].ext, T)
        BY <1>1, <2>5, <4>1
      <4>4. (\A c \in Captures : Among(handoffs, c) => Among(handoffs', c)) /\ Among(handoffs', Current(h))
        BY <2>3, <4>2 DEF Among
      <4>5. QED BY <4>3, <4>4
    <3>3. QED BY <2>4, <3>1, <3>2
  <2>8. Settled(x, T) /\ NoneLeftBehind(x, handoffs', T)  BY <2>1, <2>2, <2>7, NextLeavesNone
  <2>9. QED BY <1>1, <2>1, <2>2, <2>7, <2>8, ExtensionMoves
<1>7. CASE StopHandoff(h)
  <2>1. UNCHANGED <<outbox, handoffs>> /\ hander' = [hander EXCEPT ![h] = IdleHander]
    BY <1>7 DEF StopHandoff
  <2>2. Settled(IdleHander, T) /\ NoneLeftBehind(IdleHander, handoffs, T)
    BY DEF IdleHander, Settled, NoneLeftBehind
  <2>3. QED BY <1>1, <2>1, <2>2, Constants, ExtensionMoves
<1>8. QED BY <1>3, <1>4, <1>5, <1>6, <1>7 DEF HandoffStep

(* A deletion takes manifests away; nobody else touches what is handed off.   *)
LEMMA ExtensionStays ==
  ASSUME NEW T, ExtensionInv(T), UNCHANGED <<handoffs, hander>>,
         \A c \in Captures : outbox'[c] \in {None, outbox[c]}
  PROVE  ExtensionInv(T)'
BY DEF ExtensionInv

LEMMA StepFixes ==
  ASSUME NEW T, HandoffTypes = {T}, HandoffInv, ExtensionInv(T), [Next]_vars
  PROVE  ExtensionInv(T)'
<1>1. CASE UNCHANGED archiveVars  BY <1>1, ExtensionStays DEF archiveVars
<1>2. CASE RecordCapture  BY <1>2, ExtensionStays DEF RecordCapture
<1>3. ASSUME NEW o \in Objects, Quarantine(o) \/ Unquarantine(o) PROVE ExtensionInv(T)'
  BY <1>3, ExtensionStays DEF Quarantine, Unquarantine
<1>4. ASSUME NEW h \in Handers, HandoffStep(h) \/ StopHandoff(h) PROVE ExtensionInv(T)'
  BY <1>4, HandoffFixes
<1>5. ASSUME NEW p \in Pickers, PickupStep(p) \/ StopPickup(p) PROVE UNCHANGED archiveVars
  BY <1>5 DEF PickupStep, BeginPickup, CopyObjects, ReadMap, RenameMap, StopPickup
<1>6. ASSUME NEW w \in Writers, ReceiptStep(w) \/ StopReceipts(w) PROVE UNCHANGED archiveVars
  BY <1>6 DEF ReceiptStep, Observe, PutReceipt, StopReceipts
<1>7. \A f \in Files : Digest(f) => UNCHANGED archiveVars  BY DEF Digest
<1>8. CollectReceipt => UNCHANGED archiveVars  BY DEF CollectReceipt
<1>9. UNCHANGED vars => UNCHANGED archiveVars  BY DEF vars
<1>10. QED BY <1>1, <1>2, <1>3, <1>4, <1>5, <1>6, <1>7, <1>8, <1>9 DEF Next

(* The copies are made as the manifests say.                                  *)
LEMMA StepCopies ==
  ASSUME NEW T, HandoffInv, ExtensionInv(T), CopyInv(T), [Next]_vars
  PROVE  CopyInv(T)'
<1>1. /\ \A p \in Pickers : \A m \in picker[p].picked : Fixed(ObjectOf[m[1]], m[2], T)
      /\ \A f \in copies : Fixed(f[1], f[2], T)
  BY DEF CopyInv
<1>2. CASE UNCHANGED <<picker, copies>>  BY <1>1, <1>2 DEF CopyInv
<1>3. ASSUME NEW p \in Pickers, PickupStep(p) \/ StopPickup(p) PROVE CopyInv(T)'
  <2>1. picker \in [Pickers -> Picker]  BY PickerIs, <1>3 DEF HandoffInv, PickupInv
  <2>2. CASE BeginPickup(p)
    <3>1. PICK taken : taken = {<<c, outbox[c]>> : c \in {d \in Manifests : outbox[d] \in AcceptTypes}}
      OBVIOUS
    <3>2. picker' = [picker EXCEPT ![p] = [picked |-> taken, seen |-> None, at |-> "copy"]]
          /\ copies' = copies
      BY <2>2, <3>1 DEF BeginPickup
    <3>3. \A m \in taken : Fixed(ObjectOf[m[1]], m[2], T)
      BY <3>1 DEF Manifests, ExtensionInv
    <3>4. QED BY <1>1, <2>1, <3>2, <3>3 DEF CopyInv
  <2>3. CASE CopyObjects(p)
    <3>1. PICK done \in SUBSET picker[p].picked :
            /\ copies' = copies \cup {SourcePath(m[1], m[2]) : m \in done}
            /\ \/ picker' = [picker EXCEPT ![p].at = "map"]
               \/ picker' = [picker EXCEPT ![p] = IdlePicker]
      BY <2>3 DEF CopyObjects
    <3>2. \A f \in copies' : Fixed(f[1], f[2], T)  BY <1>1, <3>1 DEF SourcePath
    <3>3. \A q \in Pickers : picker'[q].picked \subseteq picker[q].picked
      BY <2>1, <3>1 DEF IdlePicker, Picker
    <3>4. QED BY <1>1, <3>2, <3>3 DEF CopyInv
  <2>4. CASE ReadMap(p) \/ RenameMap(p) \/ StopPickup(p)
    <3>1. copies' = copies  BY <2>4 DEF ReadMap, RenameMap, StopPickup
    <3>2. \/ picker' = [picker EXCEPT ![p].seen = map, ![p].at = "rename"]
          \/ picker' = [picker EXCEPT ![p] = IdlePicker]
      BY <2>4 DEF ReadMap, RenameMap, StopPickup
    <3>3. \A q \in Pickers : picker'[q].picked \subseteq picker[q].picked
      BY <2>1, <3>2 DEF IdlePicker, Picker
    <3>4. QED BY <1>1, <3>1, <3>3 DEF CopyInv
  <2>5. QED BY <1>3, <2>2, <2>3, <2>4 DEF PickupStep
<1>4. RecordCapture => UNCHANGED <<picker, copies>>  BY DEF RecordCapture, pickupVars
<1>5. \A o \in Objects : Quarantine(o) \/ Unquarantine(o) => UNCHANGED <<picker, copies>>
  BY DEF Quarantine, Unquarantine, pickupVars
<1>6. ASSUME NEW h \in Handers, HandoffStep(h) \/ StopHandoff(h) PROVE UNCHANGED <<picker, copies>>
  BY <1>6 DEF HandoffStep, StopHandoff, BeginHandoff, LookUpExtension, WriteManifest,
     RecordHandoff, pickupVars
<1>7. ASSUME NEW w \in Writers, ReceiptStep(w) \/ StopReceipts(w) PROVE UNCHANGED <<picker, copies>>
  BY <1>7 DEF ReceiptStep, Observe, PutReceipt, StopReceipts, pickupVars
<1>8. \A f \in Files : Digest(f) => UNCHANGED <<picker, copies>>  BY DEF Digest, pickupVars
<1>9. CollectReceipt => UNCHANGED <<picker, copies>>  BY DEF CollectReceipt, pickupVars
<1>10. UNCHANGED vars => UNCHANGED <<picker, copies>>  BY DEF vars, pickupVars
<1>11. QED BY <1>2, <1>3, <1>4, <1>5, <1>6, <1>7, <1>8, <1>9, <1>10 DEF Next

LEMMA InitFixes == ASSUME NEW T, Init PROVE ExtensionInv(T) /\ CopyInv(T)
BY DEF Init, IdleHander, IdlePicker, ExtensionInv, CopyInv, Settled, NoneLeftBehind

(* When every hand-off is run with the same types, whatever overlaps, is      *)
(* killed half-way or deleted: what is handed off, about to be, picked up and *)
(* copied has the extension of the object's first capture that is eligible by *)
(* its own name (Handoff's sort and the handoffs table).                      *)
THEOREM ExtensionsAreFixed ==
  ASSUME NEW T, HandoffTypes = {T}
  PROVE  Spec => [](ExtensionInv(T) /\ CopyInv(T))
<1>1. Init => ExtensionInv(T) /\ CopyInv(T)  BY InitFixes
<1>2. HandoffInv /\ ExtensionInv(T) /\ CopyInv(T) /\ [Next]_vars => (ExtensionInv(T) /\ CopyInv(T))'
  BY StepFixes, StepCopies
<1>3. QED BY <1>1, <1>2, HandoffInvariantHolds, PTL DEF Spec

(* The manifests of one object agree, so no reader refuses the outbox.        *)
THEOREM ManifestsAgree ==
  ASSUME NEW T, HandoffTypes = {T}
  PROVE  Spec => []OneExtension
<1>1. ExtensionInv(T) => OneExtension
  BY DEF ExtensionInv, OneExtension, OutboxAgrees, Manifests, Fixed
<1>2. QED BY <1>1, ExtensionsAreFixed, PTL

(* One object has one copy on the ingest host, whatever its captures are      *)
(* called (SourcePath).                                                       *)
THEOREM BytesHaveOnePath ==
  ASSUME NEW T, HandoffTypes = {T}
  PROVE  Spec => []OneSourcePath
<1>1. HandoffInv /\ CopyInv(T) => OneSourcePath
  BY DEF HandoffInv, PickupInv, CopyInv, OneSourcePath, Fixed, Files
<1>2. QED BY <1>1, HandoffInvariantHolds, ExtensionsAreFixed, PTL
=============================================================================
