-------------------------- MODULE IngestRunProofs --------------------------
(****************************************************************************)
(* Theorems about IngestRun for any number of sources, contents, page       *)
(* names, failures, kills and changes by users and agents.                  *)
(****************************************************************************)
EXTENDS IngestRun, SequenceTheorems, FiniteSetTheorems, WellFoundedInduction, TLAPS

SameKey(q, r) == q.source = r.source /\ q.content = r.content

RowsAreKeyed == \A m, n \in DOMAIN ledger : SameKey(ledger[m], ledger[n]) => m = n

(* A success row names a page, and a name with a hash has that of its source. *)
RowsNamePages ==
  \A r \in Rows : /\ r.status = "success" => r.page # NoName
                  /\ r.page # NoName => r.page[2] \in {0, r.source}

Sweeping == {"recheck", "move", "supersedeOrphan"}
Writing  == {"write", "add", "supersede", "record"}
Written  == {"add", "supersede", "record", "retire"}

OrphanIsRecorded == run.at \in Sweeping => run.orphan \in SuccessRows

(* The name the page in hand gets and the one it follows belong to its source. *)
NamesAreHeld ==
  run.at \in Writing \cup {"retire"} =>
    /\ {run.page, run.previous} \subseteq PageNames
    /\ run.page[2] \in {0, Job[1]}
    /\ ~wikiPageTakenByOther(run.page, Job[1])
    /\ ~wikiPageTakenByOther(run.previous, Job[1])

PageIsOfJob ==
  run.at \in Written => pages[run.page] = NoPage \/ pages[run.page].source = Job[1]

NoSuccessYet == run.at = "record" => \A r \in SuccessRows : r.source # Job[1]

PreviousIsFollowed ==
  run.at = "retire" =>
    /\ run.previous # run.page
    /\ \E r \in SuccessRows : r.source = Job[1] /\ r.page = run.page

IInv ==
  /\ TypeOK
  /\ RowsAreKeyed
  /\ RowsNamePages
  /\ OneSuccess
  /\ PagesAreOwned
  /\ OrphanIsRecorded
  /\ run.at \in Writing \cup {"digest", "retire"} => run.todo # {}
  /\ NamesAreHeld
  /\ PageIsOfJob
  /\ NoSuccessYet
  /\ PreviousIsFollowed

-----------------------------------------------------------------------------
(* Helpers.                                                                 *)

LEMMA LeastNumber ==
  ASSUME NEW S, S \subseteq Nat, S # {}
  PROVE  \E x \in S : \A y \in S : x <= y
<1> DEFINE R == OpToRel(<, Nat)
<1> HIDE DEF R
<1>1. IsWellFoundedOn(R, Nat)  BY NatLessThanWellFounded DEF R
<1>2. PICK x \in S : \A y \in S : ~(<<y, x>> \in R)  BY <1>1, WFMin
<1>3. \A y \in S : ~(y < x)  BY <1>2 DEF R, OpToRel
<1>4. QED BY <1>3

LEMMA GreatestIndex ==
  ASSUME NEW k \in Nat, NEW S, S \subseteq 1..k, S # {}
  PROVE  Max(S) \in S /\ \A y \in S : y <= Max(S)
<1> DEFINE T == {k - x : x \in S}
<1>1. T \subseteq Nat /\ T # {}
  <2>1. PICK x \in S : TRUE  OBVIOUS
  <2>2. k - x \in T  BY <2>1
  <2>3. \A z \in S : k - z \in Nat  OBVIOUS
  <2>4. QED BY <2>2, <2>3
<1>2. PICK t \in T : \A u \in T : t <= u
  <2> HIDE DEF T
  <2>1. QED BY <1>1, LeastNumber
<1>3. PICK x \in S : t = k - x  OBVIOUS
<1>4. \A y \in S : y <= x
  <2> TAKE y \in S
  <2>1. k - x <= k - y  BY <1>2, <1>3
  <2>2. QED BY <2>1
<1>5. \A y \in S : x >= y  BY <1>4
<1>6. QED BY <1>5 DEF Max

LEMMA JobIsFirst ==
  ASSUME IngestAssumption, run.todo \subseteq Sources \X Contents, run.todo # {}
  PROVE  Job \in run.todo /\ Job[1] \in Sources /\ Job[2] \in Contents
<1> DEFINE S == {j[1] : j \in run.todo}
<1>1. \A j \in run.todo : j[1] \in Sources /\ j[2] \in Contents  OBVIOUS
<1>2. S \subseteq Nat /\ S # {}
  <2>1. PICK j \in run.todo : TRUE  OBVIOUS
  <2>2. j[1] \in S  BY <2>1
  <2>3. \A x \in Sources : x \in Nat  BY DEF IngestAssumption
  <2>4. QED BY <1>1, <2>2, <2>3
<1>3. PICK x \in S : \A y \in S : x <= y
  <2> HIDE DEF S
  <2>1. QED BY <1>2, LeastNumber
<1>4. \E j \in run.todo : \A k \in run.todo : j[1] <= k[1]  BY <1>3
<1>5. Job \in run.todo  BY <1>4 DEF Job
<1>6. QED BY <1>1, <1>5

LEMMA Names ==
  ASSUME IngestAssumption
  PROVE  NoName \notin PageNames /\ NoPage \notin Page /\ 0 \notin Sources
<1>1. NoName \notin PageNames  BY DEF IngestAssumption, NoName, PageNames
<1>2. 0 \notin Sources  BY DEF IngestAssumption
<1>3. NoPage \notin Page  BY <1>2 DEF NoPage, Page
<1>4. QED BY <1>1, <1>2, <1>3

-----------------------------------------------------------------------------
(* What INSERT OR REPLACE does to the rows and to their order.              *)

(* L2 is L without its entry d, if it has one there, and with row at its end. *)
Replaced(L, L2, d, row) ==
  /\ d \in 1..(Len(L) + 1)
  /\ Len(L2) = IF d = Len(L) + 1 THEN Len(L) + 1 ELSE Len(L)
  /\ L2[Len(L2)] = row
  /\ \A n \in 1..(Len(L2) - 1) : L2[n] = L[IF n < d THEN n ELSE n + 1]
  /\ d \in 1..Len(L) => SameKey(L[d], row)
  /\ \A n \in 1..Len(L) : n # d => ~SameKey(L[n], row)

LEMMA RemoveAtIndex ==
  ASSUME NEW S, NEW L \in Seq(S), NEW d \in 1..Len(L)
  PROVE  /\ RemoveAt(L, d) \in Seq(S)
         /\ Len(RemoveAt(L, d)) = Len(L) - 1
         /\ \A n \in 1..(Len(L) - 1) : RemoveAt(L, d)[n] = L[IF n < d THEN n ELSE n + 1]
<1> DEFINE a == SubSeq(L, 1, d - 1)
           b == SubSeq(L, d + 1, Len(L))
<1>1. d \in Nat /\ Len(L) \in Nat /\ 1 <= d /\ d <= Len(L) /\ \A i \in 1..Len(L) : L[i] \in S
  OBVIOUS
<1>2. /\ a \in Seq(S) /\ Len(a) = d - 1
      /\ \A i \in 1..(d - 1) : a[i] = L[i]
  <2>1. \A i \in 1..(d - 1) : L[i] \in S  BY <1>1
  <2>2. /\ a \in Seq(S)
        /\ Len(a) = IF 1 <= d - 1 THEN (d - 1) - 1 + 1 ELSE 0
        /\ \A i \in 1..((d - 1) - 1 + 1) : a[i] = L[1 + i - 1]
    BY <1>1, <2>1, SubSeqProperties
  <2>3. QED BY <1>1, <2>2
<1>3. /\ b \in Seq(S) /\ Len(b) = Len(L) - d
      /\ \A i \in 1..(Len(L) - d) : b[i] = L[d + i]
  <2>1. \A i \in (d + 1)..Len(L) : L[i] \in S  BY <1>1
  <2>2. /\ b \in Seq(S)
        /\ Len(b) = IF d + 1 <= Len(L) THEN Len(L) - (d + 1) + 1 ELSE 0
        /\ \A i \in 1..(Len(L) - (d + 1) + 1) : b[i] = L[(d + 1) + i - 1]
    BY <1>1, <2>1, SubSeqProperties
  <2>3. \A i \in 1..(Len(L) - d) : b[i] = L[(d + 1) + i - 1] /\ (d + 1) + i - 1 = d + i
    BY <1>1, <2>2
  <2>4. QED BY <1>1, <2>2, <2>3
<1> HIDE DEF a, b
<1>4. /\ a \o b \in Seq(S)
      /\ Len(a \o b) = Len(a) + Len(b)
      /\ \A i \in 1..(Len(a) + Len(b)) : (a \o b)[i] = IF i <= Len(a) THEN a[i] ELSE b[i - Len(a)]
  BY <1>2, <1>3, ConcatProperties
<1>5. Len(a) + Len(b) = Len(L) - 1  BY <1>1, <1>2, <1>3
<1>6. ASSUME NEW n \in 1..(Len(L) - 1)
      PROVE  (a \o b)[n] = L[IF n < d THEN n ELSE n + 1]
  <2>1. CASE n < d
    <3>1. n <= Len(a) /\ n \in 1..(d - 1)  BY <1>1, <1>2, <2>1
    <3>2. QED BY <1>2, <1>4, <1>5, <2>1, <3>1
  <2>2. CASE ~(n < d)
    <3>1. ~(n <= Len(a)) /\ n - Len(a) \in 1..(Len(L) - d) /\ d + (n - Len(a)) = n + 1
      BY <1>1, <1>2, <2>2
    <3>2. (a \o b)[n] = b[n - Len(a)]  BY <1>4, <1>5, <3>1
    <3>3. b[n - Len(a)] = L[d + (n - Len(a))]  BY <1>3, <3>1
    <3>4. QED BY <2>2, <3>1, <3>2, <3>3
  <2>3. QED BY <2>1, <2>2
<1>7. RemoveAt(L, d) = a \o b  BY DEF RemoveAt, a, b
<1>8. QED BY <1>4, <1>5, <1>6, <1>7

LEMMA UpsertReplaces ==
  ASSUME ledger \in Seq(Row), RowsAreKeyed, NEW row \in Row, ledger' = Upsert(row)
  PROVE  ledger' \in Seq(Row) /\ \E d \in 1..(Len(ledger) + 1) : Replaced(ledger, ledger', d, row)
<1> DEFINE same == {n \in DOMAIN ledger : /\ ledger[n].source = row.source
                                          /\ ledger[n].content = row.content}
<1>1. DOMAIN ledger = 1..Len(ledger) /\ Len(ledger) \in Nat  OBVIOUS
<1>2. CASE same = {}
  <2>1. ledger' = Append(ledger, row)  BY <1>2 DEF Upsert
  <2>2. /\ ledger' \in Seq(Row) /\ Len(ledger') = Len(ledger) + 1
        /\ ledger'[Len(ledger) + 1] = row
        /\ \A n \in 1..Len(ledger) : ledger'[n] = ledger[n]
    BY <2>1
  <2>3. \A n \in 1..(Len(ledger') - 1) :
          n < Len(ledger) + 1 /\ ledger'[n] = ledger[n]
    <3> TAKE n \in 1..(Len(ledger') - 1)
    <3>1. n \in 1..Len(ledger) /\ n < Len(ledger) + 1  BY <1>1, <2>2
    <3>2. QED BY <2>2, <3>1
  <2>4. \A n \in 1..Len(ledger) : ~SameKey(ledger[n], row)  BY <1>1, <1>2 DEF SameKey
  <2>5. Len(ledger) + 1 \notin 1..Len(ledger) /\ Len(ledger) + 1 \in 1..(Len(ledger) + 1)  BY <1>1
  <2>6. Replaced(ledger, ledger', Len(ledger) + 1, row)
    BY <2>2, <2>3, <2>4, <2>5 DEF Replaced
  <2>7. QED BY <2>2, <2>5, <2>6
<1>3. CASE same # {}
  <2> DEFINE d == CHOOSE n \in same : TRUE
             R == RemoveAt(ledger, d)
  <2>1. d \in 1..Len(ledger) /\ SameKey(ledger[d], row)  BY <1>1, <1>3 DEF SameKey
  <2>2. ledger' = Append(R, row)  BY <1>3 DEF Upsert
  <2> HIDE DEF d
  <2>3. /\ R \in Seq(Row) /\ Len(R) = Len(ledger) - 1
        /\ \A n \in 1..(Len(ledger) - 1) : R[n] = ledger[IF n < d THEN n ELSE n + 1]
    BY <2>1, RemoveAtIndex
  <2> HIDE DEF R
  <2>4. /\ ledger' \in Seq(Row) /\ Len(ledger') = Len(ledger)
        /\ ledger'[Len(ledger)] = row
        /\ \A n \in 1..(Len(ledger) - 1) : ledger'[n] = R[n]
    <3>1. /\ Append(R, row) \in Seq(Row) /\ Len(Append(R, row)) = Len(R) + 1
          /\ Append(R, row)[Len(R) + 1] = row
          /\ \A n \in 1..Len(R) : Append(R, row)[n] = R[n]
      BY <2>3
    <3>2. Len(R) + 1 = Len(ledger)  BY <1>1, <2>3
    <3>3. QED BY <2>2, <2>3, <3>1, <3>2
  <2>5. \A n \in 1..Len(ledger) : n # d => ~SameKey(ledger[n], row)
    <3> SUFFICES ASSUME NEW n \in 1..Len(ledger), SameKey(ledger[n], row) PROVE n = d  OBVIOUS
    <3>1. SameKey(ledger[n], ledger[d])  BY <2>1 DEF SameKey
    <3>2. QED BY <1>1, <2>1, <3>1 DEF RowsAreKeyed
  <2>6. d # Len(ledger) + 1 /\ d \in 1..(Len(ledger) + 1)  BY <1>1, <2>1
  <2>7. Replaced(ledger, ledger', d, row)  BY <2>1, <2>3, <2>4, <2>5, <2>6 DEF Replaced
  <2>8. QED BY <2>4, <2>6, <2>7
<1>4. QED BY <1>2, <1>3

LEMMA UpsertRows ==
  ASSUME ledger \in Seq(Row), RowsAreKeyed, NEW row \in Row, ledger' = Upsert(row)
  PROVE  /\ ledger' \in Seq(Row)
         /\ RowsAreKeyed'
         /\ Rows' = {r \in Rows : ~SameKey(r, row)} \cup {row}
<1>1. PICK d \in 1..(Len(ledger) + 1) : Replaced(ledger, ledger', d, row)  BY UpsertReplaces
<1>2. ledger' \in Seq(Row)  BY UpsertReplaces
<1> DEFINE k == Len(ledger)
           k2 == Len(ledger')
           old(n) == IF n < d THEN n ELSE n + 1
<1>0. DOMAIN ledger = 1..k /\ DOMAIN ledger' = 1..k2 /\ k \in Nat /\ k2 \in Nat  BY <1>2
<1>3. k \in Nat /\ k2 \in Nat /\ d \in Nat /\ 1 <= d  BY <1>0
<1>4. k2 = IF d = k + 1 THEN k + 1 ELSE k  BY <1>1 DEF Replaced
<1>5. ledger'[k2] = row /\ k2 \in 1..k2  BY <1>1, <1>3, <1>4 DEF Replaced
<1>6. ASSUME NEW n \in 1..k2, n # k2
      PROVE  ledger'[n] = ledger[old(n)] /\ old(n) \in 1..k /\ old(n) # d /\ ~SameKey(ledger'[n], row)
  <2>1. n \in 1..(k2 - 1)  BY <1>3, <1>6
  <2>2. old(n) \in 1..k /\ old(n) # d  BY <1>3, <1>4, <2>1
  <2>3. ledger'[n] = ledger[old(n)]  BY <1>1, <2>1 DEF Replaced
  <2> HIDE DEF old
  <2>4. ~SameKey(ledger[old(n)], row)  BY <1>1, <2>2 DEF Replaced
  <2>5. QED BY <2>2, <2>3, <2>4
<1>7. ASSUME NEW n \in 1..k, n # d
      PROVE  \E m \in 1..k2 : m # k2 /\ old(m) = n
  <2>1. CASE n < d
    <3>1. n \in 1..k2 /\ n # k2 /\ old(n) = n  BY <1>3, <1>4, <2>1
    <3>2. QED BY <3>1
  <2>2. CASE ~(n < d)
    <3>1. n - 1 \in 1..k2 /\ n - 1 # k2 /\ old(n - 1) = n  BY <1>3, <1>4, <1>7, <2>2
    <3>2. QED BY <3>1
  <2>3. QED BY <2>1, <2>2
<1>8. Rows' = {r \in Rows : ~SameKey(r, row)} \cup {row}
  <2>1. Rows = {ledger[n] : n \in 1..k} /\ Rows' = {ledger'[n] : n \in 1..k2}
    BY <1>0 DEF Rows, ToSet
  <2>2. ASSUME NEW r \in Rows' PROVE r \in {q \in Rows : ~SameKey(q, row)} \cup {row}
    <3>1. PICK n \in 1..k2 : r = ledger'[n]  BY <2>1
    <3>2. CASE n = k2  BY <1>5, <3>1, <3>2
    <3>3. CASE n # k2
      <4>1. ledger'[n] = ledger[old(n)] /\ old(n) \in 1..k /\ ~SameKey(ledger'[n], row)
        BY <1>6, <3>3
      <4> HIDE DEF old
      <4>2. QED BY <2>1, <3>1, <4>1
    <3>4. QED BY <3>2, <3>3
  <2>3. ASSUME NEW r \in Rows, ~SameKey(r, row) PROVE r \in Rows'
    <3>1. PICK n \in 1..k : r = ledger[n]  BY <2>1
    <3>2. n # d
      <4> SUFFICES ASSUME n = d PROVE FALSE  OBVIOUS
      <4>1. SameKey(ledger[d], row)  BY <1>1 DEF Replaced
      <4>2. QED BY <2>3, <3>1, <4>1
    <3>3. PICK m \in 1..k2 : m # k2 /\ old(m) = n  BY <1>7, <3>2
    <3>4. ledger'[m] = ledger[old(m)]  BY <1>6, <3>3
    <3> HIDE DEF old
    <3>5. QED BY <2>1, <3>1, <3>3, <3>4
  <2>4. row \in Rows'  BY <1>5, <2>1
  <2>5. QED BY <2>2, <2>3, <2>4
<1>9. RowsAreKeyed'
  <2> SUFFICES ASSUME NEW m \in 1..k2, NEW n \in 1..k2, SameKey(ledger'[m], ledger'[n]) PROVE m = n
    BY <1>0 DEF RowsAreKeyed
  <2>1. CASE m = k2 /\ n # k2
    <3>1. ~SameKey(ledger'[n], row)  BY <1>6, <2>1
    <3>2. QED BY <1>5, <2>1, <3>1 DEF SameKey
  <2>2. CASE m # k2 /\ n = k2
    <3>1. ~SameKey(ledger'[m], row)  BY <1>6, <2>2
    <3>2. QED BY <1>5, <2>2, <3>1 DEF SameKey
  <2>3. CASE m # k2 /\ n # k2
    <3>1. ledger'[m] = ledger[old(m)] /\ old(m) \in 1..k  BY <1>6, <2>3
    <3>2. ledger'[n] = ledger[old(n)] /\ old(n) \in 1..k  BY <1>6, <2>3
    <3>3. old(m) = old(n)
      <4> HIDE DEF old
      <4>1. QED BY <1>0, <3>1, <3>2 DEF RowsAreKeyed
    <3>4. QED BY <1>3, <3>3
  <2>4. QED BY <2>1, <2>2, <2>3
<1>10. QED BY <1>2, <1>8, <1>9

-----------------------------------------------------------------------------
(* What the rows satisfy, apart from the run.                               *)

RowInv ==
  /\ ledger \in Seq(Row)
  /\ RowsAreKeyed
  /\ RowsNamePages
  /\ OneSuccess
  /\ PagesAreOwned

RunInv ==
  /\ OrphanIsRecorded
  /\ run.at \in Writing \cup {"digest", "retire"} => run.todo # {}
  /\ NamesAreHeld
  /\ PageIsOfJob
  /\ NoSuccessYet
  /\ PreviousIsFollowed

Quiet == {"idle", "sweep", "scan", "next"}

LEMMA QuietRun ==
  ASSUME run'.at \in Quiet
  PROVE  RunInv'
<1>1. /\ run'.at \notin Sweeping /\ run'.at \notin Writing \cup {"digest", "retire"}
      /\ run'.at \notin Written /\ run'.at # "record" /\ run'.at # "retire"
      /\ run'.at \notin Writing \cup {"retire"}
  BY DEF Quiet, Sweeping, Writing, Written
<1>2. QED
  BY <1>1 DEF RunInv, OrphanIsRecorded, NamesAreHeld, PageIsOfJob, NoSuccessYet, PreviousIsFollowed

LEMMA GotoPhase ==
  ASSUME run \in RunMemory, NEW phase \in Phases, run' = [run EXCEPT !.at = phase]
  PROVE  /\ run' \in RunMemory
         /\ run'.at = phase /\ run'.todo = run.todo /\ run'.orphan = run.orphan
         /\ run'.page = run.page /\ run'.previous = run.previous
         /\ Job' = Job
<1>1. run' \in RunMemory  BY DEF RunMemory
<1>2. /\ run'.at = phase /\ run'.todo = run.todo /\ run'.orphan = run.orphan
      /\ run'.page = run.page /\ run'.previous = run.previous
  BY DEF RunMemory
<1>3. Job' = Job  BY <1>2 DEF Job
<1>4. QED BY <1>1, <1>2, <1>3

LEMMA BackToScan ==
  ASSUME run \in RunMemory, run' = [run EXCEPT !.at = "scan", !.orphan = NoRow]
  PROVE  run' \in RunMemory /\ run'.at = "scan"
BY DEF RunMemory, Phases

LEMMA IdleAndDone ==
  ASSUME run \in RunMemory
  PROVE  /\ IdleRun \in RunMemory /\ IdleRun.at = "idle"
         /\ Done \in RunMemory /\ Done.at = "next"
<1>1. IdleRun \in RunMemory /\ IdleRun.at = "idle"  BY DEF IdleRun, RunMemory, Phases
<1>2. run.todo \in SUBSET (Sources \X Contents)  BY DEF RunMemory
<1>3. Done \in RunMemory /\ Done.at = "next"  BY <1>1, <1>2 DEF Done, RunMemory, Phases
<1>4. QED BY <1>1, <1>3

LEMMA RowsAreTyped ==
  ASSUME ledger \in Seq(Row)
  PROVE  Rows \subseteq Row /\ SuccessRows \subseteq Row
BY DEF Rows, ToSet, SuccessRows

LEMMA FailedRowTyped ==
  ASSUME TypeOK, NEW s \in Sources, NEW c \in Contents, NEW class
  PROVE  LET row == FailedRow(s, c, class) IN
         /\ row \in Row /\ row.page = NoName /\ row.status # "success"
         /\ row.source = s /\ row.content = c
<1>1. attemptsOf(s, c) \in Nat
  <2>1. CASE RowsFor(s, c) = {}  BY <2>1 DEF attemptsOf
  <2>2. CASE RowsFor(s, c) # {}
    <3>1. (CHOOSE r \in RowsFor(s, c) : TRUE) \in RowsFor(s, c)  BY <2>2
    <3>2. \A r \in RowsFor(s, c) : r.attempts \in Nat
      BY RowsAreTyped DEF RowsFor, TypeOK, Row
    <3>3. QED BY <2>2, <3>1, <3>2 DEF attemptsOf
  <2>3. QED BY <2>1, <2>2
<1>2. profile \in Nat  BY DEF TypeOK
<1>3. attemptsOf(s, c) + (IF class = "permanent" THEN 1 ELSE 0) \in Nat  BY <1>1
<1>4. QED BY <1>2, <1>3 DEF FailedRow, Row, Statuses

(* A row that is no success and names no page of its own is always welcome.   *)
LEMMA FailureKeepsRows ==
  ASSUME IngestAssumption, TypeOK, RowInv, NEW s \in Sources, NEW c \in Contents, NEW class,
         ledger' = Upsert(FailedRow(s, c, class)), pages' = pages
  PROVE  RowInv'
<1>1. PICK row \in Row : /\ ledger' = Upsert(row)
                         /\ row.page = NoName /\ row.status # "success"
  BY FailedRowTyped
<1>2. /\ ledger' \in Seq(Row) /\ RowsAreKeyed'
      /\ Rows' = {r \in Rows : ~SameKey(r, row)} \cup {row}
  BY <1>1, UpsertRows DEF RowInv
<1>3. \A r \in Rows' : r \in Rows \/ r = row  BY <1>2
<1>4. \A r \in SuccessRows' : r \in SuccessRows /\ r \in Rows
  BY <1>1, <1>3 DEF SuccessRows
<1>5. RowsNamePages'  BY <1>1, <1>3 DEF RowInv, RowsNamePages
<1>6. OneSuccess'  BY <1>4 DEF RowInv, OneSuccess
<1>7. PagesAreOwned'  BY <1>1, <1>3, <1>4 DEF RowInv, PagesAreOwned
<1>8. QED BY <1>2, <1>5, <1>6, <1>7 DEF RowInv

LEMMA RowsStay ==
  ASSUME RowInv, UNCHANGED <<ledger, pages>>
  PROVE  RowInv'
BY DEF RowInv, RowsAreKeyed, RowsNamePages, OneSuccess, PagesAreOwned, Rows, SuccessRows

(* Pages that are taken away do not change who owns the others.               *)
LEMMA PagesGo ==
  ASSUME RowInv, UNCHANGED ledger,
         \A p \in PageNames : \/ pages'[p] = pages[p] \/ pages'[p] = NoPage
                              \/ pages[p] # NoPage /\ pages'[p].source = pages[p].source,
         \A r \in SuccessRows : r.page \in PageNames
  PROVE  RowInv'
<1>1. Rows' = Rows /\ SuccessRows' = SuccessRows  BY DEF Rows, SuccessRows
<1>2. PagesAreOwned'  BY <1>1 DEF RowInv, PagesAreOwned
<1>3. QED BY <1>1, <1>2 DEF RowInv, RowsAreKeyed, RowsNamePages, OneSuccess

LEMMA SuccessesNamePages ==
  ASSUME ledger \in Seq(Row), RowsNamePages
  PROVE  \A r \in SuccessRows : r.page \in PageNames
BY RowsAreTyped DEF RowsNamePages, SuccessRows, Row

-----------------------------------------------------------------------------
(* The invariant, action by action.                                         *)

LEMMA Unpack ==
  ASSUME IInv
  PROVE  /\ TypeOK /\ RowInv /\ RunInv /\ run \in RunMemory /\ pages \in [PageNames -> Page \cup {NoPage}]
         /\ \A r \in SuccessRows : r.page \in PageNames
<1>1. TypeOK /\ RowInv /\ RunInv  BY DEF IInv, RowInv, RunInv, TypeOK
<1>2. QED BY <1>1, SuccessesNamePages DEF RowInv, TypeOK

LEMMA Pack ==
  ASSUME TypeOK', RowInv', RunInv'
  PROVE  IInv'
BY DEF IInv, RowInv, RunInv, TypeOK

LEMMA TypesStay ==
  ASSUME TypeOK, UNCHANGED <<files, ledger, pages, archived, index, profile>>, run' \in RunMemory
  PROVE  TypeOK'
BY DEF TypeOK

(* Steps of the run that only look.                                          *)
LEMMA LookingKeeps ==
  ASSUME IngestAssumption, IInv,
         StartRun \/ SweepLooks \/ SweepRechecks \/ Scan \/ NextSource \/ Deferred \/ Killed
  PROVE  IInv'
<1>1. /\ TypeOK /\ RowInv /\ RunInv /\ run \in RunMemory  BY Unpack
<1>2. UNCHANGED <<files, ledger, pages, archived, index, profile>>
  BY DEF StartRun, SweepLooks, SweepRechecks, Scan, NextSource, Deferred, Killed
<1>3. SuccessRows' = SuccessRows  BY <1>2 DEF SuccessRows, Rows
<1>4. run' \in RunMemory /\ RunInv'
  <2>1. CASE StartRun
    <3>1. run' = [run EXCEPT !.at = "sweep"] /\ "sweep" \in Phases  BY <2>1 DEF StartRun, Goto, Phases
    <3>2. QED BY <1>1, <3>1, GotoPhase, QuietRun DEF Quiet
  <2>2. CASE SweepLooks
    <3>1. CASE Ambiguous
      <4>1. run' = [run EXCEPT !.at = "scan"] /\ "scan" \in Phases
        BY <2>2, <3>1 DEF SweepLooks, Phases
      <4>2. QED BY <1>1, <4>1, GotoPhase, QuietRun DEF Quiet
    <3>2. CASE ~Ambiguous
      <4>1. run' = [run EXCEPT !.at = "recheck", !.orphan = CHOOSE r \in orphanCandidates : TRUE]
        BY <2>2, <3>2 DEF SweepLooks
      <4>2. orphanCandidates # {}
        <5>1. Cardinality({}) = 0  BY FS_EmptySet
        <5>2. Cardinality(orphanCandidates) = 1  BY <3>2 DEF Ambiguous
        <5>3. Cardinality(orphanCandidates) # Cardinality({})  BY <5>1, <5>2
        <5>4. QED BY <5>3, Zenon
      <4>3. PICK o \in orphanCandidates : run' = [run EXCEPT !.at = "recheck", !.orphan = o]
        BY <4>1, <4>2
      <4>4. o \in SuccessRows /\ o \in Row
        BY <1>1, RowsAreTyped DEF orphanCandidates, RowInv
      <4>5. run' \in RunMemory /\ run'.at = "recheck" /\ run'.orphan = o
        BY <1>1, <4>3, <4>4 DEF RunMemory, Phases
      <4>6. RunInv'
        BY <1>3, <4>4, <4>5 DEF RunInv, OrphanIsRecorded, NamesAreHeld, PageIsOfJob, NoSuccessYet,
           PreviousIsFollowed, Writing, Written
      <4>7. QED BY <4>5, <4>6
    <3>3. QED BY <3>1, <3>2
  <2>3. CASE SweepRechecks
    <3>1. CASE run' = [run EXCEPT !.at = "scan", !.orphan = NoRow]
      BY <1>1, <3>1, BackToScan, QuietRun DEF Quiet
    <3>2. CASE run' = [run EXCEPT !.at = "move"]
      <4>1. run' \in RunMemory /\ run'.at = "move" /\ run'.orphan = run.orphan
        BY <1>1, <3>2, GotoPhase DEF Phases
      <4>2. run.orphan \in SuccessRows
        BY <1>1, <2>3 DEF SweepRechecks, RunInv, OrphanIsRecorded, Sweeping
      <4>3. RunInv'
        BY <1>3, <4>1, <4>2 DEF RunInv, OrphanIsRecorded, NamesAreHeld, PageIsOfJob, NoSuccessYet,
           PreviousIsFollowed, Writing, Written
      <4>4. QED BY <4>1, <4>3
    <3>3. QED BY <2>3, <3>1, <3>2 DEF SweepRechecks
  <2>4. CASE Scan
    <3> DEFINE found == {<<s, files[s]>> : s \in {s \in Sources : files[s] # Gone}}
    <3>1. run' = [run EXCEPT !.at = "next", !.todo = found]  BY <2>4 DEF Scan
    <3>2. found \in SUBSET (Sources \X Contents)  BY <1>1 DEF TypeOK
    <3> HIDE DEF found
    <3>3. run' \in RunMemory /\ run'.at = "next"  BY <1>1, <3>1, <3>2 DEF RunMemory, Phases
    <3>4. QED BY <3>3, QuietRun DEF Quiet
  <2>5. CASE NextSource
    <3>1. CASE run' = IdleRun \/ run' = Done
      BY <1>1, <3>1, IdleAndDone, QuietRun DEF Quiet
    <3>2. CASE run.todo # {} /\ run' = [run EXCEPT !.at = "digest"]
      <4>1. run' \in RunMemory /\ run'.at = "digest" /\ run'.todo # {}
        BY <1>1, <3>2, GotoPhase DEF Phases
      <4>2. RunInv'
        BY <4>1 DEF RunInv, OrphanIsRecorded, NamesAreHeld, PageIsOfJob, NoSuccessYet,
           PreviousIsFollowed, Sweeping, Writing, Written
      <4>3. QED BY <4>1, <4>2
    <3>3. QED BY <2>5, <3>1, <3>2 DEF NextSource
  <2>6. CASE Deferred
    BY <1>1, <2>6, IdleAndDone, QuietRun DEF Deferred, Quiet
  <2>7. CASE Killed
    BY <1>1, <2>7, IdleAndDone, QuietRun DEF Killed, Quiet
  <2>8. QED BY <2>1, <2>2, <2>3, <2>4, <2>5, <2>6, <2>7
<1>5. TypeOK' /\ RowInv'  BY <1>1, <1>2, <1>4, TypesStay, RowsStay
<1>6. QED BY <1>4, <1>5, Pack

(* Steps that record a failure and go on with the next source.               *)
LEMMA FailingKeeps ==
  ASSUME IngestAssumption, IInv, DigestFails \/ WriteFails
  PROVE  IInv'
<1>1. /\ TypeOK /\ RowInv /\ RunInv /\ run \in RunMemory  BY Unpack
<1>2. /\ UNCHANGED <<files, pages, archived, index, profile>> /\ run' = Done
      /\ run.at \in Writing \cup {"digest", "retire"}
      /\ UNCHANGED ledger \/ \E class : ledger' = Upsert(FailedRow(Job[1], Job[2], class))
  BY DEF DigestFails, WriteFails, InfraFailure, recordFailure, Writing
<1>3. Job[1] \in Sources /\ Job[2] \in Contents
  BY <1>1, <1>2, JobIsFirst DEF RunInv, RunMemory
<1>4. run' \in RunMemory /\ RunInv'  BY <1>1, <1>2, IdleAndDone, QuietRun DEF Quiet
<1>5. RowInv'
  <2>1. CASE UNCHANGED ledger  BY <1>1, <1>2, <2>1, RowsStay
  <2>2. CASE \E class : ledger' = Upsert(FailedRow(Job[1], Job[2], class))
    BY <1>1, <1>2, <1>3, <2>2, FailureKeepsRows
  <2>3. QED BY <1>2, <2>1, <2>2
<1>6. TypeOK'  BY <1>1, <1>2, <1>4, <1>5 DEF TypeOK, RowInv
<1>7. QED BY <1>4, <1>5, <1>6, Pack

LEMMA MovingKeeps ==
  ASSUME IngestAssumption, IInv, SweepMoves
  PROVE  IInv'
<1>1. /\ TypeOK /\ RowInv /\ RunInv /\ run \in RunMemory
      /\ pages \in [PageNames -> Page \cup {NoPage}]
      /\ \A r \in SuccessRows : r.page \in PageNames
  BY Unpack
<1> DEFINE src == run.orphan.page
           dst == archivedWikiPath(run.orphan)
<1>2. /\ run.at = "move" /\ UNCHANGED <<files, ledger, index, profile>>
      /\ \/ UNCHANGED <<pages, archived>>
         \/ pages' = [pages EXCEPT ![src] = NoPage] /\ archived' = archived \cup {dst}
      /\ \/ run' = [run EXCEPT !.at = "supersedeOrphan"]
         \/ run' = [run EXCEPT !.at = "scan", !.orphan = NoRow]
  BY DEF SweepMoves, Goto
<1>3. run.orphan \in SuccessRows /\ run.orphan \in Row
  BY <1>1, <1>2, RowsAreTyped DEF RunInv, OrphanIsRecorded, Sweeping, RowInv
<1>4. src \in PageNames /\ dst \in PageNames \X Contents
  BY <1>1, <1>3 DEF archivedWikiPath, Row
<1> HIDE DEF src, dst
<1>5. pages' \in [PageNames -> Page \cup {NoPage}] /\ archived' \subseteq PageNames \X Contents
  BY <1>1, <1>2, <1>4 DEF TypeOK
<1>6. \A p \in PageNames : pages'[p] = pages[p] \/ pages'[p] = NoPage
  BY <1>1, <1>2
<1>7. RowInv'  BY <1>1, <1>2, <1>6, PagesGo
<1>8. SuccessRows' = SuccessRows  BY <1>2 DEF SuccessRows, Rows
<1>9. run' \in RunMemory /\ RunInv'
  <2>1. CASE run' = [run EXCEPT !.at = "scan", !.orphan = NoRow]
    BY <1>1, <2>1, BackToScan, QuietRun DEF Quiet
  <2>2. CASE run' = [run EXCEPT !.at = "supersedeOrphan"]
    <3>1. run' \in RunMemory /\ run'.at = "supersedeOrphan" /\ run'.orphan = run.orphan
      BY <1>1, <2>2, GotoPhase DEF Phases
    <3>2. RunInv'
      BY <1>3, <1>8, <3>1 DEF RunInv, OrphanIsRecorded, NamesAreHeld, PageIsOfJob, NoSuccessYet,
         PreviousIsFollowed, Writing, Written
    <3>3. QED BY <3>1, <3>2
  <2>3. QED BY <1>2, <2>1, <2>2
<1>10. TypeOK'  BY <1>1, <1>2, <1>5, <1>9 DEF TypeOK
<1>11. QED BY <1>7, <1>9, <1>10, Pack

LEMMA ArchivingKeeps ==
  ASSUME IngestAssumption, IInv, SweepRecords
  PROVE  IInv'
<1>1. /\ TypeOK /\ RowInv /\ RunInv /\ run \in RunMemory
      /\ \A r \in SuccessRows : r.page \in PageNames
  BY Unpack
<1> DEFINE row == [run.orphan EXCEPT !.status = "superseded"]
<1>2. /\ run.at = "supersedeOrphan" /\ UNCHANGED <<files, pages, archived, index, profile>>
      /\ run' = [run EXCEPT !.at = "scan", !.orphan = NoRow]
      /\ ledger' = Upsert(row) \/ UNCHANGED ledger
  BY DEF SweepRecords
<1>3. run.orphan \in SuccessRows /\ run.orphan \in Row /\ run.orphan \in Rows
  BY <1>1, <1>2, RowsAreTyped DEF RunInv, OrphanIsRecorded, Sweeping, RowInv, SuccessRows
<1>4. /\ row \in Row /\ row.status = "superseded" /\ row.page = run.orphan.page
      /\ row.source = run.orphan.source
  BY <1>3 DEF Row, Statuses
<1> HIDE DEF row
<1>5. run' \in RunMemory /\ RunInv'  BY <1>1, <1>2, BackToScan, QuietRun DEF Quiet
<1>6. RowInv'
  <2>1. CASE UNCHANGED ledger  BY <1>1, <1>2, <2>1, RowsStay
  <2>2. CASE ledger' = Upsert(row)
    <3>1. /\ ledger' \in Seq(Row) /\ RowsAreKeyed'
          /\ Rows' = {r \in Rows : ~SameKey(r, row)} \cup {row}
      BY <1>1, <1>4, <2>2, UpsertRows DEF RowInv
    <3>2. \A r \in Rows' : \E q \in Rows : q.page = r.page /\ q.source = r.source
      BY <1>3, <1>4, <3>1
    <3>3. \A r \in SuccessRows' : r \in SuccessRows /\ r \in Rows
      BY <1>4, <3>1 DEF SuccessRows
    <3>4. RowsNamePages'
      <4>1. \A r \in Rows' : r.status = "success" => r \in Rows  BY <1>4, <3>1
      <4>2. QED BY <1>1, <3>2, <4>1 DEF RowInv, RowsNamePages
    <3>5. OneSuccess'  BY <1>1, <3>3 DEF RowInv, OneSuccess
    <3>6. PagesAreOwned'
      <4>1. ASSUME NEW q \in Rows', NEW r \in Rows', q.page = r.page, q.page # NoName
            PROVE  q.source = r.source
        <5>1. PICK q0 \in Rows : q0.page = q.page /\ q0.source = q.source  BY <3>2
        <5>2. PICK r0 \in Rows : r0.page = r.page /\ r0.source = r.source  BY <3>2
        <5>3. QED BY <1>1, <4>1, <5>1, <5>2 DEF RowInv, PagesAreOwned
      <4>2. \A r \in SuccessRows' : pages'[r.page] # NoPage => pages'[r.page].source = r.source
        BY <1>1, <1>2, <3>3 DEF RowInv, PagesAreOwned
      <4>3. QED BY <4>1, <4>2 DEF PagesAreOwned
    <3>7. QED BY <3>1, <3>4, <3>5, <3>6 DEF RowInv
  <2>3. QED BY <1>2, <2>1, <2>2
<1>7. TypeOK'  BY <1>1, <1>2, <1>5, <1>6 DEF TypeOK, RowInv
<1>8. QED BY <1>5, <1>6, <1>7, Pack

(* The page a source was last recorded with is in one of its rows.            *)
LEMMA PreviousIsOwn ==
  ASSUME ledger \in Seq(Row), NEW s, previousWikiPage(s) # NoName
  PROVE  \E r \in Rows : r.source = s /\ r.page = previousWikiPage(s)
<1> DEFINE own == {n \in DOMAIN ledger : /\ ledger[n].source = s
                                         /\ ledger[n].status \in {"success", "superseded"}
                                         /\ ledger[n].page # NoName}
<1>1. own # {} /\ previousWikiPage(s) = ledger[Max(own)].page  BY DEF previousWikiPage
<1>2. own \subseteq 1..Len(ledger) /\ Len(ledger) \in Nat  OBVIOUS
<1>3. Max(own) \in own
  <2> HIDE DEF own
  <2>1. QED BY <1>1, <1>2, GreatestIndex
<1>4. ledger[Max(own)] \in Rows /\ ledger[Max(own)].source = s  BY <1>3 DEF Rows, ToSet
<1>5. QED BY <1>1, <1>4

LEMMA DigestingKeeps ==
  ASSUME IngestAssumption, IInv, NEW s \in Sources, Digested(s)
  PROVE  IInv'
<1>1. /\ TypeOK /\ RowInv /\ RunInv /\ run \in RunMemory  BY Unpack
<1> DEFINE page == pagePath(s, Job[2])
           last == previousWikiPage(s)
           previous == IF last = NoName THEN page ELSE last
           evidence == HasEvidence(pages[previous])
<1>2. /\ run.at = "digest" /\ s = Job[1]
      /\ run' = [run EXCEPT !.at = "write", !.page = page, !.previous = previous, !.evidence = evidence]
      /\ UNCHANGED <<files, ledger, pages, archived, index, profile>>
  BY DEF Digested
<1>3. Job \in run.todo /\ Job[2] \in Contents /\ run.todo # {}
  BY <1>1, <1>2, JobIsFirst DEF RunInv, RunMemory
<1>4. PICK slug \in Slugs : slug = Slug[<<s, Job[2]>>]
  <2>1. PICK c \in Contents : c = Job[2]  BY <1>3
  <2>2. Slug \in [Sources \X Contents -> Slugs]  BY DEF IngestAssumption
  <2>3. Slug[<<s, c>>] \in Slugs  BY <2>2
  <2>4. QED BY <2>1, <2>3
<1>5. /\ page \in PageNames /\ page[2] \in {0, s} /\ page # NoName
      /\ ~wikiPageTakenByOther(page, s)
  <2>1. CASE wikiPageTakenByOther(<<slug, 0>>, s)
    <3>1. page = <<slug, s>>  BY <1>4, <2>1 DEF pagePath
    <3> HIDE DEF page
    <3>2. page \in PageNames /\ page[2] = s  BY <3>1 DEF PageNames
    <3>6. page # NoName  BY <3>2, Names
    <3>3. s # 0  BY Names
    <3>4. \A r \in Rows : r.page = page => r.source = s
      BY <1>1, <3>2, <3>3, <3>6 DEF RowInv, RowsNamePages
    <3>5. QED BY <3>2, <3>4, <3>6 DEF wikiPageTakenByOther
  <2>2. CASE ~wikiPageTakenByOther(<<slug, 0>>, s)
    <3>1. page = <<slug, 0>>  BY <1>4, <2>2 DEF pagePath
    <3> HIDE DEF page
    <3>2. page \in PageNames /\ page[2] = 0  BY <3>1 DEF PageNames
    <3>4. page # NoName  BY <3>2, Names
    <3>3. QED BY <2>2, <3>1, <3>2, <3>4
  <2>3. QED BY <2>1, <2>2
<1> HIDE DEF page
<1>6. previous \in PageNames /\ ~wikiPageTakenByOther(previous, s)
  <2>1. CASE last = NoName  BY <1>5, <2>1
  <2>2. CASE last # NoName
    <3>1. PICK r \in Rows : r.source = s /\ r.page = last
      BY <1>1, <2>2, PreviousIsOwn DEF RowInv
    <3> HIDE DEF last
    <3>2. \A q \in Rows : q.page = last => q.source = s
      BY <1>1, <2>2, <3>1 DEF RowInv, PagesAreOwned
    <3>3. last \in PageNames  BY <1>1, <2>2, <3>1, RowsAreTyped DEF RowInv, Row
    <3>4. QED BY <2>2, <3>2, <3>3 DEF wikiPageTakenByOther
  <2>3. QED BY <2>1, <2>2
<1> HIDE DEF previous
<1>7. evidence \in BOOLEAN  BY Zenon DEF HasEvidence
<1> HIDE DEF evidence
<1>8. /\ run' \in RunMemory /\ run'.at = "write" /\ run'.page = page /\ run'.previous = previous
      /\ run'.todo = run.todo
  BY <1>1, <1>2, <1>5, <1>6, <1>7 DEF RunMemory, Phases
<1>9. Job' = Job  BY <1>8 DEF Job
<1>10. \A p : wikiPageTakenByOther(p, s)' <=> wikiPageTakenByOther(p, s)
  BY <1>2 DEF wikiPageTakenByOther, Rows
<1>11. NamesAreHeld'
  BY <1>2, <1>5, <1>6, <1>8, <1>9, <1>10 DEF NamesAreHeld
<1>12. RunInv'
  BY <1>3, <1>8, <1>11 DEF RunInv, OrphanIsRecorded, PageIsOfJob, NoSuccessYet, PreviousIsFollowed,
     Sweeping, Written
<1>13. TypeOK' /\ RowInv'  BY <1>1, <1>2, <1>8, TypesStay, RowsStay
<1>14. QED BY <1>12, <1>13, Pack

LEMMA NewPageIsTyped ==
  ASSUME IngestAssumption, run \in RunMemory, run.todo # {}
  PROVE  NewPage \in Page /\ NewPage # NoPage /\ NewPage.source = Job[1]
<1>1. Job[1] \in Sources /\ Job[2] \in Contents  BY JobIsFirst DEF RunMemory
<1>2. run.evidence \in BOOLEAN  BY DEF RunMemory
<1>3. NewPage \in Page  BY <1>1, <1>2 DEF NewPage, Page
<1>4. NewPage.source = Job[1]  BY DEF NewPage
<1>5. QED BY <1>3, <1>4, Names

LEMMA WritingKeeps ==
  ASSUME IngestAssumption, IInv, WritePage \/ IndexPage
  PROVE  IInv'
<1>1. /\ TypeOK /\ RowInv /\ RunInv /\ run \in RunMemory
      /\ pages \in [PageNames -> Page \cup {NoPage}]
      /\ \A r \in SuccessRows : r.page \in PageNames
  BY Unpack
<1>2. run.at \in {"write", "add"} /\ UNCHANGED <<files, ledger, archived, profile>>
  BY DEF WritePage, IndexPage
<1>3. run.todo # {} /\ run.page \in PageNames /\ ~wikiPageTakenByOther(run.page, Job[1])
  BY <1>1, <1>2 DEF RunInv, NamesAreHeld, Writing
<1>4. PICK new \in Page : new = NewPage /\ new # NoPage /\ new.source = Job[1]
  BY <1>1, <1>3, NewPageIsTyped
<1>5. /\ run' \in RunMemory /\ run'.at \in {"add", "supersede"} /\ run'.todo = run.todo
      /\ run'.page = run.page /\ run'.previous = run.previous /\ Job' = Job
  BY <1>1, GotoPhase DEF WritePage, IndexPage, Goto, Phases
<1>6. Rows' = Rows /\ SuccessRows' = SuccessRows  BY <1>2 DEF Rows, SuccessRows
<1>7. /\ pages' \in [PageNames -> Page \cup {NoPage}]
      /\ index' \in [PageNames -> Page \cup {NoPage}]
      /\ pages' = pages \/ pages' = [pages EXCEPT ![run.page] = new]
      /\ pages'[run.page] = NoPage \/ pages'[run.page].source = Job[1]
  <2>1. index \in [PageNames -> Page \cup {NoPage}]  BY <1>1 DEF TypeOK
  <2>2. CASE WritePage
    <3>1. pages' = [pages EXCEPT ![run.page] = new] /\ index' = index  BY <1>4, <2>2 DEF WritePage
    <3>2. QED BY <1>1, <1>3, <1>4, <2>1, <3>1
  <2>3. CASE IndexPage
    <3>1. pages' = pages /\ index' = [index EXCEPT ![run.page] = new] /\ run.at = "add"
      BY <1>4, <2>3 DEF IndexPage
    <3>2. pages[run.page] = NoPage \/ pages[run.page].source = Job[1]
      BY <1>1, <3>1 DEF RunInv, PageIsOfJob, Written
    <3>3. QED BY <1>1, <1>3, <1>4, <2>1, <3>1, <3>2
  <2>4. QED BY <2>2, <2>3
<1>8. RowInv'
  <2>1. \A r \in SuccessRows : pages'[r.page] # NoPage => pages'[r.page].source = r.source
    <3> SUFFICES ASSUME NEW r \in SuccessRows, pages'[r.page] # NoPage
                 PROVE  pages'[r.page].source = r.source
      OBVIOUS
    <3>1. CASE r.page = run.page
      <4>1. r.source = Job[1]  BY <1>3, <3>1 DEF wikiPageTakenByOther, SuccessRows
      <4>2. QED BY <1>7, <3>1, <4>1
    <3>2. CASE r.page # run.page
      <4>1. pages'[r.page] = pages[r.page]  BY <1>1, <1>7, <3>2
      <4>2. QED BY <1>1, <4>1 DEF RowInv, PagesAreOwned
    <3>3. QED BY <3>1, <3>2
  <2>2. PagesAreOwned'  BY <1>1, <1>6, <2>1 DEF RowInv, PagesAreOwned
  <2>3. QED BY <1>1, <1>2, <1>6, <2>2 DEF RowInv, RowsAreKeyed, RowsNamePages, OneSuccess
<1>9. \A p, s : wikiPageTakenByOther(p, s)' <=> wikiPageTakenByOther(p, s)
  BY <1>6 DEF wikiPageTakenByOther
<1>10. NamesAreHeld'
  <2>1. NamesAreHeld /\ run.at \in Writing  BY <1>1, <1>2 DEF RunInv, Writing
  <2>2. QED BY <1>5, <1>9, <2>1 DEF NamesAreHeld
<1>11. RunInv'
  BY <1>3, <1>5, <1>7, <1>10 DEF RunInv, OrphanIsRecorded, PageIsOfJob, NoSuccessYet,
     PreviousIsFollowed, Sweeping
<1>12. TypeOK'  BY <1>1, <1>2, <1>5, <1>7 DEF TypeOK
<1>13. QED BY <1>8, <1>11, <1>12, Pack

(* UPDATE changes no row but its status.                                     *)
LEMMA SupersededRows ==
  ASSUME ledger \in Seq(Row), NEW s,
         ledger' = [n \in DOMAIN ledger |->
           IF ledger[n].source = s /\ ledger[n].status = "success"
           THEN [ledger[n] EXCEPT !.status = "superseded"] ELSE ledger[n]]
  PROVE  /\ ledger' \in Seq(Row)
         /\ DOMAIN ledger' = DOMAIN ledger
         /\ \A n \in DOMAIN ledger :
              /\ ledger'[n].source = ledger[n].source /\ ledger'[n].content = ledger[n].content
              /\ ledger'[n].page = ledger[n].page
              /\ ledger'[n].status \in {"success", "superseded"}
                   <=> ledger[n].status \in {"success", "superseded"}
              /\ ledger'[n].status = "success" => ledger'[n] = ledger[n] /\ ledger[n].source # s
<1>1. /\ DOMAIN ledger = 1..Len(ledger) /\ Len(ledger) \in Nat
      /\ \A n \in 1..Len(ledger) : ledger[n] \in Row
  OBVIOUS
<1>2. ASSUME NEW r \in Row
      PROVE  /\ [r EXCEPT !.status = "superseded"] \in Row
             /\ [r EXCEPT !.status = "superseded"].source = r.source
             /\ [r EXCEPT !.status = "superseded"].content = r.content
             /\ [r EXCEPT !.status = "superseded"].page = r.page
             /\ [r EXCEPT !.status = "superseded"].status = "superseded"
  BY DEF Row, Statuses
<1>3. DOMAIN ledger' = 1..Len(ledger)  BY <1>1
<1>4. ASSUME NEW n \in 1..Len(ledger)
      PROVE  /\ ledger'[n] \in Row
             /\ ledger'[n].source = ledger[n].source /\ ledger'[n].content = ledger[n].content
             /\ ledger'[n].page = ledger[n].page
             /\ ledger'[n].status \in {"success", "superseded"}
                  <=> ledger[n].status \in {"success", "superseded"}
             /\ ledger'[n].status = "success" => ledger'[n] = ledger[n] /\ ledger[n].source # s
  <2>1. PICK r \in Row : r = ledger[n]  BY <1>1
  <2>2. CASE r.source = s /\ r.status = "success"
    <3>1. ledger'[n] = [r EXCEPT !.status = "superseded"]  BY <1>1, <2>1, <2>2
    <3>2. QED BY <1>2, <2>1, <2>2, <3>1
  <2>3. CASE ~(r.source = s /\ r.status = "success")
    <3>1. ledger'[n] = r  BY <1>1, <2>1, <2>3
    <3>2. QED BY <2>1, <2>3, <3>1
  <2>4. QED BY <2>2, <2>3
<1>5. ledger' \in [1..Len(ledger) -> Row]  BY <1>1, <1>4
<1>6. ledger' \in Seq(Row)  BY <1>1, <1>5, SeqDef
<1>7. QED BY <1>1, <1>3, <1>4, <1>6

LEMMA SupersedingKeeps ==
  ASSUME IngestAssumption, IInv, SupersedePrevSuccess
  PROVE  IInv'
<1>1. /\ TypeOK /\ RowInv /\ RunInv /\ run \in RunMemory  BY Unpack
<1>2. /\ run.at = "supersede" /\ UNCHANGED <<files, pages, archived, index, profile>>
      /\ run' = [run EXCEPT !.at = "record"]
  BY DEF SupersedePrevSuccess, Goto
<1>3. /\ ledger' \in Seq(Row) /\ DOMAIN ledger' = DOMAIN ledger
      /\ \A n \in DOMAIN ledger :
           /\ ledger'[n].source = ledger[n].source /\ ledger'[n].content = ledger[n].content
           /\ ledger'[n].page = ledger[n].page
           /\ ledger'[n].status = "success" => ledger'[n] = ledger[n] /\ ledger[n].source # Job[1]
  <2>1. ledger' = [n \in DOMAIN ledger |->
          IF ledger[n].source = Job[1] /\ ledger[n].status = "success"
          THEN [ledger[n] EXCEPT !.status = "superseded"] ELSE ledger[n]]
    BY DEF SupersedePrevSuccess
  <2>2. ledger \in Seq(Row)  BY <1>1 DEF RowInv
  <2>3. QED BY <2>1, <2>2, SupersededRows
<1>4. /\ run' \in RunMemory /\ run'.at = "record" /\ run'.todo = run.todo
      /\ run'.page = run.page /\ run'.previous = run.previous /\ Job' = Job
  BY <1>1, <1>2, GotoPhase DEF Phases
<1>5. Rows = {ledger[n] : n \in DOMAIN ledger} /\ Rows' = {ledger'[n] : n \in DOMAIN ledger}
  BY <1>3 DEF Rows, ToSet
<1>6. \A r \in Rows' : \E q \in Rows :
        /\ q.source = r.source /\ q.page = r.page
        /\ r.status = "success" => q = r /\ r.source # Job[1]
  <2> TAKE r \in Rows'
  <2>1. PICK n \in DOMAIN ledger : r = ledger'[n]  BY <1>5
  <2>2. ledger[n] \in Rows  BY <1>5
  <2>3. QED BY <1>3, <2>1, <2>2
<1>7. \A r \in SuccessRows' : r \in SuccessRows /\ r.source # Job[1]  BY <1>6 DEF SuccessRows
<1>8. RowInv'
  <2>1. RowsAreKeyed'  BY <1>1, <1>3 DEF RowInv, RowsAreKeyed, SameKey
  <2>2. RowsNamePages'
    <3> SUFFICES ASSUME NEW r \in Rows'
                 PROVE  /\ r.status = "success" => r.page # NoName
                        /\ r.page # NoName => r.page[2] \in {0, r.source}
      BY DEF RowsNamePages
    <3>1. PICK q \in Rows : /\ q.source = r.source /\ q.page = r.page
                            /\ r.status = "success" => q = r
      BY <1>6
    <3>2. QED BY <1>1, <3>1 DEF RowInv, RowsNamePages
  <2>3. OneSuccess'  BY <1>1, <1>7 DEF RowInv, OneSuccess
  <2>4. \A q, r \in Rows' : q.page = r.page /\ q.page # NoName => q.source = r.source
    <3> SUFFICES ASSUME NEW q \in Rows', NEW r \in Rows', q.page = r.page, q.page # NoName
                 PROVE  q.source = r.source
      OBVIOUS
    <3>1. PICK q0 \in Rows : q0.page = q.page /\ q0.source = q.source  BY <1>6
    <3>2. PICK r0 \in Rows : r0.page = r.page /\ r0.source = r.source  BY <1>6
    <3>3. QED BY <1>1, <3>1, <3>2 DEF RowInv, PagesAreOwned
  <2>5. \A r \in SuccessRows' : pages'[r.page] # NoPage => pages'[r.page].source = r.source
    BY <1>1, <1>2, <1>7 DEF RowInv, PagesAreOwned
  <2>6. PagesAreOwned'  BY <2>4, <2>5 DEF PagesAreOwned
  <2>7. QED BY <1>3, <2>1, <2>2, <2>3, <2>6 DEF RowInv
<1>9. \A p, s : ~wikiPageTakenByOther(p, s) => ~wikiPageTakenByOther(p, s)'
  BY <1>6 DEF wikiPageTakenByOther
<1>10. NamesAreHeld /\ run.at \in Writing /\ run.todo # {}  BY <1>1, <1>2 DEF RunInv, Writing
<1>11. NamesAreHeld'  BY <1>4, <1>9, <1>10 DEF NamesAreHeld
<1>12. PageIsOfJob'  BY <1>1, <1>2, <1>4 DEF RunInv, PageIsOfJob, Written
<1>13. NoSuccessYet'  BY <1>4, <1>7 DEF NoSuccessYet
<1>14. RunInv'
  BY <1>4, <1>10, <1>11, <1>12, <1>13 DEF RunInv, OrphanIsRecorded, PreviousIsFollowed, Sweeping
<1>15. TypeOK'  BY <1>1, <1>2, <1>3, <1>4 DEF TypeOK
<1>16. QED BY <1>8, <1>14, <1>15, Pack

LEMMA RecordingKeeps ==
  ASSUME IngestAssumption, IInv, RecordSuccess
  PROVE  IInv'
<1>1. /\ TypeOK /\ RowInv /\ RunInv /\ run \in RunMemory  BY Unpack
<1> DEFINE new == [source |-> Job[1], content |-> Job[2], status |-> "success",
                   page |-> run.page, attempts |-> 0, profile |-> profile]
<1>2. /\ run.at = "record" /\ UNCHANGED <<files, pages, archived, index, profile>>
      /\ ledger' = Upsert(new)
      /\ run' = IF run.previous = run.page THEN Done ELSE [run EXCEPT !.at = "retire"]
  BY DEF RecordSuccess
<1>3. /\ run.todo # {} /\ run.page \in PageNames /\ run.previous \in PageNames
      /\ run.page[2] \in {0, Job[1]}
      /\ ~wikiPageTakenByOther(run.page, Job[1]) /\ ~wikiPageTakenByOther(run.previous, Job[1])
      /\ pages[run.page] = NoPage \/ pages[run.page].source = Job[1]
      /\ \A r \in SuccessRows : r.source # Job[1]
  BY <1>1, <1>2 DEF RunInv, NamesAreHeld, PageIsOfJob, NoSuccessYet, Writing, Written
<1>4. Job[1] \in Sources /\ Job[2] \in Contents  BY <1>1, <1>3, JobIsFirst DEF RunMemory
<1>5. profile \in Nat  BY <1>1 DEF TypeOK
<1>6. PICK row \in Row :
        /\ row = new /\ row.source = Job[1] /\ row.page = run.page /\ row.status = "success"
  <2>1. new \in Row  BY <1>3, <1>4, <1>5 DEF Row, Statuses
  <2>2. QED BY <2>1
<1> HIDE DEF new
<1>7. /\ ledger' \in Seq(Row) /\ RowsAreKeyed'
      /\ Rows' = {r \in Rows : ~SameKey(r, row)} \cup {row}
  BY <1>1, <1>2, <1>6, UpsertRows DEF RowInv
<1>8. \A r \in Rows' : r \in Rows \/ r = row  BY <1>7
<1>9. row \in SuccessRows' /\ \A r \in SuccessRows' : r \in SuccessRows \/ r = row
  BY <1>6, <1>7 DEF SuccessRows
<1>10. RowInv'
  <2>1. run.page # NoName  BY <1>3, Names
  <2>2. RowsNamePages'  BY <1>1, <1>3, <1>6, <1>8, <2>1 DEF RowInv, RowsNamePages
  <2>3. OneSuccess'  BY <1>1, <1>3, <1>6, <1>9 DEF RowInv, OneSuccess
  <2>4. \A q \in Rows : q.page = row.page => q.source = row.source
    BY <1>3, <1>6 DEF wikiPageTakenByOther
  <2>5. \A q, r \in Rows' : q.page = r.page /\ q.page # NoName => q.source = r.source
    BY <1>1, <1>8, <2>4 DEF RowInv, PagesAreOwned
  <2>6. \A r \in SuccessRows' : pages'[r.page] # NoPage => pages'[r.page].source = r.source
    BY <1>1, <1>2, <1>3, <1>6, <1>9 DEF RowInv, PagesAreOwned
  <2>7. PagesAreOwned'  BY <2>5, <2>6 DEF PagesAreOwned
  <2>8. QED BY <1>7, <2>2, <2>3, <2>7 DEF RowInv
<1>11. run' \in RunMemory /\ RunInv'
  <2>1. CASE run.previous = run.page
    BY <1>1, <1>2, <2>1, IdleAndDone, QuietRun DEF Quiet
  <2>2. CASE run.previous # run.page
    <3>1. /\ run' \in RunMemory /\ run'.at = "retire" /\ run'.todo = run.todo
          /\ run'.page = run.page /\ run'.previous = run.previous /\ Job' = Job
      BY <1>1, <1>2, <2>2, GotoPhase DEF Phases
    <3>2. \A p : ~wikiPageTakenByOther(p, Job[1]) => \A r \in Rows' : r.page = p => r.source = Job[1]
      BY <1>6, <1>8 DEF wikiPageTakenByOther
    <3>3. ~wikiPageTakenByOther(run.page, Job[1])' /\ ~wikiPageTakenByOther(run.previous, Job[1])'
      BY <1>3, <3>1, <3>2 DEF wikiPageTakenByOther
    <3>4. NamesAreHeld'  BY <1>3, <3>1, <3>3 DEF NamesAreHeld
    <3>5. PageIsOfJob'  BY <1>2, <1>3, <3>1 DEF PageIsOfJob
    <3>6. PreviousIsFollowed'  BY <1>6, <1>9, <2>2, <3>1 DEF PreviousIsFollowed
    <3>7. RunInv'
      BY <1>3, <3>1, <3>4, <3>5, <3>6 DEF RunInv, OrphanIsRecorded, NoSuccessYet, Sweeping
    <3>8. QED BY <3>1, <3>7
  <2>3. QED BY <2>1, <2>2
<1>12. TypeOK'  BY <1>1, <1>2, <1>10, <1>11 DEF TypeOK, RowInv
<1>13. QED BY <1>10, <1>11, <1>12, Pack

LEMMA RetiringKeeps ==
  ASSUME IngestAssumption, IInv, RetirePrevious
  PROVE  IInv'
<1>1. /\ TypeOK /\ RowInv /\ RunInv /\ run \in RunMemory
      /\ pages \in [PageNames -> Page \cup {NoPage}]
      /\ \A r \in SuccessRows : r.page \in PageNames
  BY Unpack
<1>2. /\ run.at = "retire" /\ run' = Done /\ UNCHANGED <<files, ledger, archived, profile>>
      /\ index' = index \/ index' = [index EXCEPT ![run.previous] = NoPage]
      /\ \/ pages' = pages
         \/ pages' = [pages EXCEPT ![run.previous] =
                        IF pages[run.page] = NoPage THEN pages[run.previous] ELSE NoPage]
  BY DEF RetirePrevious
<1>3. run.previous \in PageNames  BY <1>1, <1>2 DEF RunInv, NamesAreHeld
<1>4. /\ pages' \in [PageNames -> Page \cup {NoPage}]
      /\ \A p \in PageNames : pages'[p] = pages[p] \/ pages'[p] = NoPage
  BY <1>1, <1>2, <1>3
<1>5. index' \in [PageNames -> Page \cup {NoPage}]  BY <1>1, <1>2 DEF TypeOK
<1>6. RowInv'  BY <1>1, <1>2, <1>4, PagesGo
<1>7. run' \in RunMemory /\ RunInv'  BY <1>1, <1>2, IdleAndDone, QuietRun DEF Quiet
<1>8. TypeOK'  BY <1>1, <1>2, <1>4, <1>5, <1>7 DEF TypeOK
<1>9. QED BY <1>6, <1>7, <1>8, Pack

(* What users and agents do beside the run.                                  *)
LEMMA UsersKeep ==
  ASSUME IngestAssumption, IInv,
         \/ Reconfigure
         \/ \E s \in Sources, to \in Contents \cup {Gone} : EditSource(s, to)
         \/ \E p \in PageNames : DeletePage(p) \/ AddEvidence(p)
  PROVE  IInv'
<1>1. /\ TypeOK /\ RowInv /\ RunInv /\ run \in RunMemory
      /\ pages \in [PageNames -> Page \cup {NoPage}]
      /\ \A r \in SuccessRows : r.page \in PageNames
  BY Unpack
<1>2. UNCHANGED <<ledger, archived, run>>  BY DEF Reconfigure, EditSource, DeletePage, AddEvidence
<1>3. /\ files' \in [Sources -> Contents \cup {Gone}]
      /\ profile' \in 1..MaxProfile
      /\ index' \in [PageNames -> Page \cup {NoPage}]
      /\ pages' \in [PageNames -> Page \cup {NoPage}]
      /\ \A p \in PageNames : \/ pages'[p] = pages[p] \/ pages'[p] = NoPage
                              \/ pages[p] # NoPage /\ pages'[p].source = pages[p].source
  <2>1. CASE Reconfigure
    <3>1. MaxProfile \in Nat /\ profile \in 1..MaxProfile  BY <1>1 DEF TypeOK, IngestAssumption
    <3>2. profile' = profile + 1 /\ profile < MaxProfile  BY <2>1 DEF Reconfigure
    <3>3. profile' \in 1..MaxProfile  BY <3>1, <3>2
    <3>4. QED BY <1>1, <2>1, <3>3 DEF Reconfigure, TypeOK
  <2>2. ASSUME NEW s \in Sources, NEW to \in Contents \cup {Gone}, EditSource(s, to)
        PROVE  <1>3!1 /\ <1>3!2 /\ <1>3!3 /\ <1>3!4 /\ <1>3!5
    BY <1>1, <2>2 DEF EditSource, TypeOK
  <2>3. ASSUME NEW p \in PageNames, DeletePage(p)
        PROVE  <1>3!1 /\ <1>3!2 /\ <1>3!3 /\ <1>3!4 /\ <1>3!5
    BY <1>1, <2>3 DEF DeletePage, TypeOK
  <2>4. ASSUME NEW p \in PageNames, AddEvidence(p)
        PROVE  <1>3!1 /\ <1>3!2 /\ <1>3!3 /\ <1>3!4 /\ <1>3!5
    <3>1. pages[p] # NoPage /\ pages[p] \in Page  BY <1>1, <2>4 DEF AddEvidence
    <3>2. PICK new \in Page : new = [pages[p] EXCEPT !.evidence = TRUE] /\ new.source = pages[p].source
      <4>1. PICK old \in Page : old = pages[p]  BY <3>1
      <4>2. [old EXCEPT !.evidence = TRUE] \in Page  BY DEF Page
      <4>3. [old EXCEPT !.evidence = TRUE].source = old.source  BY DEF Page
      <4>4. QED BY <4>1, <4>2, <4>3
    <3>3. pages' = [pages EXCEPT ![p] = new]  BY <1>1, <2>4, <3>2 DEF AddEvidence
    <3>4. /\ pages' \in [PageNames -> Page \cup {NoPage}] /\ pages'[p] = new
          /\ \A q \in PageNames : q # p => pages'[q] = pages[q]
      BY <1>1, <3>3
    <3>5. index' = [index EXCEPT ![p] = new]  BY <2>4, <3>4 DEF AddEvidence
    <3>6. index' \in [PageNames -> Page \cup {NoPage}]  BY <1>1, <3>5 DEF TypeOK
    <3>7. \A q \in PageNames : \/ pages'[q] = pages[q] \/ pages'[q] = NoPage
                               \/ pages[q] # NoPage /\ pages'[q].source = pages[q].source
      BY <3>1, <3>2, <3>4
    <3>8. files' = files /\ profile' = profile  BY <2>4 DEF AddEvidence
    <3>9. QED BY <1>1, <3>4, <3>6, <3>7, <3>8 DEF TypeOK
  <2>5. QED BY <2>1, <2>2, <2>3, <2>4
<1>4. TypeOK'  BY <1>1, <1>2, <1>3 DEF TypeOK
<1>5. RowInv'  BY <1>1, <1>2, <1>3, PagesGo
<1>6. RunInv'
  <2>1. SuccessRows' = SuccessRows /\ Rows' = Rows /\ Job' = Job
    BY <1>2 DEF SuccessRows, Rows, Job
  <2>2. \A p, s : wikiPageTakenByOther(p, s)' <=> wikiPageTakenByOther(p, s)
    BY <2>1 DEF wikiPageTakenByOther
  <2>3. NamesAreHeld'
    <3>1. run'.at = run.at /\ run'.page = run.page /\ run'.previous = run.previous  BY <1>2
    <3>2. NamesAreHeld  BY <1>1 DEF RunInv
    <3>3. QED BY <2>1, <2>2, <3>1, <3>2 DEF NamesAreHeld
  <2>4. PageIsOfJob'
    <3>1. SUFFICES ASSUME run.at \in Written
                   PROVE  pages'[run.page] = NoPage \/ pages'[run.page].source = Job[1]
      BY <1>2, <2>1 DEF PageIsOfJob
    <3>2. run.page \in PageNames
      BY <1>1, <3>1 DEF RunInv, NamesAreHeld, Written, Writing
    <3>3. pages[run.page] = NoPage \/ pages[run.page].source = Job[1]
      BY <1>1, <3>1 DEF RunInv, PageIsOfJob
    <3>4. QED BY <1>3, <3>2, <3>3
  <2>5. QED BY <1>1, <1>2, <2>1, <2>3, <2>4
        DEF RunInv, OrphanIsRecorded, NoSuccessYet, PreviousIsFollowed
<1>7. QED BY <1>4, <1>5, <1>6, Pack

LEMMA StutteringKeeps ==
  ASSUME IInv, UNCHANGED vars
  PROVE  IInv'
<1>1. /\ TypeOK /\ RowInv /\ RunInv  BY Unpack
<1>2. /\ UNCHANGED <<files, ledger, pages, archived, index, profile, run>>  BY DEF vars
<1>3. TypeOK' /\ RowInv'  BY <1>1, <1>2, RowsStay DEF TypeOK
<1>4. SuccessRows' = SuccessRows /\ Rows' = Rows /\ Job' = Job
  BY <1>2 DEF SuccessRows, Rows, Job
<1>5. \A p, s : wikiPageTakenByOther(p, s)' <=> wikiPageTakenByOther(p, s)
  BY <1>4 DEF wikiPageTakenByOther
<1>6. NamesAreHeld'
  <2>1. run'.at = run.at /\ run'.page = run.page /\ run'.previous = run.previous  BY <1>2
  <2>2. QED BY <1>1, <1>4, <1>5, <2>1 DEF RunInv, NamesAreHeld
<1>7. RunInv'
  BY <1>1, <1>2, <1>4, <1>6 DEF RunInv, OrphanIsRecorded, PageIsOfJob, NoSuccessYet, PreviousIsFollowed
<1>8. QED BY <1>3, <1>7, Pack

LEMMA Initially ==
  ASSUME IngestAssumption, Init
  PROVE  IInv
<1>1. Rows = {} /\ SuccessRows = {} /\ DOMAIN ledger = {} /\ ledger \in Seq(Row)
  BY DEF Init, Rows, SuccessRows, ToSet
<1>2. run = IdleRun /\ IdleRun \in RunMemory /\ IdleRun.at = "idle"
  BY DEF Init, IdleRun, RunMemory, Phases
<1>3. profile \in 1..MaxProfile  BY DEF Init, IngestAssumption
<1>4. TypeOK  BY <1>1, <1>2, <1>3 DEF Init, TypeOK
<1>5. RowsAreKeyed /\ RowsNamePages /\ OneSuccess /\ PagesAreOwned
  BY <1>1 DEF RowsAreKeyed, RowsNamePages, OneSuccess, PagesAreOwned
<1>6. QED
  BY <1>2, <1>4, <1>5 DEF IInv, OrphanIsRecorded, NamesAreHeld, PageIsOfJob, NoSuccessYet,
     PreviousIsFollowed, Sweeping, Writing, Written

LEMMA StepKeeps ==
  ASSUME IngestAssumption, IInv, [Next]_vars
  PROVE  IInv'
<1>1. ASSUME NEW s \in Sources, Digested(s) PROVE IInv'  BY <1>1, DigestingKeeps
<1>2. QED
  BY <1>1, LookingKeeps, FailingKeeps, MovingKeeps, ArchivingKeeps, WritingKeeps, SupersedingKeeps,
     RecordingKeeps, RetiringKeeps, UsersKeep, StutteringKeeps DEF Next

(* The inductive invariant: whose page is whose, and what the run has in hand.  *)
THEOREM IngestInvariantHolds == Spec => []IInv
<1>1. Init => IInv  BY Initially, IngestAssumption
<1>2. IInv /\ [Next]_vars => IInv'  BY StepKeeps, IngestAssumption
<1>3. QED BY <1>1, <1>2, PTL DEF Spec

(* Files, ledger, pages, index and memory keep their types.                   *)
THEOREM IngestTyped == Spec => []TypeOK
<1>1. IInv => TypeOK  BY DEF IInv
<1>2. QED BY <1>1, IngestInvariantHolds, PTL

(* A source has at most one success row, whichever writes failed.             *)
THEOREM SuccessIsUnique == Spec => []OneSuccess
<1>1. IInv => OneSuccess  BY DEF IInv
<1>2. QED BY <1>1, IngestInvariantHolds, PTL

(* Two sources never share a page.                                           *)
THEOREM PagesHaveOneOwner == Spec => []PagesAreOwned
<1>1. IInv => PagesAreOwned  BY DEF IInv
<1>2. QED BY <1>1, IngestInvariantHolds, PTL

-----------------------------------------------------------------------------
(* Action properties.                                                       *)

Counted == changes \in Nat

LEMMA ChangesAreCounted == Spec => []Counted
<1>1. Init => Counted  BY DEF Init, Counted
<1>2. Counted /\ [Next]_vars => Counted'
  <2> SUFFICES ASSUME Counted, [Next]_vars PROVE changes' = changes \/ changes' = changes + 1
    BY DEF Counted
  <2>1. CASE UNCHANGED vars  BY <2>1 DEF vars
  <2>2. CASE \E s \in Sources : Digested(s)  BY <2>2 DEF Digested
  <2>3. CASE \/ Reconfigure
             \/ \E s \in Sources, to \in Contents \cup {Gone} : EditSource(s, to)
             \/ \E p \in PageNames : DeletePage(p) \/ AddEvidence(p)
    BY <2>3 DEF Reconfigure, EditSource, DeletePage, AddEvidence, Change
  <2>4. CASE StartRun \/ SweepLooks \/ SweepRechecks \/ SweepMoves \/ SweepRecords \/ Scan
             \/ NextSource \/ Deferred \/ DigestFails
    BY <2>4 DEF StartRun, SweepLooks, SweepRechecks, SweepMoves, SweepRecords, Scan, NextSource,
       Deferred, DigestFails
  <2>5. CASE WritePage \/ IndexPage \/ SupersedePrevSuccess \/ RecordSuccess \/ WriteFails
             \/ RetirePrevious \/ Killed
    BY <2>5 DEF WritePage, IndexPage, SupersedePrevSuccess, RecordSuccess, WriteFails, InfraFailure,
       RetirePrevious, Killed
  <2>6. QED BY <2>1, <2>2, <2>3, <2>4, <2>5 DEF Next
<1>3. QED BY <1>1, <1>2, PTL DEF Spec

(* While users leave it alone, only four steps of the run write pages or rows,  *)
(* and only four others write rows.                                         *)
LEMMA RunStepsOnly ==
  ASSUME Counted, [Next]_vars, changes' = changes
  PROVE  \/ UNCHANGED <<ledger, pages>>
         \/ SweepMoves \/ WritePage \/ RetirePrevious
         \/ SweepRecords \/ DigestFails \/ WriteFails \/ SupersedePrevSuccess \/ RecordSuccess
<1>1. CASE UNCHANGED vars  BY <1>1 DEF vars
<1>2. CASE \E s \in Sources : Digested(s)  BY <1>2 DEF Digested
<1>3. CASE \/ Reconfigure
           \/ \E s \in Sources, to \in Contents \cup {Gone} : EditSource(s, to)
           \/ \E p \in PageNames : DeletePage(p) \/ AddEvidence(p)
  <2>1. changes' = changes + 1  BY <1>3 DEF Reconfigure, EditSource, DeletePage, AddEvidence, Change
  <2>2. QED BY <2>1 DEF Counted
<1>4. CASE StartRun \/ SweepLooks \/ SweepRechecks \/ Scan \/ NextSource \/ Deferred \/ IndexPage
           \/ Killed
  BY <1>4 DEF StartRun, SweepLooks, SweepRechecks, Scan, NextSource, Deferred, IndexPage, Killed
<1>5. QED BY <1>1, <1>2, <1>3, <1>4 DEF Next

LEMMA StepLosesNoPage ==
  ASSUME IngestAssumption, IInv, Counted, [Next]_vars, changes' = changes,
         NEW r \in SuccessRows, pages[r.page] # NoPage
  PROVE  HasPage(r.source, pages') \/ archivedWikiPath(r) \in archived' \ archived
<1>1. /\ TypeOK /\ RowInv /\ RunInv /\ run \in RunMemory
      /\ pages \in [PageNames -> Page \cup {NoPage}] /\ r.page \in PageNames
  BY Unpack
<1>2. pages[r.page].source = r.source /\ r \in Rows
  BY <1>1 DEF RowInv, PagesAreOwned, SuccessRows
<1>3. CASE pages'[r.page] = pages[r.page]  BY <1>1, <1>2, <1>3 DEF HasPage
<1>4. CASE SweepMoves
  <2>1. run.orphan \in SuccessRows /\ run.orphan \in Rows
    BY <1>1, <1>4 DEF SweepMoves, RunInv, OrphanIsRecorded, Sweeping, SuccessRows
  <2>2. CASE r.page = run.orphan.page
    <3>1. r.page # NoName  BY <1>1, <1>2 DEF RowInv, RowsNamePages, SuccessRows
    <3>2. r = run.orphan
      BY <1>1, <1>2, <2>1, <2>2, <3>1 DEF RowInv, PagesAreOwned, OneSuccess
    <3>3. pages' = pages \/ archivedWikiPath(r) \in archived' \ archived
      BY <1>4, <3>2 DEF SweepMoves
    <3>4. QED BY <1>3, <3>3
  <2>3. CASE r.page # run.orphan.page
    <3>1. pages' = pages \/ pages' = [pages EXCEPT ![run.orphan.page] = NoPage]
      BY <1>4 DEF SweepMoves
    <3>2. pages'[r.page] = pages[r.page]  BY <1>1, <2>3, <3>1
    <3>3. QED BY <1>3, <3>2
  <2>4. QED BY <2>2, <2>3
<1>5. CASE WritePage
  <2>1. pages' = [pages EXCEPT ![run.page] = NewPage] /\ run.at = "write"  BY <1>5 DEF WritePage
  <2>2. /\ run.todo # {} /\ run.page \in PageNames /\ ~wikiPageTakenByOther(run.page, Job[1])
    BY <1>1, <2>1 DEF RunInv, NamesAreHeld, Writing
  <2>3. CASE r.page = run.page
    <3>1. r.source = Job[1]  BY <1>2, <2>2, <2>3 DEF wikiPageTakenByOther
    <3>2. PICK new \in Page : new = NewPage /\ new # NoPage /\ new.source = Job[1]
      BY <1>1, <2>2, NewPageIsTyped
    <3>3. pages'[run.page] = new  BY <1>1, <2>1, <2>2, <3>2
    <3>4. QED BY <2>2, <3>1, <3>2, <3>3 DEF HasPage
  <2>4. CASE r.page # run.page
    <3>1. pages'[r.page] = pages[r.page]  BY <1>1, <2>1, <2>4
    <3>2. QED BY <1>3, <3>1
  <2>5. QED BY <2>3, <2>4
<1>6. CASE RetirePrevious
  <2>1. /\ run.at = "retire"
        /\ \/ pages' = pages
           \/ pages' = [pages EXCEPT ![run.previous] =
                          IF pages[run.page] = NoPage THEN pages[run.previous] ELSE NoPage]
    BY <1>6 DEF RetirePrevious
  <2>2. /\ run.page \in PageNames /\ run.previous \in PageNames /\ run.previous # run.page
        /\ ~wikiPageTakenByOther(run.previous, Job[1])
        /\ pages[run.page] = NoPage \/ pages[run.page].source = Job[1]
    BY <1>1, <2>1 DEF RunInv, NamesAreHeld, PreviousIsFollowed, PageIsOfJob, Written
  <2>3. CASE r.page = run.previous /\ pages[run.page] # NoPage
    <3>1. r.source = Job[1]  BY <1>2, <2>2, <2>3 DEF wikiPageTakenByOther
    <3>2. pages'[run.page] = pages[run.page]  BY <1>1, <2>1, <2>2
    <3>3. QED BY <2>2, <2>3, <3>1, <3>2 DEF HasPage
  <2>4. CASE r.page # run.previous \/ pages[run.page] = NoPage
    <3>1. pages'[r.page] = pages[r.page]  BY <1>1, <2>1, <2>2, <2>4
    <3>2. QED BY <1>3, <3>1
  <2>5. QED BY <2>3, <2>4
<1>7. CASE pages' = pages  BY <1>3, <1>7
<1>8. QED
  BY <1>4, <1>5, <1>6, <1>7, RunStepsOnly
  DEF SweepRecords, DigestFails, WriteFails, InfraFailure, SupersedePrevSuccess, RecordSuccess

(* A run never takes the last page of a recorded source away, except into the   *)
(* archive.                                                                 *)
THEOREM PagesAreNotLost == Spec => NoPageIsLost
<1>1. IInv /\ Counted /\ [Next]_vars =>
        [run.at # "idle" /\ changes' = changes =>
           \A r \in SuccessRows : pages[r.page] # NoPage =>
             HasPage(r.source, pages') \/ archivedWikiPath(r) \in archived' \ archived]_vars
  BY StepLosesNoPage, IngestAssumption
<1>2. QED BY <1>1, IngestInvariantHolds, ChangesAreCounted, PTL DEF Spec, NoPageIsLost

-----------------------------------------------------------------------------
(* Research evidence.                                                       *)

(* Agents leave the pages alone from the read of the evidence to the new row.   *)
(* (Without that hypothesis the property fails: IngestRunAgent.cfg.)        *)
AgentsWait == AgentPhases \cap Writing = {}

(* previousWikiPage as a function of the rows.                               *)
Own(L, s) == {n \in DOMAIN L : /\ L[n].source = s
                               /\ L[n].status \in {"success", "superseded"}
                               /\ L[n].page # NoName}

PageOf(L, s) == IF Own(L, s) = {} THEN NoName ELSE L[Max(Own(L, s))].page

LEMMA PreviousIsPageOf ==
  \A s : previousWikiPage(s) = PageOf(ledger, s) /\ previousWikiPage(s)' = PageOf(ledger', s)
BY DEF previousWikiPage, PageOf, Own

LEMMA PageOfLast ==
  ASSUME NEW L, NEW k \in Nat, DOMAIN L = 1..k, NEW s, NEW n \in Own(L, s),
         \A m \in Own(L, s) : m <= n
  PROVE  PageOf(L, s) = L[n].page
<1>1. Own(L, s) \subseteq 1..k  BY DEF Own
<1>2. Max(Own(L, s)) \in Own(L, s) /\ \A y \in Own(L, s) : y <= Max(Own(L, s))
  BY <1>1, GreatestIndex
<1>3. Max(Own(L, s)) = n  BY <1>1, <1>2
<1>4. QED BY <1>3 DEF PageOf

(* What a new row does to the page a source was last recorded with.           *)
LEMMA PageOfReplaced ==
  ASSUME NEW L \in Seq(Row), NEW L2 \in Seq(Row), NEW row \in Row, NEW d, Replaced(L, L2, d, row),
         NEW s
  PROVE  /\ row.source = s /\ row.status \in {"success", "superseded"} /\ row.page # NoName
              => PageOf(L2, s) = row.page
         /\ row.source # s => PageOf(L2, s) = PageOf(L, s)
         /\ row.page = NoName => \/ PageOf(L2, s) = PageOf(L, s)
                                 \/ d \in 1..Len(L) /\ L[d].page = PageOf(L, s)
<1> DEFINE k == Len(L)
           k2 == Len(L2)
           old(n) == IF n < d THEN n ELSE n + 1
<1>0. DOMAIN L = 1..k /\ DOMAIN L2 = 1..k2 /\ k \in Nat /\ k2 \in Nat  OBVIOUS
<1>1. /\ d \in 1..(k + 1) /\ k2 = (IF d = k + 1 THEN k + 1 ELSE k) /\ L2[k2] = row
      /\ \A n \in 1..(k2 - 1) : L2[n] = L[IF n < d THEN n ELSE n + 1]
      /\ d \in 1..k => SameKey(L[d], row)
  BY DEF Replaced
<1> HIDE DEF k, k2
<1>2. d \in Nat /\ 1 <= d /\ k2 \in 1..k2  BY <1>0, <1>1
<1>3. ASSUME NEW n \in 1..(k2 - 1)
      PROVE  L2[n] = L[old(n)] /\ old(n) \in 1..k /\ old(n) # d /\ n \in 1..k2
  BY <1>0, <1>1, <1>2
<1>4. ASSUME NEW n \in 1..k, n # d
      PROVE  \E m \in 1..(k2 - 1) : old(m) = n
  <2>1. CASE n < d
    <3>1. n \in 1..(k2 - 1) /\ old(n) = n  BY <1>0, <1>1, <1>2, <2>1
    <3>2. QED BY <3>1
  <2>2. CASE ~(n < d)
    <3>1. n - 1 \in 1..(k2 - 1) /\ old(n - 1) = n  BY <1>0, <1>1, <1>2, <1>4, <2>2
    <3>2. QED BY <3>1
  <2>3. QED BY <2>1, <2>2
<1>5. ASSUME row.source = s, row.status \in {"success", "superseded"}, row.page # NoName
      PROVE  PageOf(L2, s) = row.page
  <2>1. k2 \in Own(L2, s)  BY <1>0, <1>1, <1>2, <1>5 DEF Own
  <2>2. \A m \in Own(L2, s) : m <= k2  BY <1>0 DEF Own
  <2>3. QED BY <1>0, <1>1, <2>1, <2>2, PageOfLast
<1>6. ASSUME row.source # s \/ row.page = NoName
      PROVE  PageOf(L2, s) = PageOf(L, s) \/ (d \in 1..k /\ L[d].page = PageOf(L, s) /\ L[d].source = s)
  <2>1. ASSUME NEW m \in Own(L2, s) PROVE m \in 1..(k2 - 1) /\ old(m) \in Own(L, s)
    <3>1. m \in 1..k2 /\ m # k2  BY <1>0, <1>1, <1>6 DEF Own
    <3>2. m \in 1..(k2 - 1)  BY <1>0, <3>1
    <3>3. L2[m] = L[old(m)] /\ old(m) \in 1..k  BY <1>3, <3>2
    <3> HIDE DEF old
    <3>4. QED BY <1>0, <3>2, <3>3 DEF Own
  <2>2. CASE Own(L, s) = {}
    <3>1. Own(L2, s) = {}  BY <2>1, <2>2
    <3>2. QED BY <2>2, <3>1 DEF PageOf
  <2>3. CASE Own(L, s) # {}
    <3> DEFINE n == Max(Own(L, s))
    <3>1. n \in Own(L, s) /\ \A y \in Own(L, s) : y <= n
      <4>1. Own(L, s) \subseteq 1..k  BY <1>0 DEF Own
      <4>2. QED BY <1>0, <2>3, <4>1, GreatestIndex
    <3>2. PageOf(L, s) = L[n].page  BY <2>3 DEF PageOf
    <3>3. n \in 1..k /\ L[n].source = s  BY <1>0, <3>1 DEF Own
    <3> HIDE DEF n
    <3>4. CASE n = d  BY <3>2, <3>3, <3>4
    <3>5. CASE n # d
      <4>1. PICK m \in 1..(k2 - 1) : old(m) = n  BY <1>4, <3>3, <3>5
      <4>2. L2[m] = L[n] /\ m \in 1..k2  BY <1>3, <4>1
      <4>3. m \in Own(L2, s)  BY <1>0, <3>1, <4>2 DEF Own
      <4>4. ASSUME NEW q \in Own(L2, s) PROVE q <= m
        <5>1. q \in 1..(k2 - 1) /\ old(q) <= n  BY <2>1, <3>1
        <5>2. QED BY <1>0, <1>2, <4>1, <5>1
      <4>5. PageOf(L2, s) = L2[m].page  BY <1>0, <4>3, <4>4, PageOfLast
      <4>6. QED BY <3>2, <4>2, <4>5
    <3>6. QED BY <3>4, <3>5
  <2>4. QED BY <2>2, <2>3
<1>7. ASSUME row.source # s PROVE PageOf(L2, s) = PageOf(L, s)
  <2>1. ~(d \in 1..k /\ L[d].source = s)  BY <1>1, <1>7 DEF SameKey
  <2>2. QED BY <1>6, <1>7, <2>1
<1>8. QED BY <1>5, <1>6, <1>7 DEF k

LEMMA PageOfSuperseded ==
  ASSUME ledger \in Seq(Row), ledger' \in Seq(Row), DOMAIN ledger' = DOMAIN ledger,
         \A n \in DOMAIN ledger :
           /\ ledger'[n].source = ledger[n].source /\ ledger'[n].page = ledger[n].page
           /\ ledger'[n].status \in {"success", "superseded"}
                <=> ledger[n].status \in {"success", "superseded"},
         NEW s
  PROVE  PageOf(ledger', s) = PageOf(ledger, s)
<1>1. Own(ledger', s) = Own(ledger, s)  BY DEF Own
<1>2. CASE Own(ledger, s) = {}  BY <1>1, <1>2 DEF PageOf
<1>3. CASE Own(ledger, s) # {}
  <2>1. Own(ledger, s) \subseteq 1..Len(ledger) /\ Len(ledger) \in Nat  BY DEF Own
  <2>2. Max(Own(ledger, s)) \in DOMAIN ledger  BY <1>3, <2>1, GreatestIndex
  <2>3. QED BY <1>1, <1>3, <2>2 DEF PageOf
<1>4. QED BY <1>2, <1>3

LEMMA SupersedingKeepsPages ==
  ASSUME ledger \in Seq(Row), SupersedePrevSuccess
  PROVE  \A s : PageOf(ledger', s) = PageOf(ledger, s)
<1> PICK j : j = Job[1]  OBVIOUS
<1>1. ledger' = [n \in DOMAIN ledger |->
        IF ledger[n].source = j /\ ledger[n].status = "success"
        THEN [ledger[n] EXCEPT !.status = "superseded"] ELSE ledger[n]]
  BY DEF SupersedePrevSuccess
<1>2. QED BY <1>1, SupersededRows, PageOfSuperseded

FollowsLast ==
  run.at \in Writing /\ previousWikiPage(Job[1]) # NoName => run.previous = previousWikiPage(Job[1])

EvidenceIsRead ==
  run.at \in Writing /\ HasEvidence(LastPage(Job[1])) => run.evidence

EvidenceIsWritten ==
  run.at \in Writing \ {"write"} /\ pages[run.page] # NoPage /\ run.evidence
    => HasEvidence(pages[run.page])

OrphanIsMoved == run.at = "supersedeOrphan" => pages[run.orphan.page] = NoPage

EInv == FollowsLast /\ EvidenceIsRead /\ EvidenceIsWritten /\ OrphanIsMoved

LEMMA NoEvidenceOnNoPage == ~HasEvidence(NoPage)
BY DEF HasEvidence

LEMMA NewPageEvidence ==
  ASSUME IngestAssumption, run \in RunMemory, run.todo # {}
  PROVE  HasEvidence(NewPage) <=> run.evidence
<1>1. NewPage # NoPage  BY NewPageIsTyped
<1>2. NewPage.evidence = run.evidence  BY DEF NewPage
<1>3. QED BY <1>1, <1>2 DEF HasEvidence

(* Where a step leaves the rows alone, and a page unless it takes it away, the  *)
(* page a source was last recorded with is the same or gone.                *)
LEMMA LastPageSameOrGone ==
  ASSUME IInv, NEW s, PageOf(ledger', s) = PageOf(ledger, s),
         \A p \in PageNames : pages'[p] = pages[p] \/ pages'[p] = NoPage
  PROVE  LastPage(s)' = LastPage(s) \/ LastPage(s)' = NoPage
<1>1. previousWikiPage(s)' = previousWikiPage(s)  BY PreviousIsPageOf
<1>2. CASE previousWikiPage(s) = NoName
  <2>1. LastPage(s)' = NoPage  BY <1>1, <1>2 DEF LastPage
  <2>2. QED BY <2>1
<1>3. CASE previousWikiPage(s) # NoName
  <2>1. PICK r \in Rows : r.page = previousWikiPage(s)
    BY <1>3, Unpack, PreviousIsOwn DEF RowInv
  <2>2. previousWikiPage(s) \in PageNames
    BY <1>3, <2>1, Unpack, RowsAreTyped DEF RowInv, Row
  <2>3. LastPage(s) = pages[previousWikiPage(s)] /\ LastPage(s)' = pages'[previousWikiPage(s)]
    BY <1>1, <1>3 DEF LastPage
  <2>4. QED BY <2>2, <2>3
<1>4. QED BY <1>2, <1>3

LEMMA EvidenceQuiet ==
  ASSUME run'.at \in Quiet \cup {"recheck", "move", "digest", "retire"}
  PROVE  EInv'
<1>1. run'.at \notin Writing /\ run'.at # "supersedeOrphan"  BY DEF Quiet, Writing
<1>2. QED BY <1>1 DEF EInv, FollowsLast, EvidenceIsRead, EvidenceIsWritten, OrphanIsMoved

LEMMA LookingKeepsEvidence ==
  ASSUME IngestAssumption, IInv,
         \/ StartRun \/ SweepLooks \/ SweepRechecks \/ Scan \/ NextSource \/ Deferred \/ Killed
         \/ DigestFails \/ WriteFails \/ SweepRecords \/ RecordSuccess \/ RetirePrevious
  PROVE  EInv'
<1>1. run \in RunMemory  BY Unpack
<1>2. CASE Killed \/ Deferred \/ DigestFails \/ WriteFails \/ RetirePrevious
  <2>1. run' = IdleRun \/ run' = Done
    BY <1>2 DEF Killed, Deferred, DigestFails, WriteFails, InfraFailure, RetirePrevious
  <2>2. QED BY <1>1, <2>1, IdleAndDone, EvidenceQuiet DEF Quiet
<1>3. CASE StartRun \/ SweepLooks \/ SweepRechecks \/ Scan \/ SweepRecords
  <2>1. run'.at \in {"sweep", "recheck", "scan", "move", "next"}
    BY <1>1, <1>3 DEF StartRun, SweepLooks, SweepRechecks, Scan, SweepRecords, Goto, RunMemory
  <2>2. QED BY <2>1, EvidenceQuiet DEF Quiet
<1>4. CASE NextSource \/ RecordSuccess
  <2>1. \/ run' = IdleRun \/ run' = Done \/ run' = [run EXCEPT !.at = "digest"]
        \/ run' = [run EXCEPT !.at = "retire"]
    BY <1>4 DEF NextSource, RecordSuccess
  <2>2. run'.at \in {"idle", "next", "digest", "retire"}
    BY <1>1, <2>1, IdleAndDone DEF RunMemory
  <2>3. QED BY <2>2, EvidenceQuiet DEF Quiet
<1>5. QED BY <1>2, <1>3, <1>4

LEMMA MovingKeepsEvidence ==
  ASSUME IngestAssumption, IInv, SweepMoves
  PROVE  EInv'
<1>1. /\ RunInv /\ RowInv /\ run \in RunMemory /\ pages \in [PageNames -> Page \cup {NoPage}]
      /\ \A r \in SuccessRows : r.page \in PageNames
  BY Unpack
<1>2. run.at = "move" /\ run.orphan.page \in PageNames
  BY <1>1 DEF SweepMoves, RunInv, OrphanIsRecorded, Sweeping
<1>3. CASE run' = [run EXCEPT !.at = "scan", !.orphan = NoRow]
  BY <1>1, <1>3, BackToScan, EvidenceQuiet DEF Quiet
<1>4. CASE run' = [run EXCEPT !.at = "supersedeOrphan"] /\ pages'[run.orphan.page] = NoPage
  <2>1. run'.at = "supersedeOrphan" /\ run'.orphan = run.orphan
    BY <1>1, <1>4, GotoPhase DEF Phases
  <2>2. QED BY <1>4, <2>1 DEF EInv, FollowsLast, EvidenceIsRead, EvidenceIsWritten, OrphanIsMoved, Writing
<1>5. QED BY <1>1, <1>2, <1>3, <1>4 DEF SweepMoves, Goto

LEMMA DigestingKeepsEvidence ==
  ASSUME IngestAssumption, IInv, NEW s \in Sources, Digested(s)
  PROVE  EInv'
<1>1. run \in RunMemory /\ RunInv  BY Unpack
<1> DEFINE page == pagePath(s, Job[2])
           last == previousWikiPage(s)
           previous == IF last = NoName THEN page ELSE last
           evidence == HasEvidence(pages[previous])
<1>2. /\ s = Job[1] /\ UNCHANGED <<ledger, pages>>
      /\ run' = [run EXCEPT !.at = "write", !.page = page, !.previous = previous, !.evidence = evidence]
  BY DEF Digested
<1>3. last' = last /\ LastPage(s)' = LastPage(s)
  BY <1>2 DEF previousWikiPage, LastPage
<1>4. LastPage(s) = IF last = NoName THEN NoPage ELSE pages[last]  BY DEF LastPage
<1> HIDE DEF page, last
<1>5. run'.at = "write" /\ run'.previous = previous /\ run'.todo = run.todo
  BY <1>1, <1>2 DEF RunMemory
<1>6. HasEvidence(LastPage(s)) => evidence
  <2>1. CASE last = NoName  BY <1>4, <2>1, NoEvidenceOnNoPage
  <2>2. CASE last # NoName  BY <1>4, <2>2
  <2>3. QED BY <2>1, <2>2
<1> HIDE DEF evidence
<1>7. run'.evidence = evidence  BY <1>1, <1>2 DEF RunMemory
<1>8. Job' = Job  BY <1>5 DEF Job
<1>9. FollowsLast'
  <2>1. last # NoName => previous = last  OBVIOUS
  <2>2. QED BY <1>2, <1>3, <1>5, <1>8, <2>1 DEF FollowsLast, last
<1>10. EvidenceIsRead'
  <2>1. HasEvidence(LastPage(s)') <=> HasEvidence(LastPage(s))  BY <1>3
  <2>2. HasEvidence(LastPage(Job[1]))' => evidence  BY <1>2, <1>6, <1>8, <2>1
  <2>3. QED BY <1>7, <2>2 DEF EvidenceIsRead
<1>11. QED BY <1>5, <1>9, <1>10 DEF EInv, EvidenceIsWritten, OrphanIsMoved

LEMMA WritingKeepsEvidence ==
  ASSUME IngestAssumption, IInv, EInv, WritePage
  PROVE  EInv'
<1>1. /\ RunInv /\ RowInv /\ run \in RunMemory /\ pages \in [PageNames -> Page \cup {NoPage}]
  BY Unpack
<1>2. /\ run.at = "write" /\ pages' = [pages EXCEPT ![run.page] = NewPage] /\ ledger' = ledger
      /\ run' = [run EXCEPT !.at = "add"]
  BY DEF WritePage, Goto
<1>3. run.todo # {} /\ run.page \in PageNames
  BY <1>1, <1>2 DEF RunInv, NamesAreHeld, Writing
<1>4. /\ run'.at = "add" /\ run'.page = run.page /\ run'.previous = run.previous /\ Job' = Job
  BY <1>1, <1>2, GotoPhase DEF Phases
<1>5. run'.evidence = run.evidence  BY <1>1, <1>2 DEF RunMemory
<1>6. pages'[run.page] = NewPage /\ \A p \in PageNames : p # run.page => pages'[p] = pages[p]
  BY <1>1, <1>2, <1>3
<1>7. HasEvidence(NewPage) <=> run.evidence  BY <1>1, <1>3, NewPageEvidence
<1>13. PICK s : s = Job[1]  OBVIOUS
<1> DEFINE last == previousWikiPage(s)
<1>8. previousWikiPage(Job[1])' = last  BY <1>2, <1>4, <1>13 DEF previousWikiPage
<1>9. FollowsLast'  BY <1>2, <1>4, <1>8, <1>13 DEF EInv, FollowsLast, Writing
<1>10. EvidenceIsRead'
  <2>1. HasEvidence(LastPage(s)) => run.evidence  BY <1>2, <1>13 DEF EInv, EvidenceIsRead, Writing
  <2>2. LastPage(s) = IF last = NoName THEN NoPage ELSE pages[last]  BY DEF LastPage
  <2>3. LastPage(Job[1])' = IF last = NoName THEN NoPage ELSE pages'[last]  BY <1>8 DEF LastPage
  <2> HIDE DEF last
  <2>4. CASE last = NoName
    <3>1. ~HasEvidence(LastPage(Job[1])')  BY <2>3, <2>4, NoEvidenceOnNoPage
    <3>2. QED BY <3>1 DEF EvidenceIsRead
  <2>5. CASE last # NoName /\ last = run.page
    <3>1. LastPage(Job[1])' = NewPage  BY <1>6, <2>3, <2>5
    <3>2. HasEvidence(LastPage(Job[1])') <=> run.evidence  BY <1>7, <3>1
    <3>3. QED BY <1>5, <3>2 DEF EvidenceIsRead
  <2>6. CASE last # NoName /\ last # run.page
    <3>1. last \in PageNames
      <4>1. PICK r \in Rows : r.page = last  BY <1>1, <2>6, PreviousIsOwn DEF RowInv, last
      <4>2. QED BY <1>1, <2>6, <4>1, RowsAreTyped DEF RowInv, Row
    <3>2. LastPage(Job[1])' = LastPage(s)  BY <1>6, <2>2, <2>3, <2>6, <3>1
    <3>3. HasEvidence(LastPage(Job[1])') <=> HasEvidence(LastPage(s))  BY <3>2
    <3>4. QED BY <1>5, <2>1, <3>3 DEF EvidenceIsRead
  <2>7. QED BY <2>4, <2>5, <2>6
<1>11. EvidenceIsWritten'
  <2>1. run.evidence => HasEvidence(pages'[run'.page])  BY <1>4, <1>6, <1>7
  <2>2. QED BY <1>5, <2>1 DEF EvidenceIsWritten
<1>12. QED BY <1>4, <1>9, <1>10, <1>11 DEF EInv, OrphanIsMoved

(* While the run writes nothing into the pages, they are as they were or gone.  *)
LEMMA BesideEvidence ==
  ASSUME IInv, EInv, run.at \in Writing => run.todo # {}, Job' = Job, run'.page = run.page,
         run'.previous = run.previous, run'.orphan = run.orphan, run'.evidence = run.evidence,
         run'.at = run.at \/ (run.at \in Writing \ {"write"} /\ run'.at \in Writing),
         PageOf(ledger', Job[1]) = PageOf(ledger, Job[1]),
         \A p \in PageNames : pages'[p] = pages[p] \/ pages'[p] = NoPage
  PROVE  EInv'
<1>1. /\ RunInv /\ RowInv /\ \A r \in SuccessRows : r.page \in PageNames  BY Unpack
<1>2. PICK s : s = Job[1]  OBVIOUS
<1>3. previousWikiPage(s)' = previousWikiPage(s)  BY <1>2, PreviousIsPageOf
<1>4. LastPage(s)' = LastPage(s) \/ LastPage(s)' = NoPage  BY <1>2, LastPageSameOrGone
<1>5. previousWikiPage(Job[1])' = previousWikiPage(s)
  BY <1>2, <1>3 DEF previousWikiPage
<1>6. LastPage(Job[1])' = LastPage(s) \/ LastPage(Job[1])' = NoPage
  <2>1. LastPage(Job[1])' = IF previousWikiPage(Job[1])' = NoName THEN NoPage
                            ELSE pages'[previousWikiPage(Job[1])']
    BY DEF LastPage
  <2>2. LastPage(s)' = IF previousWikiPage(s)' = NoName THEN NoPage
                       ELSE pages'[previousWikiPage(s)']
    BY DEF LastPage
  <2>3. QED BY <1>3, <1>4, <1>5, <2>1, <2>2
<1>7. FollowsLast'  BY <1>2, <1>5 DEF EInv, FollowsLast
<1>8. EvidenceIsRead'
  <2>1. HasEvidence(LastPage(Job[1])') => HasEvidence(LastPage(s))
    BY <1>6, NoEvidenceOnNoPage
  <2>2. run'.at \in Writing => run.at \in Writing  OBVIOUS
  <2>3. run'.at \in Writing /\ HasEvidence(LastPage(s)) => run.evidence
    BY <1>2, <2>2 DEF EInv, EvidenceIsRead
  <2>4. QED BY <2>1, <2>3 DEF EvidenceIsRead
<1>9. EvidenceIsWritten'
  <2>1. SUFFICES ASSUME run'.at \in Writing \ {"write"}, pages'[run.page] # NoPage, run.evidence
                 PROVE  HasEvidence(pages'[run.page])
    BY DEF EvidenceIsWritten
  <2>2. run.at \in Writing \ {"write"}  BY <2>1
  <2>3. run.page \in PageNames  BY <1>1, <2>2 DEF RunInv, NamesAreHeld
  <2>4. pages'[run.page] = pages[run.page]  BY <2>1, <2>3
  <2>5. HasEvidence(pages[run.page])  BY <2>1, <2>2, <2>4 DEF EInv, EvidenceIsWritten
  <2>6. QED BY <2>4, <2>5
<1>10. OrphanIsMoved'
  <2>1. SUFFICES ASSUME run'.at = "supersedeOrphan" PROVE pages'[run.orphan.page] = NoPage
    BY DEF OrphanIsMoved
  <2>2. run.at = "supersedeOrphan"  BY <2>1 DEF Writing
  <2>3. run.orphan.page \in PageNames  BY <1>1, <2>2 DEF RunInv, OrphanIsRecorded, Sweeping
  <2>4. pages[run.orphan.page] = NoPage  BY <2>2 DEF EInv, OrphanIsMoved
  <2>5. QED BY <2>3, <2>4
<1>11. QED BY <1>7, <1>8, <1>9, <1>10 DEF EInv

LEMMA OthersKeepEvidence ==
  ASSUME IngestAssumption, IInv, EInv, AgentsWait,
         \/ IndexPage \/ SupersedePrevSuccess \/ Reconfigure \/ UNCHANGED vars
         \/ \E s \in Sources, to \in Contents \cup {Gone} : EditSource(s, to)
         \/ \E p \in PageNames : DeletePage(p) \/ AddEvidence(p)
  PROVE  EInv'
<1>1. /\ RunInv /\ RowInv /\ run \in RunMemory /\ pages \in [PageNames -> Page \cup {NoPage}]
      /\ \A r \in SuccessRows : r.page \in PageNames
  BY Unpack
<1>2. run.at \in Writing => run.todo # {}  BY <1>1 DEF RunInv
<1>3. CASE IndexPage
  <2>1. run.at = "add" /\ UNCHANGED <<ledger, pages>> /\ run' = [run EXCEPT !.at = "supersede"]
    BY <1>3 DEF IndexPage, Goto
  <2>2. /\ run'.at = "supersede" /\ run'.page = run.page /\ run'.previous = run.previous
        /\ run'.orphan = run.orphan /\ Job' = Job
    BY <1>1, <2>1, GotoPhase DEF Phases
  <2>3. run'.evidence = run.evidence  BY <1>1, <2>1 DEF RunMemory
  <2>4. run.at \in Writing \ {"write"} /\ run'.at \in Writing  BY <2>1, <2>2 DEF Writing
  <2>5. QED BY <1>2, <2>1, <2>2, <2>3, <2>4, BesideEvidence
<1>4. CASE SupersedePrevSuccess
  <2>1. run.at = "supersede" /\ UNCHANGED pages /\ run' = [run EXCEPT !.at = "record"]
    BY <1>4 DEF SupersedePrevSuccess, Goto
  <2>2. /\ run'.at = "record" /\ run'.page = run.page /\ run'.previous = run.previous
        /\ run'.orphan = run.orphan /\ Job' = Job
    BY <1>1, <2>1, GotoPhase DEF Phases
  <2>3. run'.evidence = run.evidence  BY <1>1, <2>1 DEF RunMemory
  <2>4. run.at \in Writing \ {"write"} /\ run'.at \in Writing  BY <2>1, <2>2 DEF Writing
  <2>5. \A s : PageOf(ledger', s) = PageOf(ledger, s)  BY <1>1, <1>4, SupersedingKeepsPages DEF RowInv
  <2>6. QED BY <1>2, <2>1, <2>2, <2>3, <2>4, <2>5, BesideEvidence
<1>5. CASE \/ Reconfigure \/ UNCHANGED vars
           \/ \E s \in Sources, to \in Contents \cup {Gone} : EditSource(s, to)
           \/ \E p \in PageNames : DeletePage(p)
  <2>1. UNCHANGED <<ledger, run>>  BY <1>5 DEF Reconfigure, vars, EditSource, DeletePage
  <2>2. \A p \in PageNames : pages'[p] = pages[p] \/ pages'[p] = NoPage
    BY <1>1, <1>5 DEF Reconfigure, vars, EditSource, DeletePage
  <2>3. Job' = Job  BY <2>1 DEF Job
  <2>4. QED BY <1>2, <2>1, <2>2, <2>3, BesideEvidence
<1>6. CASE \E p \in PageNames : AddEvidence(p)
  <2>1. PICK p \in PageNames : AddEvidence(p)  BY <1>6
  <2>2. run' = run /\ run.at \notin Writing  BY <2>1 DEF AddEvidence, AgentsWait
  <2>3. run.at = "supersedeOrphan" =>
          pages[run.orphan.page] = NoPage /\ run.orphan.page \in PageNames
    BY <1>1 DEF EInv, OrphanIsMoved, RunInv, OrphanIsRecorded, Sweeping
  <2>4. /\ pages' = [pages EXCEPT ![p].evidence = TRUE] /\ pages[p] # NoPage
    BY <2>1 DEF AddEvidence
  <2>5. run.at = "supersedeOrphan" => pages'[run.orphan.page] = NoPage
    BY <1>1, <2>3, <2>4
  <2>6. QED BY <2>2, <2>5 DEF EInv, FollowsLast, EvidenceIsRead, EvidenceIsWritten, OrphanIsMoved
<1>7. QED BY <1>3, <1>4, <1>5, <1>6

LEMMA EvidenceStep ==
  ASSUME IngestAssumption, IInv, EInv, AgentsWait, [Next]_vars
  PROVE  EInv'
<1>1. ASSUME NEW s \in Sources, Digested(s) PROVE EInv'  BY <1>1, DigestingKeepsEvidence
<1>2. QED
  BY <1>1, LookingKeepsEvidence, MovingKeepsEvidence, WritingKeepsEvidence, OthersKeepEvidence
  DEF Next

LEMMA EvidenceInvariant ==
  ASSUME AgentsWait
  PROVE  Spec => []EInv
<1>1. Init => EInv
  BY DEF Init, IdleRun, EInv, FollowsLast, EvidenceIsRead, EvidenceIsWritten, OrphanIsMoved, Writing
<1>2. IInv /\ EInv /\ [Next]_vars => EInv'  BY EvidenceStep, IngestAssumption
<1>3. QED BY <1>1, <1>2, IngestInvariantHolds, PTL DEF Spec

LEMMA StepCarriesEvidence ==
  ASSUME IngestAssumption, IInv, EInv, Counted, [Next]_vars, changes' = changes,
         NEW s \in Sources, HasEvidence(LastPage(s)), LastPage(s)' # NoPage
  PROVE  HasEvidence(LastPage(s))' \/ Forgets(s)
<1>1. /\ TypeOK /\ RowInv /\ RunInv /\ run \in RunMemory
      /\ pages \in [PageNames -> Page \cup {NoPage}]
      /\ \A r \in SuccessRows : r.page \in PageNames
  BY Unpack
<1> DEFINE last == previousWikiPage(s)
<1>2. /\ last # NoName /\ LastPage(s) = pages[last]
      /\ \E r \in Rows : r.source = s /\ r.page = last
  <2>1. last # NoName  BY NoEvidenceOnNoPage DEF LastPage
  <2>2. QED BY <1>1, <2>1, PreviousIsOwn DEF RowInv, LastPage
<1>3. last \in PageNames  BY <1>1, <1>2, RowsAreTyped DEF RowInv, Row
<1>4. CASE LastPage(s)' = LastPage(s)  BY <1>4
<1>5. CASE /\ PageOf(ledger', s) = PageOf(ledger, s)
           /\ \A p \in PageNames : pages'[p] = pages[p] \/ pages'[p] = NoPage
  BY <1>4, <1>5, LastPageSameOrGone
<1>6. CASE UNCHANGED <<ledger, pages>>  BY <1>5, <1>6
<1>7. CASE SweepMoves
  <2>1. ledger' = ledger /\ run.orphan.page \in PageNames
    BY <1>1, <1>7 DEF SweepMoves, RunInv, OrphanIsRecorded, Sweeping
  <2>2. pages' = pages \/ pages' = [pages EXCEPT ![run.orphan.page] = NoPage]
    BY <1>7 DEF SweepMoves
  <2>3. \A p \in PageNames : pages'[p] = pages[p] \/ pages'[p] = NoPage  BY <1>1, <2>1, <2>2
  <2>4. QED BY <1>5, <2>1, <2>3
<1>8. CASE RetirePrevious
  <2>1. /\ run.at = "retire" /\ ledger' = ledger
        /\ \/ pages' = pages
           \/ pages' = [pages EXCEPT ![run.previous] =
                          IF pages[run.page] = NoPage THEN pages[run.previous] ELSE NoPage]
    BY <1>8 DEF RetirePrevious
  <2>2. run.previous \in PageNames  BY <1>1, <2>1 DEF RunInv, NamesAreHeld
  <2>3. \A p \in PageNames : pages'[p] = pages[p] \/ pages'[p] = NoPage  BY <1>1, <2>1, <2>2
  <2>4. QED BY <1>5, <2>1, <2>3
<1>9. CASE SupersedePrevSuccess
  <2>1. pages' = pages  BY <1>9 DEF SupersedePrevSuccess
  <2>2. PageOf(ledger', s) = PageOf(ledger, s)  BY <1>1, <1>9, SupersedingKeepsPages DEF RowInv
  <2>3. QED BY <1>5, <2>1, <2>2
<1>10. CASE WritePage
  <2>1. /\ run.at = "write" /\ pages' = [pages EXCEPT ![run.page] = NewPage] /\ ledger' = ledger
    BY <1>10 DEF WritePage
  <2>2. run.todo # {} /\ run.page \in PageNames /\ ~wikiPageTakenByOther(run.page, Job[1])
    BY <1>1, <2>1 DEF RunInv, NamesAreHeld, Writing
  <2>3. LastPage(s)' = pages'[last]
    <3>1. last' = last  BY <2>1 DEF previousWikiPage
    <3>2. QED BY <1>2, <3>1 DEF LastPage
  <2>4. CASE last = run.page
    <3>1. s = Job[1]  BY <1>2, <2>2, <2>4 DEF wikiPageTakenByOther
    <3>2. run.evidence  BY <2>1, <3>1 DEF EInv, EvidenceIsRead, Writing
    <3>3. HasEvidence(NewPage)  BY <1>1, <2>2, <3>2, NewPageEvidence
    <3>4. LastPage(s)' = NewPage  BY <1>1, <1>3, <2>1, <2>3, <2>4
    <3>5. QED BY <3>3, <3>4
  <2>5. CASE last # run.page
    <3>1. pages'[last] = pages[last]  BY <1>1, <1>3, <2>1, <2>5
    <3>2. QED BY <1>2, <1>4, <2>3, <3>1
  <2>6. QED BY <2>4, <2>5
<1>11. ASSUME NEW row \in Row, ledger' = Upsert(row), pages' = pages, row.source # s
       PROVE  HasEvidence(LastPage(s))'
  <2>1. PICK d \in 1..(Len(ledger) + 1) : Replaced(ledger, ledger', d, row)
    BY <1>1, <1>11, UpsertReplaces DEF RowInv
  <2>2. ledger \in Seq(Row) /\ ledger' \in Seq(Row)
    BY <1>1, <1>11, UpsertReplaces DEF RowInv
  <2>3. PageOf(ledger', s) = PageOf(ledger, s)  BY <1>11, <2>1, <2>2, PageOfReplaced
  <2>4. previousWikiPage(s)' = previousWikiPage(s)  BY <2>3, PreviousIsPageOf
  <2>5. LastPage(s)' = LastPage(s)  BY <1>11, <2>4 DEF LastPage
  <2>6. QED BY <2>5
<1>12. CASE SweepRecords
  <2> DEFINE row == [run.orphan EXCEPT !.status = "superseded"]
  <2>1. run.at = "supersedeOrphan" /\ pages' = pages /\ (ledger' = Upsert(row) \/ ledger' = ledger)
    BY <1>12 DEF SweepRecords
  <2>2. run.orphan \in Row /\ run.orphan.page # NoName
    BY <1>1, <2>1, RowsAreTyped DEF RunInv, OrphanIsRecorded, Sweeping, RowInv, RowsNamePages, SuccessRows
  <2>3. /\ row \in Row /\ row.status = "superseded" /\ row.page = run.orphan.page
        /\ row.source = run.orphan.source
    BY <2>2 DEF Row, Statuses
  <2> HIDE DEF row
  <2>4. CASE ledger' = ledger  BY <1>6, <2>1, <2>4
  <2>5. CASE ledger' = Upsert(row) /\ row.source # s  BY <1>11, <2>1, <2>3, <2>5
  <2>6. CASE ledger' = Upsert(row) /\ row.source = s
    <3>1. PICK d \in 1..(Len(ledger) + 1) : Replaced(ledger, ledger', d, row)
      BY <1>1, <2>3, <2>6, UpsertReplaces DEF RowInv
    <3>2. ledger \in Seq(Row) /\ ledger' \in Seq(Row)
      BY <1>1, <2>3, <2>6, UpsertReplaces DEF RowInv
    <3>3. PageOf(ledger', s) = row.page  BY <2>2, <2>3, <2>6, <3>1, <3>2, PageOfReplaced
    <3>4. previousWikiPage(s)' = run.orphan.page  BY <2>3, <3>3, PreviousIsPageOf
    <3>5. LastPage(s)' = pages'[run.orphan.page]  BY <2>2, <3>4 DEF LastPage
    <3>6. pages[run.orphan.page] = NoPage  BY <2>1 DEF EInv, OrphanIsMoved
    <3>7. QED BY <2>1, <3>5, <3>6
  <2>7. QED BY <2>1, <2>4, <2>5, <2>6
<1>13. CASE RecordSuccess
  <2> DEFINE row == [source |-> Job[1], content |-> Job[2], status |-> "success",
                     page |-> run.page, attempts |-> 0, profile |-> profile]
  <2>1. run.at = "record" /\ pages' = pages /\ ledger' = Upsert(row)
    BY <1>13 DEF RecordSuccess
  <2>2. run.todo # {} /\ run.page \in PageNames
    BY <1>1, <2>1 DEF RunInv, NamesAreHeld, Writing
  <2>3. Job[1] \in Sources /\ Job[2] \in Contents  BY <1>1, <2>2, JobIsFirst DEF RunMemory
  <2>4. profile \in Nat  BY <1>1 DEF TypeOK
  <2>5. row \in Row /\ row.status = "success" /\ row.page = run.page /\ row.source = Job[1]
    BY <2>2, <2>3, <2>4 DEF Row, Statuses
  <2> HIDE DEF row
  <2>6. CASE Job[1] # s  BY <1>11, <2>1, <2>5, <2>6
  <2>7. CASE Job[1] = s
    <3>1. PICK d \in 1..(Len(ledger) + 1) : Replaced(ledger, ledger', d, row)
      BY <1>1, <2>1, <2>5, UpsertReplaces DEF RowInv
    <3>2. ledger \in Seq(Row) /\ ledger' \in Seq(Row)
      BY <1>1, <2>1, <2>5, UpsertReplaces DEF RowInv
    <3>3. row.page # NoName  BY <2>2, <2>5, Names
    <3>4. PageOf(ledger', s) = run.page  BY <2>5, <2>7, <3>1, <3>2, <3>3, PageOfReplaced
    <3>5. previousWikiPage(s)' = run.page  BY <3>4, PreviousIsPageOf
    <3>6. LastPage(s)' = pages[run.page]  BY <2>1, <2>5, <3>3, <3>5 DEF LastPage
    <3>7. run.evidence  BY <2>1, <2>7 DEF EInv, EvidenceIsRead, Writing
    <3>8. HasEvidence(pages[run.page])
      BY <2>1, <3>6, <3>7 DEF EInv, EvidenceIsWritten, Writing
    <3>9. QED BY <3>6, <3>8
  <2>8. QED BY <2>6, <2>7
<1>14. CASE DigestFails \/ WriteFails
  <2>1. /\ run.todo # {} /\ pages' = pages
        /\ ledger' = ledger \/ \E class : ledger' = Upsert(FailedRow(Job[1], Job[2], class))
    BY <1>1, <1>14 DEF DigestFails, WriteFails, InfraFailure, recordFailure, RunInv, Writing
  <2>2. Job[1] \in Sources /\ Job[2] \in Contents  BY <1>1, <2>1, JobIsFirst DEF RunMemory
  <2>3. CASE ledger' = ledger  BY <1>6, <2>1, <2>3
  <2>4. CASE \E class : ledger' = Upsert(FailedRow(Job[1], Job[2], class))
    <3>1. PICK row \in Row :
            /\ ledger' = Upsert(row) /\ row.page = NoName
            /\ row.source = Job[1] /\ row.content = Job[2]
      <4>1. PICK class : ledger' = Upsert(FailedRow(Job[1], Job[2], class))  BY <2>4
      <4>2. PICK t \in Sources, c \in Contents : t = Job[1] /\ c = Job[2]  BY <2>2
      <4>3. ledger' = Upsert(FailedRow(t, c, class))  BY <4>1, <4>2
      <4>4. TypeOK  BY <1>1
      <4>5. /\ FailedRow(t, c, class) \in Row /\ FailedRow(t, c, class).page = NoName
            /\ FailedRow(t, c, class).source = t /\ FailedRow(t, c, class).content = c
        BY <4>2, <4>4, FailedRowTyped
      <4>6. QED BY <4>2, <4>3, <4>5
    <3>2. CASE Job[1] # s  BY <1>11, <2>1, <3>1, <3>2
    <3>3. CASE Job[1] = s
      <4>1. PICK d \in 1..(Len(ledger) + 1) : Replaced(ledger, ledger', d, row)
        BY <1>1, <3>1, UpsertReplaces DEF RowInv
      <4>2. ledger \in Seq(Row) /\ ledger' \in Seq(Row)
        BY <1>1, <3>1, UpsertReplaces DEF RowInv
      <4>3. \/ PageOf(ledger', s) = PageOf(ledger, s)
            \/ d \in 1..Len(ledger) /\ ledger[d].page = last
        BY <3>1, <4>1, <4>2, PageOfReplaced, PreviousIsPageOf
      <4>4. CASE PageOf(ledger', s) = PageOf(ledger, s)  BY <1>5, <2>1, <4>4
      <4>5. CASE d \in 1..Len(ledger) /\ ledger[d].page = last
        <5>1. SameKey(ledger[d], row)  BY <4>1, <4>5 DEF Replaced
        <5>2. ledger[d] \in RowsFor(s, Job[2])
          BY <3>1, <3>3, <4>2, <4>5, <5>1 DEF RowsFor, Rows, ToSet, SameKey
        <5>3. row \in Rows'  BY <1>1, <3>1, UpsertRows DEF RowInv
        <5>4. PICK c \in Contents : c = Job[2]  BY <2>2
        <5>5. row \in RowsFor(s, c)'  BY <3>1, <3>3, <5>3, <5>4 DEF RowsFor
        <5>6. QED BY <3>1, <4>5, <5>2, <5>4, <5>5 DEF Forgets
      <4>6. QED BY <4>3, <4>4, <4>5
    <3>4. QED BY <3>2, <3>3
  <2>5. QED BY <2>1, <2>3, <2>4
<1>15. QED
  BY <1>6, <1>7, <1>8, <1>9, <1>10, <1>12, <1>13, <1>14, RunStepsOnly

(* Whichever writes fail and whenever the run is killed, a new page carries the *)
(* research evidence of the page it follows, until a failed digest makes the *)
(* ledger forget that page.                                                 *)
THEOREM EvidenceCarried ==
  ASSUME AgentsWait
  PROVE  Spec => EvidenceIsCarried
<1>1. IInv /\ EInv /\ Counted /\ [Next]_vars =>
        [run.at # "idle" /\ changes' = changes =>
           \A s \in Sources :
             HasEvidence(LastPage(s)) /\ LastPage(s)' # NoPage =>
               HasEvidence(LastPage(s))' \/ Forgets(s)]_vars
  BY StepCarriesEvidence, IngestAssumption
<1>2. QED
  BY <1>1, IngestInvariantHolds, EvidenceInvariant, ChangesAreCounted, PTL DEF Spec, EvidenceIsCarried

-----------------------------------------------------------------------------
(* Attempts.                                                                *)

(* A digest of profile p left this row: what counts as an attempt before it was *)
(* given up adds to it, and success starts the count again.                 *)
Counts(r, p) ==
  /\ r.profile \in 1..p
  /\ r.attempts < MaxAttempts + r.profile
  /\ r.status \in {"success", "superseded"} => r.attempts = 0

RowsCount == \A r \in Rows : Counts(r, profile)

NotGivenUp == run.at = "digest" => \A r \in RowsFor(Job[1], Job[2]) : ~GivenUp(r)

AttemptsInv == RowsCount /\ NotGivenUp

LEMMA FailedRowCounts ==
  ASSUME IngestAssumption, TypeOK, RowsCount, NEW s \in Sources, NEW c \in Contents, NEW class,
         class = "permanent" => \A r \in RowsFor(s, c) : ~GivenUp(r)
  PROVE  Counts(FailedRow(s, c, class), profile)
<1> DEFINE row == FailedRow(s, c, class)
           n   == attemptsOf(s, c)
           one == IF class = "permanent" THEN 1 ELSE 0
<1>1. MaxAttempts \in Nat \ {0} /\ profile \in Nat /\ profile >= 1
  BY DEF IngestAssumption, TypeOK
<1>2. /\ row.profile = profile /\ row.attempts = n + one
      /\ row.status \notin {"success", "superseded"}
  BY DEF FailedRow
<1>3. n \in Nat /\ n + one < MaxAttempts + profile
  <2>1. CASE RowsFor(s, c) = {}
    <3>1. n = 0  BY <2>1 DEF attemptsOf
    <3>2. QED BY <1>1, <3>1
  <2>2. CASE RowsFor(s, c) # {}
    <3>1. PICK r \in RowsFor(s, c) : n = r.attempts  BY <2>2 DEF attemptsOf
    <3>2. Counts(r, profile) /\ r \in Row  BY <3>1, RowsAreTyped DEF RowsCount, RowsFor, TypeOK
    <3>3. /\ r.profile \in 1..profile /\ r.attempts < MaxAttempts + r.profile
          /\ r.status \in {"success", "superseded"} => r.attempts = 0
          /\ r.attempts \in Nat /\ r.status \in Statuses
      BY <3>2 DEF Counts, Row
    <3>4. CASE class # "permanent"  BY <1>1, <3>1, <3>3, <3>4
    <3>5. CASE class = "permanent"
      <4>1. one = 1  BY <3>5
      <4>2. ~GivenUp(r)  BY <3>1, <3>5
      <4>3. CASE r.profile # profile  BY <1>1, <3>1, <3>3, <4>1, <4>3
      <4>4. CASE r.profile = profile
        <5>1. r.attempts < MaxAttempts
          BY <1>1, <3>3, <4>2, <4>4 DEF GivenUp, Statuses
        <5>2. QED BY <1>1, <3>1, <3>3, <4>1, <5>1
      <4>5. QED BY <4>3, <4>4
    <3>6. QED BY <3>4, <3>5
  <2>3. QED BY <2>1, <2>2
<1>4. QED BY <1>1, <1>2, <1>3 DEF Counts

(* A step of the run that begins no digest needs to keep the rows only.       *)
LEMMA NoDigestBegins ==
  ASSUME RowsCount', run'.at # "digest"
  PROVE  AttemptsInv'
BY DEF AttemptsInv, NotGivenUp

LEMMA CountsStay ==
  ASSUME RowsCount, UNCHANGED <<ledger, profile>>
  PROVE  RowsCount'
BY DEF RowsCount, Rows

(* Steps that leave the ledger and the profile alone. Only one of them begins a *)
(* digest, after it looked whether the source was given up.                 *)
LEMMA LookingKeepsAttempts ==
  ASSUME IngestAssumption, IInv, AttemptsInv, UNCHANGED <<ledger, profile>>,
         \/ StartRun \/ SweepLooks \/ SweepRechecks \/ SweepMoves \/ SweepRecords \/ Scan
         \/ NextSource \/ Deferred \/ WriteFails \/ WritePage \/ IndexPage \/ RetirePrevious
         \/ Killed \/ UNCHANGED run
  PROVE  AttemptsInv'
<1>1. run \in RunMemory  BY Unpack
<1>2. RowsCount'  BY CountsStay DEF AttemptsInv
<1>3. IdleRun.at = "idle" /\ Done.at = "next"  BY <1>1, IdleAndDone
<1>4. CASE UNCHANGED run
  <2>1. Job' = Job /\ Rows' = Rows  BY <1>4 DEF Job, Rows
  <2>2. QED BY <1>2, <1>4, <2>1 DEF AttemptsInv, NotGivenUp, RowsFor, GivenUp
<1>5. CASE NextSource
  <2>1. CASE run' = IdleRun \/ run' = Done  BY <1>2, <1>3, <2>1, NoDigestBegins
  <2>2. CASE /\ run' = [run EXCEPT !.at = "digest"]
             /\ ~(\E r \in RowsFor(Job[1], Job[2]) : Unchanged(r) \/ GivenUp(r))
    <3>1. Job' = Job  BY <1>1, <2>2, GotoPhase DEF Phases
    <3>2. Rows' = Rows  BY DEF Rows
    <3>3. QED BY <1>2, <2>2, <3>1, <3>2 DEF AttemptsInv, NotGivenUp, RowsFor, GivenUp
  <2>3. QED BY <1>5, <2>1, <2>2 DEF NextSource
<1>6. CASE StartRun \/ SweepLooks \/ SweepRechecks \/ SweepMoves \/ SweepRecords \/ Scan
  <2>1. run'.at # "digest"
    BY <1>1, <1>6 DEF StartRun, SweepLooks, SweepRechecks, SweepMoves, SweepRecords, Scan, Goto,
       RunMemory
  <2>2. QED BY <1>2, <2>1, NoDigestBegins
<1>7. CASE WritePage \/ IndexPage
  <2>1. run'.at # "digest"  BY <1>1, <1>7 DEF WritePage, IndexPage, Goto, RunMemory
  <2>2. QED BY <1>2, <2>1, NoDigestBegins
<1>8. CASE Deferred \/ WriteFails \/ RetirePrevious \/ Killed
  <2>1. run' = IdleRun \/ run' = Done
    BY <1>8 DEF Deferred, WriteFails, InfraFailure, RetirePrevious, Killed
  <2>2. QED BY <1>2, <1>3, <2>1, NoDigestBegins
<1>9. QED BY <1>4, <1>5, <1>6, <1>7, <1>8

LEMMA DigestingKeepsAttempts ==
  ASSUME IngestAssumption, IInv, AttemptsInv, NEW s \in Sources, Digested(s)
  PROVE  AttemptsInv'
<1>1. run \in RunMemory  BY Unpack
<1>2. run'.at # "digest"  BY <1>1 DEF Digested, RunMemory
<1>3. RowsCount'
  <2>1. UNCHANGED <<ledger, profile>>  BY DEF Digested
  <2>2. QED BY <2>1, CountsStay DEF AttemptsInv
<1>4. QED BY <1>2, <1>3, NoDigestBegins

(* Steps that replace one row.                                               *)
LEMMA RecordingKeepsAttempts ==
  ASSUME IngestAssumption, IInv, AttemptsInv, UNCHANGED profile,
         \/ DigestFails \/ WriteFails \/ RecordSuccess \/ SweepRecords, ledger' # ledger
  PROVE  AttemptsInv'
<1>1. /\ TypeOK /\ RowInv /\ RunInv /\ run \in RunMemory  BY Unpack
<1>2. MaxAttempts \in Nat \ {0} /\ profile \in Nat /\ profile >= 1
  BY <1>1 DEF IngestAssumption, TypeOK
<1>3. run'.at # "digest"
  <2>1. Done.at = "next"  BY <1>1, IdleAndDone
  <2>2. \/ run' = Done \/ run' = [run EXCEPT !.at = "retire"]
        \/ run' = [run EXCEPT !.at = "scan", !.orphan = NoRow]
    BY DEF DigestFails, WriteFails, InfraFailure, RecordSuccess, SweepRecords
  <2>3. QED BY <1>1, <2>1, <2>2 DEF RunMemory
<1>4. \E row \in Row : ledger' = Upsert(row) /\ Counts(row, profile)
  <2>1. CASE DigestFails \/ WriteFails
    <3>1. PICK class :
            /\ ledger' = Upsert(FailedRow(Job[1], Job[2], class))
            /\ class = "permanent" => run.at = "digest"
            /\ run.at \in Writing \cup {"digest"}
      BY <2>1 DEF DigestFails, WriteFails, InfraFailure, recordFailure, Writing
    <3>2. Job[1] \in Sources /\ Job[2] \in Contents
      BY <1>1, <3>1, JobIsFirst DEF RunInv, RunMemory
    <3>3. class = "permanent" => \A r \in RowsFor(Job[1], Job[2]) : ~GivenUp(r)
      BY <3>1 DEF AttemptsInv, NotGivenUp
    <3>4. PICK t \in Sources, c \in Contents : t = Job[1] /\ c = Job[2]  BY <3>2
    <3>5. Counts(FailedRow(t, c, class), profile)
      BY <1>1, <3>3, <3>4, FailedRowCounts DEF AttemptsInv
    <3>6. FailedRow(t, c, class) \in Row  BY <1>1, FailedRowTyped
    <3>7. QED BY <3>1, <3>4, <3>5, <3>6
  <2>2. CASE RecordSuccess
    <3> DEFINE new == [source |-> Job[1], content |-> Job[2], status |-> "success",
                       page |-> run.page, attempts |-> 0, profile |-> profile]
    <3>1. ledger' = Upsert(new) /\ run.at = "record"  BY <2>2 DEF RecordSuccess
    <3>2. run.todo # {} /\ run.page \in PageNames
      BY <1>1, <3>1 DEF RunInv, NamesAreHeld, Writing
    <3>3. Job[1] \in Sources /\ Job[2] \in Contents  BY <1>1, <3>2, JobIsFirst DEF RunMemory
    <3>4. new \in Row  BY <1>2, <3>2, <3>3 DEF Row, Statuses
    <3>5. Counts(new, profile)  BY <1>2 DEF Counts
    <3>6. QED BY <3>1, <3>4, <3>5
  <2>3. CASE SweepRecords
    <3>1. run.at = "supersedeOrphan" /\ ledger' = Upsert([run.orphan EXCEPT !.status = "superseded"])
      BY <2>3 DEF SweepRecords
    <3>2. PICK o \in Row : o = run.orphan /\ o \in Rows /\ o.status = "success"
      BY <1>1, <3>1, RowsAreTyped DEF RunInv, OrphanIsRecorded, Sweeping, RowInv, SuccessRows
    <3>3. Counts(o, profile)  BY <3>2 DEF AttemptsInv, RowsCount
    <3>4. /\ [o EXCEPT !.status = "superseded"] \in Row
          /\ Counts([o EXCEPT !.status = "superseded"], profile)
      BY <3>2, <3>3 DEF Counts, Row, Statuses
    <3>5. QED BY <3>1, <3>2, <3>4
  <2>4. QED BY <2>1, <2>2, <2>3
<1>5. PICK row \in Row : ledger' = Upsert(row) /\ Counts(row, profile)  BY <1>4
<1>6. Rows' = {r \in Rows : ~SameKey(r, row)} \cup {row}  BY <1>1, <1>5, UpsertRows DEF RowInv
<1>7. RowsCount'  BY <1>5, <1>6 DEF AttemptsInv, RowsCount
<1>8. QED BY <1>3, <1>7, NoDigestBegins

LEMMA SupersedingKeepsAttempts ==
  ASSUME IngestAssumption, IInv, AttemptsInv, SupersedePrevSuccess
  PROVE  AttemptsInv'
<1>1. /\ TypeOK /\ RowInv /\ run \in RunMemory  BY Unpack
<1>2. ledger \in Seq(Row) /\ UNCHANGED profile /\ run' = [run EXCEPT !.at = "record"]
  BY <1>1 DEF SupersedePrevSuccess, Goto, RowInv
<1>3. run'.at # "digest"  BY <1>1, <1>2 DEF RunMemory
<1>4. /\ DOMAIN ledger' = DOMAIN ledger
      /\ \A n \in DOMAIN ledger : \/ ledger'[n] = ledger[n]
                                  \/ /\ ledger[n].status = "success"
                                     /\ ledger'[n] = [ledger[n] EXCEPT !.status = "superseded"]
  BY DEF SupersedePrevSuccess
<1>5. \A r \in Row : Counts(r, profile) /\ r.status = "success"
                      => Counts([r EXCEPT !.status = "superseded"], profile)
  BY DEF Counts, Row
<1>6. RowsCount'
  <2> SUFFICES ASSUME NEW n \in DOMAIN ledger PROVE Counts(ledger'[n], profile)
    BY <1>2, <1>4 DEF RowsCount, Rows, ToSet
  <2>1. ledger[n] \in Row /\ Counts(ledger[n], profile)
    BY <1>2 DEF AttemptsInv, RowsCount, Rows, ToSet
  <2>2. QED BY <1>4, <1>5, <2>1
<1>7. QED BY <1>3, <1>6, NoDigestBegins

LEMMA ReconfiguringKeepsAttempts ==
  ASSUME IngestAssumption, IInv, AttemptsInv, Reconfigure
  PROVE  AttemptsInv'
<1>1. profile \in Nat  BY Unpack DEF TypeOK
<1>2. profile' = profile + 1 /\ UNCHANGED ledger /\ run'.at # "digest"  BY DEF Reconfigure
<1>3. \A r : Counts(r, profile) => Counts(r, profile + 1)  BY <1>1 DEF Counts
<1>4. Rows' = Rows  BY <1>2 DEF Rows
<1>5. RowsCount'  BY <1>2, <1>3, <1>4 DEF AttemptsInv, RowsCount
<1>6. QED BY <1>2, <1>5, NoDigestBegins

LEMMA AttemptsStep ==
  ASSUME IngestAssumption, IInv, AttemptsInv, [Next]_vars
  PROVE  AttemptsInv'
<1>1. CASE UNCHANGED vars  BY <1>1, LookingKeepsAttempts DEF vars
<1>2. CASE \E s \in Sources : Digested(s)  BY <1>2, DigestingKeepsAttempts
<1>3. CASE \/ StartRun \/ SweepLooks \/ SweepRechecks \/ SweepMoves \/ Scan \/ NextSource
           \/ Deferred \/ WritePage \/ IndexPage \/ RetirePrevious \/ Killed
  <2>1. UNCHANGED <<ledger, profile>>
    BY <1>3 DEF StartRun, SweepLooks, SweepRechecks, SweepMoves, Scan, NextSource, Deferred,
       WritePage, IndexPage, RetirePrevious, Killed
  <2>2. QED BY <1>3, <2>1, LookingKeepsAttempts
<1>4. CASE DigestFails \/ WriteFails \/ RecordSuccess \/ SweepRecords
  <2>1. UNCHANGED profile
    BY <1>4 DEF DigestFails, WriteFails, InfraFailure, RecordSuccess, SweepRecords
  <2>2. CASE ledger' # ledger  BY <1>4, <2>1, <2>2, RecordingKeepsAttempts
  <2>3. CASE ledger' = ledger
    <3>1. CASE WriteFails \/ SweepRecords  BY <2>1, <2>3, <3>1, LookingKeepsAttempts
    <3>2. CASE DigestFails \/ RecordSuccess
      <4>1. RowsCount'  BY <2>1, <2>3, CountsStay DEF AttemptsInv
      <4>2. run \in RunMemory  BY Unpack
      <4>3. run' = Done \/ run' = [run EXCEPT !.at = "retire"]
        BY <3>2 DEF DigestFails, RecordSuccess
      <4>4. run'.at # "digest"  BY <4>2, <4>3, IdleAndDone DEF RunMemory
      <4>5. QED BY <4>1, <4>4, NoDigestBegins
    <3>3. QED BY <1>4, <3>1, <3>2
  <2>4. QED BY <2>2, <2>3
<1>5. CASE SupersedePrevSuccess  BY <1>5, SupersedingKeepsAttempts
<1>6. CASE Reconfigure  BY <1>6, ReconfiguringKeepsAttempts
<1>7. CASE \/ \E s \in Sources, to \in Contents \cup {Gone} : EditSource(s, to)
           \/ \E p \in PageNames : DeletePage(p) \/ AddEvidence(p)
  <2>1. UNCHANGED <<ledger, profile, run>>  BY <1>7 DEF EditSource, DeletePage, AddEvidence
  <2>2. QED BY <2>1, LookingKeepsAttempts
<1>8. QED BY <1>1, <1>2, <1>3, <1>4, <1>5, <1>6, <1>7 DEF Next

LEMMA AttemptsInvariant == Spec => []AttemptsInv
<1>1. Init => AttemptsInv
  <2> SUFFICES ASSUME Init PROVE AttemptsInv  OBVIOUS
  <2>1. Rows = {} /\ run.at # "digest"  BY DEF Init, Rows, ToSet, IdleRun
  <2>2. QED BY <2>1 DEF AttemptsInv, RowsCount, NotGivenUp
<1>2. IInv /\ AttemptsInv /\ [Next]_vars => AttemptsInv'  BY AttemptsStep, IngestAssumption
<1>3. QED BY <1>1, <1>2, IngestInvariantHolds, PTL DEF Spec

(* Whatever fails, is killed or is reconfigured: a content fails for good at     *)
(* most MaxAttempts times, and once more for each later profile.            *)
THEOREM AttemptsHaveABound == Spec => []AttemptsBounded
<1>1. IInv /\ AttemptsInv => AttemptsBounded
  <2> SUFFICES ASSUME IInv, AttemptsInv, NEW r \in Rows
               PROVE  r.attempts < MaxAttempts + profile
    BY DEF AttemptsBounded
  <2>1. TypeOK /\ RowInv  BY Unpack
  <2>2. profile \in Nat /\ r \in Row  BY <2>1, RowsAreTyped DEF TypeOK, RowInv
  <2>3. /\ r.profile \in 1..profile /\ r.attempts < MaxAttempts + r.profile
        /\ r.attempts \in Nat /\ MaxAttempts \in Nat
    BY <2>2, IngestAssumption DEF AttemptsInv, RowsCount, Counts, Row, IngestAssumption
  <2>4. QED BY <2>2, <2>3
<1>2. QED BY <1>1, IngestInvariantHolds, AttemptsInvariant, PTL

-----------------------------------------------------------------------------
(* Pages, index and ledger agree.                                           *)

Agrees(r) ==
  pages[r.page] # NoPage =>
    /\ pages[r.page].content = r.content
    /\ index[r.page] # NoPage /\ index[r.page].content = r.content

(* The page in hand is written and the row of its content is not.             *)
Replacing == {"add", "supersede", "record"}

RowsAgree == \A r \in SuccessRows : run.at \notin Replacing \/ r.source # Job[1] => Agrees(r)

InHandAgrees ==
  run.at \in Replacing /\ pages[run.page] # NoPage =>
    /\ pages[run.page].content = Job[2]
    /\ run.at # "add" => index[run.page] # NoPage /\ index[run.page].content = Job[2]

AgreeInv == faults \in Nat /\ (faults = 0 => RowsAgree /\ InHandAgrees)

(* A page that is left alone, goes away or gets evidence agrees as before.      *)
Left(p) ==
  \/ pages'[p] = pages[p] /\ index'[p] = index[p]
  \/ pages'[p] = NoPage
  \/ /\ pages[p] # NoPage /\ pages'[p].content = pages[p].content
     /\ index'[p] # NoPage /\ index'[p].content = pages'[p].content

LEMMA LeftPagesAgree ==
  ASSUME NEW r, Left(r.page), Agrees(r)
  PROVE  pages'[r.page] # NoPage =>
           /\ pages'[r.page].content = r.content
           /\ index'[r.page] # NoPage /\ index'[r.page].content = r.content
BY DEF Left, Agrees

LEMMA FaultsEndAgreement ==
  ASSUME AgreeInv, Fault
  PROVE  AgreeInv'
<1>1. faults' = faults + 1 /\ faults \in Nat  BY DEF AgreeInv, Fault
<1>2. faults' \in Nat /\ faults' # 0  BY <1>1
<1>3. QED BY <1>2 DEF AgreeInv

(* The run has no half-recorded page in hand, before and after the step; it     *)
(* records no success and writes no page.                                   *)
LEMMA OutsideReplacing ==
  ASSUME AgreeInv, UNCHANGED faults, run.at \notin Replacing, run'.at \notin Replacing,
         \A r \in SuccessRows' : r \in SuccessRows /\ Left(r.page)
  PROVE  AgreeInv'
<1>1. SUFFICES ASSUME faults = 0 PROVE RowsAgree' /\ InHandAgrees'
  BY DEF AgreeInv
<1>2. \A r \in SuccessRows' : Agrees(r)'
  <2> SUFFICES ASSUME NEW r \in SuccessRows' PROVE Agrees(r)'
    OBVIOUS
  <2>1. Agrees(r) /\ Left(r.page)  BY <1>1 DEF AgreeInv, RowsAgree
  <2>2. QED BY <2>1, LeftPagesAgree DEF Agrees
<1>3. QED BY <1>2 DEF RowsAgree, InHandAgrees

LEMMA LookingKeepsAgreement ==
  ASSUME IngestAssumption, IInv, AgreeInv,
         StartRun \/ SweepLooks \/ SweepRechecks \/ Scan \/ NextSource \/ Deferred
  PROVE  AgreeInv'
<1>1. run \in RunMemory  BY Unpack
<1>2. UNCHANGED <<ledger, pages, index, faults>>
  BY DEF StartRun, SweepLooks, SweepRechecks, Scan, NextSource, Deferred
<1>3. run.at \notin Replacing
  BY DEF StartRun, SweepLooks, SweepRechecks, Scan, NextSource, Deferred, Replacing
<1>4. run'.at \notin Replacing
  <2>1. IdleRun.at = "idle" /\ Done.at = "next"  BY <1>1, IdleAndDone
  <2>2. CASE StartRun \/ SweepLooks \/ SweepRechecks \/ Scan
    BY <1>1, <2>2 DEF StartRun, SweepLooks, SweepRechecks, Scan, Goto, RunMemory, Replacing
  <2>3. CASE NextSource \/ Deferred
    <3>1. run' = IdleRun \/ run' = Done \/ run' = [run EXCEPT !.at = "digest"]
      BY <2>3 DEF NextSource, Deferred
    <3>2. QED BY <1>1, <2>1, <3>1 DEF RunMemory, Replacing
  <2>4. QED BY <2>2, <2>3
<1>5. \A r \in SuccessRows' : r \in SuccessRows /\ Left(r.page)
  BY <1>2 DEF SuccessRows, Rows, Left
<1>6. QED BY <1>2, <1>3, <1>4, <1>5, OutsideReplacing

LEMMA DigestingKeepsAgreement ==
  ASSUME IngestAssumption, IInv, AgreeInv, NEW s \in Sources, Digested(s)
  PROVE  AgreeInv'
<1>1. run \in RunMemory  BY Unpack
<1>2. UNCHANGED <<ledger, pages, index, faults>>  BY DEF Digested
<1>3. run.at \notin Replacing /\ run'.at \notin Replacing
  BY <1>1 DEF Digested, RunMemory, Replacing
<1>4. \A r \in SuccessRows' : r \in SuccessRows /\ Left(r.page)
  BY <1>2 DEF SuccessRows, Rows, Left
<1>5. QED BY <1>2, <1>3, <1>4, OutsideReplacing

LEMMA SweepingKeepsAgreement ==
  ASSUME IngestAssumption, IInv, AgreeInv, SweepMoves \/ SweepRecords
  PROVE  AgreeInv'
<1>1. /\ TypeOK /\ RowInv /\ RunInv /\ run \in RunMemory
      /\ pages \in [PageNames -> Page \cup {NoPage}]
      /\ \A r \in SuccessRows : r.page \in PageNames
  BY Unpack
<1>2. CASE Fault  BY <1>2, FaultsEndAgreement
<1>3. CASE ~Fault
  <2>1. UNCHANGED <<index, faults>>  BY <1>3 DEF SweepMoves, SweepRecords
  <2>2. run.at \notin Replacing  BY DEF SweepMoves, SweepRecords, Replacing
  <2>3. run'.at \notin Replacing
    BY <1>1 DEF SweepMoves, SweepRecords, Goto, RunMemory, Replacing
  <2>4. CASE SweepMoves
    <3>1. /\ UNCHANGED ledger /\ run.at = "move"
          /\ pages' = pages \/ pages' = [pages EXCEPT ![run.orphan.page] = NoPage]
      BY <2>4 DEF SweepMoves
    <3>2. \A p \in PageNames : pages'[p] = pages[p] \/ pages'[p] = NoPage  BY <1>1, <3>1
    <3>3. SuccessRows' = SuccessRows  BY <3>1 DEF SuccessRows, Rows
    <3>4. \A r \in SuccessRows' : r \in SuccessRows /\ Left(r.page)
      BY <1>1, <2>1, <3>2, <3>3 DEF Left
    <3>5. QED BY <2>1, <2>2, <2>3, <3>4, OutsideReplacing
  <2>5. CASE SweepRecords
    <3>1. /\ UNCHANGED pages /\ run.at = "supersedeOrphan"
          /\ ledger' = Upsert([run.orphan EXCEPT !.status = "superseded"])
      BY <1>3, <2>5 DEF SweepRecords
    <3>2. PICK o \in Row : o = run.orphan
      BY <1>1, <3>1, RowsAreTyped DEF RunInv, OrphanIsRecorded, Sweeping, RowInv
    <3>3. PICK row \in Row : row = [o EXCEPT !.status = "superseded"] /\ row.status = "superseded"
      <4>1. [o EXCEPT !.status = "superseded"] \in Row  BY DEF Row, Statuses
      <4>2. [o EXCEPT !.status = "superseded"].status = "superseded"  BY DEF Row
      <4>3. QED BY <4>1, <4>2
    <3>4. Rows' = {r \in Rows : ~SameKey(r, row)} \cup {row}
      BY <1>1, <3>1, <3>2, <3>3, UpsertRows DEF RowInv
    <3>5. \A r \in SuccessRows' : r \in SuccessRows  BY <3>3, <3>4 DEF SuccessRows
    <3>6. \A r : Left(r.page)  BY <2>1, <3>1 DEF Left
    <3>7. QED BY <2>1, <2>2, <2>3, <3>5, <3>6, OutsideReplacing
  <2>6. QED BY <2>4, <2>5
<1>4. QED BY <1>2, <1>3

LEMMA FailingKeepsAgreement ==
  ASSUME IngestAssumption, IInv, AgreeInv, DigestFails \/ WriteFails \/ Killed
  PROVE  AgreeInv'
<1>1. /\ TypeOK /\ RowInv /\ RunInv /\ run \in RunMemory  BY Unpack
<1>2. CASE WriteFails \/ Killed
  BY <1>2, FaultsEndAgreement DEF WriteFails, InfraFailure, Killed
<1>3. CASE DigestFails
  <2>1. PICK class : ledger' = Upsert(FailedRow(Job[1], Job[2], class))
    BY <1>3 DEF DigestFails, recordFailure
  <2>2. run.at = "digest" /\ run' = Done /\ UNCHANGED <<pages, index, faults>>
    BY <1>3 DEF DigestFails
  <2>3. Job[1] \in Sources /\ Job[2] \in Contents
    BY <1>1, <2>2, JobIsFirst DEF RunInv, RunMemory
  <2>4. PICK row \in Row : ledger' = Upsert(row) /\ row.status # "success"
    <3>1. PICK t \in Sources, c \in Contents : t = Job[1] /\ c = Job[2]  BY <2>3
    <3>2. FailedRow(t, c, class) \in Row /\ FailedRow(t, c, class).status # "success"
      BY <1>1, FailedRowTyped
    <3>3. QED BY <2>1, <3>1, <3>2
  <2>5. Rows' = {r \in Rows : ~SameKey(r, row)} \cup {row}  BY <1>1, <2>4, UpsertRows DEF RowInv
  <2>6. \A r \in SuccessRows' : r \in SuccessRows  BY <2>4, <2>5 DEF SuccessRows
  <2>7. \A r : Left(r.page)  BY <2>2 DEF Left
  <2>8. Done.at = "next"  BY <1>1, IdleAndDone
  <2>9. run.at \notin Replacing /\ run'.at \notin Replacing  BY <2>2, <2>8 DEF Replacing
  <2>10. QED BY <2>2, <2>6, <2>7, <2>9, OutsideReplacing
<1>4. QED BY <1>2, <1>3

(* The page in hand is no other source's, so what it gets concerns no other row. *)
LEMMA WritingKeepsAgreement ==
  ASSUME IngestAssumption, IInv, AgreeInv, WritePage \/ IndexPage
  PROVE  AgreeInv'
<1>1. /\ TypeOK /\ RowInv /\ RunInv /\ run \in RunMemory
      /\ pages \in [PageNames -> Page \cup {NoPage}]
      /\ \A r \in SuccessRows : r.page \in PageNames
  BY Unpack
<1>2. run.at \in {"write", "add"} /\ UNCHANGED <<ledger, faults>>
  BY DEF WritePage, IndexPage
<1>3. run.todo # {} /\ run.page \in PageNames /\ ~wikiPageTakenByOther(run.page, Job[1])
  BY <1>1, <1>2 DEF RunInv, NamesAreHeld, Writing
<1>4. PICK new \in Page : new = NewPage /\ new # NoPage /\ new.content = Job[2]
  <2>1. NewPage \in Page /\ NewPage # NoPage  BY <1>1, <1>3, NewPageIsTyped
  <2>2. QED BY <2>1 DEF NewPage
<1>5. /\ run'.at = IF run.at = "write" THEN "add" ELSE "supersede"
      /\ run'.page = run.page /\ Job' = Job
  BY <1>1, GotoPhase DEF WritePage, IndexPage, Goto, Phases
<1>6. index \in [PageNames -> Page \cup {NoPage}]  BY <1>1 DEF TypeOK
<1>7. /\ \A p \in PageNames \ {run.page} : Left(p)
      /\ run.at = "write" => pages'[run.page] = new
      /\ run.at = "add" => pages' = pages /\ index'[run.page] = new
  <2>1. CASE WritePage
    <3>1. pages' = [pages EXCEPT ![run.page] = new] /\ index' = index /\ run.at = "write"
      BY <1>4, <2>1 DEF WritePage
    <3>2. QED BY <1>1, <1>3, <3>1 DEF Left
  <2>2. CASE IndexPage
    <3>1. pages' = pages /\ index' = [index EXCEPT ![run.page] = new] /\ run.at = "add"
      BY <1>4, <2>2 DEF IndexPage
    <3>2. QED BY <1>3, <1>6, <3>1 DEF Left
  <2>3. QED BY <2>1, <2>2
<1>8. SUFFICES ASSUME faults = 0 PROVE RowsAgree' /\ InHandAgrees'
  BY <1>2 DEF AgreeInv
<1>9. RowsAgree /\ InHandAgrees  BY <1>8 DEF AgreeInv
<1>10. RowsAgree'
  <2>1. SuccessRows' = SuccessRows  BY <1>2 DEF SuccessRows, Rows
  <2> SUFFICES ASSUME NEW r \in SuccessRows, r.source # Job[1] PROVE Agrees(r)'
    BY <1>2, <1>5, <2>1 DEF RowsAgree, Replacing
  <2>2. r.page # run.page  BY <1>3 DEF wikiPageTakenByOther, SuccessRows
  <2>3. Left(r.page) /\ Agrees(r)  BY <1>1, <1>7, <1>9, <2>2 DEF RowsAgree
  <2>4. QED BY <2>3, LeftPagesAgree DEF Agrees
<1>11. InHandAgrees'
  <2>1. CASE run.at = "write"
    <3>1. pages'[run'.page].content = Job'[2] /\ run'.at = "add"  BY <1>4, <1>5, <1>7, <2>1
    <3>2. QED BY <3>1 DEF InHandAgrees
  <2>2. CASE run.at = "add"
    <3>1. pages[run.page] # NoPage => pages[run.page].content = Job[2]
      BY <1>9, <2>2 DEF InHandAgrees, Replacing
    <3>2. QED BY <1>4, <1>5, <1>7, <2>2, <3>1 DEF InHandAgrees
  <2>3. QED BY <1>2, <2>1, <2>2
<1>12. QED BY <1>10, <1>11

LEMMA SupersedingKeepsAgreement ==
  ASSUME IngestAssumption, IInv, AgreeInv, SupersedePrevSuccess
  PROVE  AgreeInv'
<1>1. /\ TypeOK /\ RowInv /\ run \in RunMemory  BY Unpack
<1>2. /\ run.at = "supersede" /\ UNCHANGED <<pages, index, faults>>
      /\ run' = [run EXCEPT !.at = "record"] /\ ledger \in Seq(Row)
  BY <1>1 DEF SupersedePrevSuccess, Goto, RowInv
<1>3. run'.at = "record" /\ run'.page = run.page /\ Job' = Job
  BY <1>1, <1>2, GotoPhase DEF Phases
<1>4. DOMAIN ledger' = DOMAIN ledger
      /\ \A n \in DOMAIN ledger : ledger'[n].status = "success"
                                   => ledger'[n] = ledger[n] /\ ledger[n].source # Job[1]
  <2>1. ledger' = [n \in DOMAIN ledger |->
          IF ledger[n].source = Job[1] /\ ledger[n].status = "success"
          THEN [ledger[n] EXCEPT !.status = "superseded"] ELSE ledger[n]]
    BY DEF SupersedePrevSuccess
  <2>2. QED BY <1>2, <2>1, SupersededRows
<1>5. \A r \in SuccessRows' : r \in SuccessRows /\ r.source # Job[1]
  BY <1>4 DEF SuccessRows, Rows, ToSet
<1>6. SUFFICES ASSUME faults = 0 PROVE RowsAgree' /\ InHandAgrees'
  BY <1>2 DEF AgreeInv
<1>7. RowsAgree /\ InHandAgrees  BY <1>6 DEF AgreeInv
<1>8. \A r \in SuccessRows' : Agrees(r)'
  BY <1>2, <1>5, <1>7 DEF RowsAgree, Agrees
<1>9. RowsAgree'  BY <1>8 DEF RowsAgree
<1>10. InHandAgrees'  BY <1>2, <1>3, <1>7 DEF InHandAgrees, Replacing
<1>11. QED BY <1>9, <1>10

LEMMA RecordingKeepsAgreement ==
  ASSUME IngestAssumption, IInv, AgreeInv, RecordSuccess
  PROVE  AgreeInv'
<1>1. /\ TypeOK /\ RowInv /\ RunInv /\ run \in RunMemory  BY Unpack
<1> DEFINE new == [source |-> Job[1], content |-> Job[2], status |-> "success",
                   page |-> run.page, attempts |-> 0, profile |-> profile]
<1>2. /\ run.at = "record" /\ UNCHANGED <<pages, index, faults>>
      /\ ledger' = Upsert(new)
      /\ run' = IF run.previous = run.page THEN Done ELSE [run EXCEPT !.at = "retire"]
  BY DEF RecordSuccess
<1>3. /\ run.todo # {} /\ run.page \in PageNames
      /\ \A r \in SuccessRows : r.source # Job[1]
  BY <1>1, <1>2 DEF RunInv, NamesAreHeld, NoSuccessYet, Writing
<1>4. Job[1] \in Sources /\ Job[2] \in Contents  BY <1>1, <1>3, JobIsFirst DEF RunMemory
<1>5. PICK row \in Row : row = new /\ row.page = run.page /\ row.content = Job[2]
  <2>1. new \in Row  BY <1>1, <1>3, <1>4 DEF TypeOK, Row, Statuses
  <2>2. QED BY <2>1
<1> HIDE DEF new
<1>6. Rows' = {r \in Rows : ~SameKey(r, row)} \cup {row}  BY <1>1, <1>2, <1>5, UpsertRows DEF RowInv
<1>7. \A r \in SuccessRows' : r \in SuccessRows \/ r = row  BY <1>6 DEF SuccessRows
<1>8. run'.at \notin Replacing
  <2>1. Done.at = "next"  BY <1>1, IdleAndDone
  <2>2. QED BY <1>1, <1>2, <2>1 DEF RunMemory, Replacing
<1>9. SUFFICES ASSUME faults = 0 PROVE RowsAgree' /\ InHandAgrees'
  BY <1>2 DEF AgreeInv
<1>10. RowsAgree /\ InHandAgrees  BY <1>9 DEF AgreeInv
<1>11. Agrees(row)  BY <1>2, <1>5, <1>10 DEF InHandAgrees, Agrees, Replacing
<1>12. \A r \in SuccessRows : Agrees(r)  BY <1>3, <1>10 DEF RowsAgree
<1>13. \A r \in SuccessRows' : Agrees(r)'  BY <1>2, <1>7, <1>11, <1>12 DEF Agrees
<1>14. QED BY <1>8, <1>13 DEF RowsAgree, InHandAgrees

(* The page that is removed is not the one the row of its source names, and no   *)
(* other source has it.                                                     *)
LEMMA RetiringKeepsAgreement ==
  ASSUME IngestAssumption, IInv, AgreeInv, RetirePrevious
  PROVE  AgreeInv'
<1>1. /\ TypeOK /\ RowInv /\ RunInv /\ run \in RunMemory
      /\ pages \in [PageNames -> Page \cup {NoPage}]
      /\ \A r \in SuccessRows : r.page \in PageNames
  BY Unpack
<1>2. CASE Fault  BY <1>2, FaultsEndAgreement
<1>3. CASE ~Fault
  <2>1. /\ run.at = "retire" /\ run' = Done /\ UNCHANGED <<ledger, faults>>
        /\ index' = [index EXCEPT ![run.previous] = NoPage]
        /\ pages' = [pages EXCEPT ![run.previous] =
                       IF pages[run.page] = NoPage THEN pages[run.previous] ELSE NoPage]
    BY <1>3 DEF RetirePrevious
  <2>2. /\ ~wikiPageTakenByOther(run.previous, Job[1]) /\ run.previous # run.page
        /\ \E r \in SuccessRows : r.source = Job[1] /\ r.page = run.page
    BY <1>1, <2>1 DEF RunInv, NamesAreHeld, PreviousIsFollowed
  <2>3. SuccessRows' = SuccessRows  BY <2>1 DEF SuccessRows, Rows
  <2>4. \A r \in SuccessRows : r.page # run.previous
    <3> SUFFICES ASSUME NEW r \in SuccessRows, r.page = run.previous PROVE FALSE
      OBVIOUS
    <3>1. r.source = Job[1]  BY <2>2 DEF wikiPageTakenByOther, SuccessRows
    <3>2. QED BY <1>1, <2>2, <3>1 DEF RowInv, OneSuccess
  <2>5. index \in [PageNames -> Page \cup {NoPage}]  BY <1>1 DEF TypeOK
  <2>6. \A r \in SuccessRows' : r \in SuccessRows /\ Left(r.page)
    BY <1>1, <2>1, <2>3, <2>4, <2>5 DEF Left
  <2>7. run.at \notin Replacing /\ run'.at \notin Replacing
    BY <1>1, <2>1, IdleAndDone DEF Replacing
  <2>8. QED BY <2>1, <2>6, <2>7, OutsideReplacing
<1>4. QED BY <1>2, <1>3

LEMMA UsersKeepAgreement ==
  ASSUME IngestAssumption, IInv, AgreeInv,
         \/ Reconfigure
         \/ \E s \in Sources, to \in Contents \cup {Gone} : EditSource(s, to)
         \/ \E p \in PageNames : DeletePage(p) \/ AddEvidence(p)
         \/ UNCHANGED vars
  PROVE  AgreeInv'
<1>1. /\ TypeOK /\ RowInv /\ RunInv /\ run \in RunMemory
      /\ pages \in [PageNames -> Page \cup {NoPage}]
      /\ \A r \in SuccessRows : r.page \in PageNames
  BY Unpack
<1>2. UNCHANGED <<ledger, run, faults>>
  BY DEF Reconfigure, EditSource, DeletePage, AddEvidence, vars
<1>3. SuccessRows' = SuccessRows /\ Job' = Job  BY <1>2 DEF SuccessRows, Rows, Job
<1>4. \A p \in PageNames : Left(p)
  <2>1. CASE pages' = pages /\ index' = index  BY <2>1 DEF Left
  <2>2. CASE \/ Reconfigure \/ UNCHANGED vars
             \/ \E s \in Sources, to \in Contents \cup {Gone} : EditSource(s, to)
    BY <2>1, <2>2 DEF Reconfigure, EditSource, vars
  <2>3. ASSUME NEW d \in PageNames, DeletePage(d)
        PROVE  \A p \in PageNames : Left(p)
    <3>1. /\ pages' = [pages EXCEPT ![d] = NoPage]
          /\ index' = index \/ index' = [index EXCEPT ![d] = NoPage]
      BY <2>3 DEF DeletePage
    <3>2. index \in [PageNames -> Page \cup {NoPage}]  BY <1>1 DEF TypeOK
    <3>3. \A p \in PageNames : /\ p = d => pages'[p] = NoPage
                               /\ p # d => pages'[p] = pages[p] /\ index'[p] = index[p]
      BY <1>1, <3>1, <3>2
    <3>4. QED BY <3>3 DEF Left
  <2>4. ASSUME NEW d \in PageNames, AddEvidence(d)
        PROVE  \A p \in PageNames : Left(p)
    <3>1. pages[d] # NoPage /\ pages[d] \in Page  BY <1>1, <2>4 DEF AddEvidence
    <3>2. PICK new \in Page : /\ new = [pages[d] EXCEPT !.evidence = TRUE]
                              /\ new.content = pages[d].content /\ new # NoPage
      <4>1. PICK old \in Page : old = pages[d]  BY <3>1
      <4>2. [old EXCEPT !.evidence = TRUE] \in Page  BY DEF Page
      <4>3. [old EXCEPT !.evidence = TRUE].content = old.content  BY DEF Page
      <4>4. QED BY <4>1, <4>2, <4>3, Names
    <3>3. pages' = [pages EXCEPT ![d] = new]  BY <1>1, <2>4, <3>2 DEF AddEvidence
    <3>4. pages'[d] = new  BY <1>1, <3>3
    <3>5. index' = [index EXCEPT ![d] = new] /\ index \in [PageNames -> Page \cup {NoPage}]
      BY <1>1, <2>4, <3>4 DEF AddEvidence, TypeOK
    <3>6. \A p \in PageNames : /\ p = d => pages'[p] = new /\ index'[p] = new
                               /\ p # d => pages'[p] = pages[p] /\ index'[p] = index[p]
      BY <1>1, <3>3, <3>5
    <3>7. QED BY <3>1, <3>2, <3>6 DEF Left
  <2>5. QED BY <2>2, <2>3, <2>4
<1>5. SUFFICES ASSUME faults = 0 PROVE RowsAgree' /\ InHandAgrees'
  BY <1>2 DEF AgreeInv
<1>6. RowsAgree /\ InHandAgrees  BY <1>5 DEF AgreeInv
<1>7. RowsAgree'
  <2> SUFFICES ASSUME NEW r \in SuccessRows, run.at \notin Replacing \/ r.source # Job[1]
               PROVE  Agrees(r)'
    BY <1>2, <1>3 DEF RowsAgree
  <2>1. Agrees(r) /\ Left(r.page)  BY <1>1, <1>4, <1>6 DEF RowsAgree
  <2>2. QED BY <2>1, LeftPagesAgree DEF Agrees
<1>8. InHandAgrees'
  <2>1. CASE run.at \notin Replacing  BY <1>2, <2>1 DEF InHandAgrees
  <2>2. CASE run.at \in Replacing
    <3>1. run.page \in PageNames  BY <1>1, <2>2 DEF RunInv, NamesAreHeld, Replacing, Writing
    <3>2. Left(run.page)  BY <1>4, <3>1
    <3>3. QED BY <1>2, <1>3, <1>6, <2>2, <3>2 DEF InHandAgrees, Left
  <2>3. QED BY <2>1, <2>2
<1>9. QED BY <1>7, <1>8

LEMMA AgreementStep ==
  ASSUME IngestAssumption, IInv, AgreeInv, [Next]_vars
  PROVE  AgreeInv'
<1>1. ASSUME NEW s \in Sources, Digested(s) PROVE AgreeInv'  BY <1>1, DigestingKeepsAgreement
<1>2. QED
  BY <1>1, LookingKeepsAgreement, SweepingKeepsAgreement, FailingKeepsAgreement,
     WritingKeepsAgreement, SupersedingKeepsAgreement, RecordingKeepsAgreement,
     RetiringKeepsAgreement, UsersKeepAgreement DEF Next

LEMMA AgreementInvariant == Spec => []AgreeInv
<1>1. Init => AgreeInv
  <2> SUFFICES ASSUME Init PROVE AgreeInv  OBVIOUS
  <2>1. SuccessRows = {} /\ run.at \notin Replacing /\ faults = 0
    BY DEF Init, SuccessRows, Rows, ToSet, IdleRun, Replacing
  <2>2. QED BY <2>1 DEF AgreeInv, RowsAgree, InHandAgrees
<1>2. IInv /\ AgreeInv /\ [Next]_vars => AgreeInv'  BY AgreementStep, IngestAssumption
<1>3. QED BY <1>1, <1>2, IngestInvariantHolds, PTL DEF Spec

(* While nothing failed, ledger, page and index tell of the same content,       *)
(* whatever users edit, delete and write beside the run.                     *)
THEOREM PagesAgreeWithRows == Spec => []PagesAgree
<1>1. AgreeInv => PagesAgree
  BY DEF AgreeInv, RowsAgree, Agrees, PagesAgree, Replacing
<1>2. QED BY <1>1, AgreementInvariant, PTL
=============================================================================
