--------------------------- MODULE WikiIndexProofs ---------------------------
(****************************************************************************)
(* Theorems about WikiIndex for any number of pages, versions and calls,    *)
(* with rebuilds, kills and failures at any point: the index never vouches  *)
(* for a text it does not hold.                                             *)
(****************************************************************************)
EXTENDS WikiIndex, TLAPS

(* Where a page stands in the walk of a check.                                *)
Walking == {"walk", "stat", "read", "parsePage"}

Places == Walking \cup {"idle", "apply", "clearText", "clearMeta", "clearEmbeddings", "load",
                        "stale", "text", "store"}

Call == [at : {"idle", "parse", "add", "remove"}, page : Pages, version : Versions,
         title : Versions]

Check == [at : Places, command : {"none", "search"} \cup Commands, page : Pages,
          stamp : Versions, content : Versions, indexed : [Pages -> 0 .. Unknown],
          changes : [Pages -> Row], stale : SUBSET (Pages \X Versions),
          texts : SUBSET (Pages \X Versions \X Versions)]

(* A row was put together from the first n versions of its page, and its     *)
(* stamp was taken before the content and the title were read.               *)
Sound(row, n) ==
  /\ row.hash <= n /\ row.title <= n
  /\ row.stamp # NoStamp => row.stamp <= row.hash /\ row.stamp <= row.title

(* A call holds versions its page has had, n[p] being the number of them.    *)
SoundCall(d, n) == d.version <= n[d.page] /\ d.title <= n[d.page]

(* A check holds sound rows, and on its way through a page reads versions no *)
(* older than the stamp it took.                                             *)
SoundCheck(ch, n) ==
  /\ \A p \in Pages : Sound(ch.changes[p], n[p])
  /\ ch.at \in {"stat", "read", "parsePage"} => ch.page \in Pages
  /\ ch.at \in {"read", "parsePage"} => ch.stamp <= n[ch.page]
  /\ ch.at = "parsePage" => ch.stamp <= ch.content /\ ch.content <= n[ch.page]

FilesAreLatest == \A p \in Pages : file[p] \in {0, latest[p]}
RowsAreSound   == \A p \in Pages : Sound(meta[p], latest[p])
CallsAreSound  == \A c \in Callers : SoundCall(call[c], latest)
ChecksAreSound == \A k \in Processes : SoundCheck(check[k], latest)

IndexInv ==
  /\ TypeOK
  /\ call \in [Callers -> Call] /\ check \in [Processes -> Check]
  /\ FilesAreLatest
  /\ RowsAreSound
  /\ CallsAreSound
  /\ ChecksAreSound

-----------------------------------------------------------------------------
LEMMA Numbers ==
  /\ IndexPage \in Pages /\ \A v \in Versions : ContentOf[v] \in Versions
  /\ LastPage \in Nat /\ LastPage # 0 /\ MaxVersion \in Nat /\ 1 \in Pages
  /\ Pages \subseteq Nat /\ Versions \subseteq Nat /\ 0 \in Versions
  /\ Versions \subseteq 0 .. Unknown /\ Unknown \in 0 .. Unknown
BY WikiIndexAssumption DEF Pages, Versions, Unknown

LEMMA Constants ==
  /\ NoRow \in Row /\ NoEmbedding \in Embedding /\ IdleCall \in Call /\ IdleCheck \in Check
<1>1. NoRow \in Row /\ NoEmbedding \in Embedding  BY Numbers DEF NoRow, Row, NoEmbedding, Embedding
<1>2. IdleCall \in Call  BY Numbers DEF IdleCall, Call
<1>3. 1 \in Pages  BY Numbers
<1>4. [p \in Pages |-> Unknown] \in [Pages -> 0 .. Unknown]  BY Numbers
<1>5. IdleCheck \in Check  BY Numbers, <1>1, <1>3, <1>4 DEF IdleCheck, Check, Places, Walking
<1>6. QED BY <1>1, <1>2, <1>5

LEMMA NoRowIsSound ==
  ASSUME NEW n \in Nat PROVE Sound(NoRow, n)
BY DEF Sound, NoRow, NoStamp

LEMMA SoundGrows ==
  ASSUME NEW row \in Row, NEW n \in Nat, NEW m \in Nat, n <= m, Sound(row, n)
  PROVE  Sound(row, m)
<1>1. row.hash \in Nat /\ row.title \in Nat /\ row.stamp \in Nat  BY Numbers DEF Row
<1>2. QED BY <1>1 DEF Sound

LEMMA SoundCallGrows ==
  ASSUME NEW d \in Call, NEW n \in [Pages -> Versions], NEW m \in [Pages -> Versions],
         \A p \in Pages : n[p] <= m[p], SoundCall(d, n)
  PROVE  SoundCall(d, m)
<1>1. d.page \in Pages /\ d.version \in Nat /\ d.title \in Nat  BY Numbers DEF Call
<1>2. n[d.page] \in Nat /\ m[d.page] \in Nat /\ n[d.page] <= m[d.page]  BY <1>1, Numbers
<1>3. QED BY <1>1, <1>2 DEF SoundCall

LEMMA SoundCheckGrows ==
  ASSUME NEW ch \in Check, NEW n \in [Pages -> Versions], NEW m \in [Pages -> Versions],
         \A p \in Pages : n[p] <= m[p], SoundCheck(ch, n)
  PROVE  SoundCheck(ch, m)
<1>1. ASSUME NEW p \in Pages PROVE Sound(ch.changes[p], m[p])
  <2>1. ch.changes[p] \in Row  BY DEF Check
  <2>2. n[p] \in Nat /\ m[p] \in Nat /\ n[p] <= m[p]  BY Numbers
  <2>3. Sound(ch.changes[p], n[p])  BY DEF SoundCheck
  <2>4. QED BY <2>1, <2>2, <2>3, SoundGrows
<1>2. ch.stamp \in Nat /\ ch.content \in Nat  BY Numbers DEF Check
<1>3. ASSUME ch.page \in Pages PROVE n[ch.page] \in Nat /\ m[ch.page] \in Nat /\ n[ch.page] <= m[ch.page]
  BY <1>3, Numbers
<1>4. ch.at \in {"stat", "read", "parsePage"} => ch.page \in Pages  BY DEF SoundCheck
<1>5. ch.at \in {"read", "parsePage"} => ch.stamp <= m[ch.page]
  BY <1>2, <1>3, <1>4 DEF SoundCheck
<1>6. ch.at = "parsePage" => ch.stamp <= ch.content /\ ch.content <= m[ch.page]
  BY <1>2, <1>3, <1>4 DEF SoundCheck
<1>7. QED BY <1>1, <1>4, <1>5, <1>6 DEF SoundCheck

LEMMA IdleIsSound ==
  ASSUME NEW n \in [Pages -> Versions]
  PROVE  SoundCall(IdleCall, n) /\ SoundCheck(IdleCheck, n)
<1>1. \A p \in Pages : n[p] \in Nat  BY Numbers
<1>2. IdleCall.page = 1 /\ IdleCall.version = 0 /\ IdleCall.title = 0  BY DEF IdleCall
<1>3. SoundCall(IdleCall, n)  BY <1>1, <1>2, Numbers DEF SoundCall
<1>4. IdleCheck.at = "idle" /\ IdleCheck.changes = [p \in Pages |-> NoRow]  BY DEF IdleCheck
<1>5. \A p \in Pages : Sound(IdleCheck.changes[p], n[p])  BY <1>1, <1>4, NoRowIsSound
<1>6. SoundCheck(IdleCheck, n)  BY <1>4, <1>5 DEF SoundCheck
<1>7. QED BY <1>3, <1>6

(* The types, and what holds of what is there, one at a time.                 *)
LEMMA Unpacked ==
  ASSUME IndexInv
  PROVE  /\ file \in [Pages -> Versions] /\ latest \in [Pages -> Versions]
         /\ fts \in [Pages -> Versions] /\ meta \in [Pages -> Row]
         /\ embedding \in [Pages -> Embedding]
         /\ created \in BOOLEAN /\ due \in BOOLEAN /\ faults \in 0 .. MaxFaults
         /\ call \in [Callers -> Call] /\ check \in [Processes -> Check]
         /\ FilesAreLatest /\ RowsAreSound /\ CallsAreSound /\ ChecksAreSound
         /\ \A p \in Pages : file[p] \in Nat /\ latest[p] \in Nat
BY Numbers DEF IndexInv, TypeOK

LEMMA InitIndex == ASSUME Init PROVE IndexInv
<1>1. /\ latest \in [Pages -> {0, 1}] /\ file = latest
      /\ fts = [p \in Pages |-> 0] /\ meta = [p \in Pages |-> NoRow]
      /\ embedding = [p \in Pages |-> NoEmbedding] /\ created = FALSE /\ due = TRUE
      /\ call = [c \in Callers |-> IdleCall] /\ check = [k \in Processes |-> IdleCheck]
      /\ faults = 0
  BY DEF Init
<1>2. {0, 1} \subseteq Versions  BY WikiIndexAssumption DEF Versions
<1>3. latest \in [Pages -> Versions] /\ file \in [Pages -> Versions]  BY <1>1, <1>2
<1>4. fts \in [Pages -> Versions] /\ meta \in [Pages -> Row] /\ embedding \in [Pages -> Embedding]
  BY <1>1, Numbers, Constants
<1>5. faults \in 0 .. MaxFaults  BY <1>1, WikiIndexAssumption
<1>6. TypeOK  BY <1>1, <1>3, <1>4, <1>5 DEF TypeOK
<1>7. call \in [Callers -> Call] /\ check \in [Processes -> Check]  BY <1>1, Constants
<1>8. FilesAreLatest  BY <1>1 DEF FilesAreLatest
<1>9. RowsAreSound  BY <1>1, <1>3, Numbers, NoRowIsSound DEF RowsAreSound
<1>10. CallsAreSound /\ ChecksAreSound
  BY <1>1, <1>3, IdleIsSound DEF CallsAreSound, ChecksAreSound
<1>11. QED BY <1>6, <1>7, <1>8, <1>9, <1>10 DEF IndexInv

(* A step may touch the files, the rows or the embeddings as well, if it      *)
(* keeps them sound; then what calls and checks hold stays sound.             *)
Tables ==
  /\ file' \in [Pages -> Versions] /\ latest' \in [Pages -> Versions]
  /\ fts' \in [Pages -> Versions] /\ meta' \in [Pages -> Row]
  /\ embedding' \in [Pages -> Embedding]
  /\ created' \in BOOLEAN /\ due' \in BOOLEAN /\ faults' \in 0 .. MaxFaults
  /\ \A p \in Pages : latest[p] <= latest'[p]
  /\ FilesAreLatest' /\ RowsAreSound'

LEMMA CallsStay ==
  ASSUME IndexInv, Tables, call' = call
  PROVE  call' \in [Callers -> Call] /\ CallsAreSound'
<1>1. call' \in [Callers -> Call]  BY Unpacked
<1>2. ASSUME NEW c \in Callers PROVE SoundCall(call'[c], latest')
  <2>1. call[c] \in Call /\ SoundCall(call[c], latest)  BY Unpacked DEF CallsAreSound
  <2>2. latest \in [Pages -> Versions] /\ latest' \in [Pages -> Versions]
        /\ \A p \in Pages : latest[p] <= latest'[p]
    BY Unpacked DEF Tables
  <2>3. SoundCall(call[c], latest')  BY <2>1, <2>2, SoundCallGrows
  <2>4. QED BY <2>3
<1>3. QED BY <1>1, <1>2 DEF CallsAreSound

LEMMA ChecksStay ==
  ASSUME IndexInv, Tables, check' = check
  PROVE  check' \in [Processes -> Check] /\ ChecksAreSound'
<1>1. check' \in [Processes -> Check]  BY Unpacked
<1>2. ASSUME NEW k \in Processes PROVE SoundCheck(check'[k], latest')
  <2>1. check[k] \in Check /\ SoundCheck(check[k], latest)  BY Unpacked DEF ChecksAreSound
  <2>2. latest \in [Pages -> Versions] /\ latest' \in [Pages -> Versions]
        /\ \A p \in Pages : latest[p] <= latest'[p]
    BY Unpacked DEF Tables
  <2>3. SoundCheck(check[k], latest')  BY <2>1, <2>2, SoundCheckGrows
  <2>4. QED BY <2>3
<1>3. QED BY <1>1, <1>2 DEF ChecksAreSound

(* A call moves on to d.                                                      *)
LEMMA CallMoves ==
  ASSUME IndexInv, Tables, NEW c \in Callers, NEW d \in Call, SoundCall(d, latest'),
         call' = [call EXCEPT ![c] = d], check' = check
  PROVE  IndexInv'
<1>1. call \in [Callers -> Call]  BY Unpacked
<1>2. call' \in [Callers -> Call]  BY <1>1
<1>3. ASSUME NEW b \in Callers PROVE SoundCall(call'[b], latest')
  <2>1. CASE b = c
    <3>1. call'[b] = d  BY <1>1, <2>1
    <3>2. QED BY <3>1
  <2>2. CASE b # c
    <3>1. call'[b] = call[b]  BY <1>1, <2>2
    <3>2. call[b] \in Call /\ SoundCall(call[b], latest)  BY Unpacked DEF CallsAreSound
    <3>3. latest \in [Pages -> Versions] /\ latest' \in [Pages -> Versions]
          /\ \A p \in Pages : latest[p] <= latest'[p]
      BY Unpacked DEF Tables
    <3>4. SoundCall(call[b], latest')  BY <3>2, <3>3, SoundCallGrows
    <3>5. QED BY <3>1, <3>4
  <2>3. QED BY <2>1, <2>2
<1>4. CallsAreSound'  BY <1>3 DEF CallsAreSound
<1>5. check' \in [Processes -> Check] /\ ChecksAreSound'  BY ChecksStay
<1>6. TypeOK'  BY DEF Tables, TypeOK
<1>7. QED BY <1>2, <1>4, <1>5, <1>6 DEF IndexInv, Tables

(* A check moves on to ch.                                                    *)
LEMMA CheckMoves ==
  ASSUME IndexInv, Tables, NEW k \in Processes, NEW ch \in Check, SoundCheck(ch, latest'),
         check' = [check EXCEPT ![k] = ch], call' = call
  PROVE  IndexInv'
<1>1. check \in [Processes -> Check]  BY Unpacked
<1>2. check' \in [Processes -> Check]  BY <1>1
<1>3. ASSUME NEW b \in Processes PROVE SoundCheck(check'[b], latest')
  <2>1. CASE b = k
    <3>1. check'[b] = ch  BY <1>1, <2>1
    <3>2. QED BY <3>1
  <2>2. CASE b # k
    <3>1. check'[b] = check[b]  BY <1>1, <2>2
    <3>2. check[b] \in Check /\ SoundCheck(check[b], latest)  BY Unpacked DEF ChecksAreSound
    <3>3. latest \in [Pages -> Versions] /\ latest' \in [Pages -> Versions]
          /\ \A p \in Pages : latest[p] <= latest'[p]
      BY Unpacked DEF Tables
    <3>4. SoundCheck(check[b], latest')  BY <3>2, <3>3, SoundCheckGrows
    <3>5. QED BY <3>1, <3>4
  <2>3. QED BY <2>1, <2>2
<1>4. ChecksAreSound'  BY <1>3 DEF ChecksAreSound
<1>5. call' \in [Callers -> Call] /\ CallsAreSound'  BY CallsStay
<1>6. TypeOK'  BY DEF Tables, TypeOK
<1>7. QED BY <1>2, <1>4, <1>5, <1>6 DEF IndexInv, Tables

-----------------------------------------------------------------------------
(* What the steps may touch.                                                  *)

LEMMA FaultsBounded ==
  ASSUME IndexInv PROVE (Fault \/ UNCHANGED faults) => faults' \in 0 .. MaxFaults
<1>1. faults \in 0 .. MaxFaults /\ MaxFaults \in Nat  BY Unpacked, WikiIndexAssumption
<1>2. CASE Fault
  <2>1. faults' = faults + 1 /\ faults < MaxFaults  BY <1>2 DEF Fault
  <2>2. QED BY <1>1, <2>1
<1>3. CASE UNCHANGED faults
  <2>1. QED BY <1>1, <1>3
<1>4. QED BY <1>2, <1>3

LEMMA RowsStay ==
  ASSUME IndexInv, UNCHANGED <<file, latest>>
  PROVE  /\ file' \in [Pages -> Versions] /\ latest' \in [Pages -> Versions]
         /\ \A p \in Pages : latest[p] <= latest'[p]
         /\ FilesAreLatest'
         /\ meta' = meta => meta' \in [Pages -> Row] /\ RowsAreSound'
<1>1. \A p \in Pages : latest[p] <= latest'[p]
  <2>1. SUFFICES ASSUME NEW p \in Pages PROVE latest[p] <= latest'[p]  OBVIOUS
  <2>2. latest[p] \in Nat /\ latest'[p] = latest[p]  BY Unpacked
  <2>3. QED BY <2>2
<1>2. FilesAreLatest'  BY Unpacked DEF FilesAreLatest
<1>3. ASSUME meta' = meta PROVE meta' \in [Pages -> Row] /\ RowsAreSound'
  BY <1>3, Unpacked DEF RowsAreSound
<1>4. QED BY <1>1, <1>2, <1>3, Unpacked

LEMMA TablesStay ==
  ASSUME IndexInv, UNCHANGED <<file, latest, fts, meta, embedding>>,
         created' \in BOOLEAN, due' \in BOOLEAN, faults' \in 0 .. MaxFaults
  PROVE  Tables
BY RowsStay, Unpacked DEF Tables

(* Versions are given out one by one, and a page is at its last or gone.      *)
LEMMA WrittenTables ==
  ASSUME IndexInv, NEW p \in Pages, NextVersion(p),
         UNCHANGED <<fts, meta, embedding, created, due, faults>>
  PROVE  Tables /\ latest'[p] = latest[p] + 1 /\ latest[p] + 1 \in Versions
<1>1. /\ file \in [Pages -> Versions] /\ latest \in [Pages -> Versions]
      /\ meta \in [Pages -> Row] /\ FilesAreLatest /\ RowsAreSound
      /\ \A q \in Pages : file[q] \in Nat /\ latest[q] \in Nat
  BY Unpacked
<1>2. latest[p] + 1 \in Versions  BY <1>1, Numbers DEF NextVersion, Versions
<1>3. PICK n \in Versions : n = latest[p] + 1  BY <1>2
<1>4. latest' = [latest EXCEPT ![p] = n] /\ file' = [file EXCEPT ![p] = n]
  BY <1>3 DEF NextVersion
<1>5. file' \in [Pages -> Versions] /\ latest' \in [Pages -> Versions]  BY <1>1, <1>4
<1>6. \A q \in Pages : latest[q] <= latest'[q]  BY <1>1, <1>3, <1>4
<1>7. FilesAreLatest'  BY <1>1, <1>4 DEF FilesAreLatest
<1>8. ASSUME NEW q \in Pages PROVE Sound(meta'[q], latest'[q])
  <2>1. meta[q] \in Row /\ Sound(meta[q], latest[q])  BY <1>1 DEF RowsAreSound
  <2>2. latest[q] \in Nat /\ latest'[q] \in Nat /\ latest[q] <= latest'[q]
    BY <1>1, <1>5, <1>6, Numbers
  <2>3. Sound(meta[q], latest'[q])  BY <2>1, <2>2, SoundGrows
  <2>4. QED BY <2>3
<1>9. RowsAreSound'  BY <1>8 DEF RowsAreSound
<1>10. Tables  BY <1>5, <1>6, <1>7, <1>9, Unpacked DEF Tables
<1>11. latest'[p] = latest[p] + 1  BY <1>1, <1>3, <1>4
<1>12. QED BY <1>2, <1>10, <1>11

LEMMA ErasedTables ==
  ASSUME IndexInv, NEW p \in Pages, DeleteFile(p),
         UNCHANGED <<latest, fts, meta, embedding, created, due, faults>>
  PROVE  Tables
<1>1. /\ file \in [Pages -> Versions] /\ latest \in [Pages -> Versions]
      /\ FilesAreLatest /\ RowsAreSound /\ \A q \in Pages : latest[q] \in Nat
  BY Unpacked
<1>2. file' = [file EXCEPT ![p] = 0]  BY DEF DeleteFile
<1>3. file' \in [Pages -> Versions] /\ FilesAreLatest'  BY <1>1, <1>2, Numbers DEF FilesAreLatest
<1>4. RowsAreSound'  BY <1>1 DEF RowsAreSound
<1>5. \A q \in Pages : latest[q] <= latest'[q]
  <2>1. SUFFICES ASSUME NEW q \in Pages PROVE latest[q] <= latest'[q]  OBVIOUS
  <2>2. QED BY <1>1
<1>6. QED BY <1>1, <1>3, <1>4, <1>5, Unpacked DEF Tables

-----------------------------------------------------------------------------
(* Calls of the write tools, and edits.                                       *)

LEMMA CallIs ==
  ASSUME IndexInv, NEW c \in Callers
  PROVE  /\ call[c] \in Call /\ call[c].page \in Pages
         /\ call[c].version \in Versions /\ call[c].title \in Versions
         /\ SoundCall(call[c], latest)
BY Unpacked DEF CallsAreSound, Call

LEMMA EditKeeps ==
  ASSUME IndexInv, NEW p \in Pages, EditPage(p) \/ ErasePage(p) PROVE IndexInv'
<1>1. Tables  BY WrittenTables, ErasedTables DEF EditPage, ErasePage
<1>2. UNCHANGED <<call, check>>  BY DEF EditPage, ErasePage
<1>3. TypeOK'  BY <1>1 DEF Tables, TypeOK
<1>4. QED BY <1>1, <1>2, <1>3, CallsStay, ChecksStay DEF IndexInv, Tables

LEMMA WriteKeeps ==
  ASSUME IndexInv, NEW c \in Callers, NEW p \in Pages, WritePage(c, p) PROVE IndexInv'
<1>1. Tables /\ latest'[p] = latest[p] + 1 /\ latest[p] + 1 \in Versions
  BY WrittenTables DEF WritePage
<1>2. PICK n \in Versions : n = latest[p] + 1  BY <1>1
<1>3. PICK d : d = [IdleCall EXCEPT !.at = "parse", !.page = p, !.version = n]  OBVIOUS
<1>4. d \in Call /\ d.page = p /\ d.version = n /\ d.title = 0
  BY <1>3, Numbers DEF IdleCall, Call
<1>5. SoundCall(d, latest')  BY <1>1, <1>2, <1>4, Numbers DEF SoundCall
<1>6. call' = [call EXCEPT ![c] = d] /\ check' = check  BY <1>2, <1>3 DEF WritePage
<1>7. QED BY <1>1, <1>4, <1>5, <1>6, CallMoves

LEMMA WriteIndexKeeps ==
  ASSUME IndexInv, NEW c \in Callers, WriteIndexPage(c) PROVE IndexInv'
<1>1. PICK p \in Pages : p = IndexPage  BY Numbers
<1>2. Tables /\ latest'[p] = latest[p] + 1 /\ latest[p] + 1 \in Versions
  BY <1>1, WrittenTables DEF WriteIndexPage
<1>3. PICK n \in Versions : n = latest[p] + 1  BY <1>2
<1>4. PICK d : d = [IdleCall EXCEPT !.at = "add", !.page = p, !.version = n, !.title = n]  OBVIOUS
<1>5. d \in Call /\ d.page = p /\ d.version = n /\ d.title = n
  BY <1>4, Numbers DEF IdleCall, Call
<1>6. SoundCall(d, latest')  BY <1>2, <1>3, <1>5, Numbers DEF SoundCall
<1>7. call' = [call EXCEPT ![c] = d] /\ check' = check
  BY <1>1, <1>3, <1>4 DEF WriteIndexPage
<1>8. QED BY <1>2, <1>5, <1>6, <1>7, CallMoves

LEMMA DeleteKeeps ==
  ASSUME IndexInv, NEW c \in Callers, NEW p \in Pages, DeletePage(c, p) PROVE IndexInv'
<1>1. Tables  BY ErasedTables DEF DeletePage
<1>2. PICK d : d = [IdleCall EXCEPT !.at = "remove", !.page = p]  OBVIOUS
<1>3. d \in Call /\ d.page = p /\ d.version = 0 /\ d.title = 0
  BY <1>2, Numbers DEF IdleCall, Call
<1>4. latest'[p] \in Nat  BY <1>1, Numbers DEF Tables
<1>5. SoundCall(d, latest')  BY <1>3, <1>4 DEF SoundCall
<1>6. call' = [call EXCEPT ![c] = d] /\ check' = check  BY <1>2 DEF DeletePage
<1>7. QED BY <1>1, <1>3, <1>5, <1>6, CallMoves

LEMMA ParseKeeps ==
  ASSUME IndexInv, NEW c \in Callers, ParsePage(c) PROVE IndexInv'
<1>1. Tables /\ latest' = latest
  BY TablesStay, Unpacked DEF ParsePage
<1>2. PICK now : now = file[call[c].page]  OBVIOUS
<1>3. now \in Versions /\ now \in {0, latest[call[c].page]} /\ latest[call[c].page] \in Nat
  BY <1>2, CallIs, Unpacked DEF FilesAreLatest
<1>4. check' = check  BY DEF ParsePage
<1>5. CASE now = 0
  <2>1. call' = [call EXCEPT ![c] = IdleCall]  BY <1>2, <1>5 DEF ParsePage
  <2>2. SoundCall(IdleCall, latest')  BY <1>1, IdleIsSound DEF Tables
  <2>3. QED BY <1>1, <1>4, <2>1, <2>2, Constants, CallMoves
<1>6. CASE now # 0
  <2>1. PICK d : d = [call[c] EXCEPT !.at = "add", !.title = now]  OBVIOUS
  <2>2. call' = [call EXCEPT ![c] = d]  BY <1>2, <1>6, <2>1 DEF ParsePage
  <2>3. d \in Call /\ d.page = call[c].page /\ d.version = call[c].version /\ d.title = now
    BY <1>3, <2>1, CallIs DEF Call
  <2>4. SoundCall(d, latest')  BY <1>1, <1>3, <1>6, <2>3, CallIs DEF SoundCall
  <2>5. QED BY <1>1, <1>4, <2>2, <2>3, <2>4, CallMoves
<1>7. QED BY <1>5, <1>6

LEMMA AddKeeps ==
  ASSUME IndexInv, NEW c \in Callers, AddPage(c) PROVE IndexInv'
<1>1. /\ fts \in [Pages -> Versions] /\ meta \in [Pages -> Row]
      /\ latest \in [Pages -> Versions] /\ RowsAreSound
  BY Unpacked
<1>2. PICK p \in Pages, v \in Versions, t \in Versions :
        p = call[c].page /\ v = call[c].version /\ t = call[c].title
  BY CallIs
<1>3. PICK row : row = [hash |-> v, title |-> t, stamp |-> NoStamp]  OBVIOUS
<1>4. row \in Row /\ row.hash = v  BY <1>3, Numbers DEF Row, NoStamp
<1>5. Sound(row, latest[p])  BY <1>2, <1>3, CallIs DEF Sound, SoundCall
<1>6. fts' \in [Pages -> Versions] /\ meta' \in [Pages -> Row] /\ RowsAreSound'
  <2>1. CASE UNCHANGED <<fts, meta>>
    <3>1. latest' = latest  BY DEF AddPage
    <3>2. QED BY <1>1, <2>1, <3>1 DEF RowsAreSound
  <2>2. CASE addTx(p, row)
    <3>1. fts' = [fts EXCEPT ![p] = v] /\ meta' = [meta EXCEPT ![p] = row] /\ latest' = latest
      BY <1>4, <2>2 DEF addTx, AddPage
    <3>2. fts' \in [Pages -> Versions] /\ meta' \in [Pages -> Row]  BY <1>1, <1>4, <3>1
    <3>3. RowsAreSound'  BY <1>1, <1>5, <3>1 DEF RowsAreSound
    <3>4. QED BY <3>2, <3>3
  <2>3. addTx(p, row) \/ UNCHANGED <<fts, meta>>  BY <1>2, <1>3 DEF AddPage
  <2>4. QED BY <2>1, <2>2, <2>3
<1>7. faults' \in 0 .. MaxFaults  BY FaultsBounded DEF AddPage
<1>8. created' \in BOOLEAN /\ due' \in BOOLEAN  BY Unpacked DEF AddPage, OpenIndex
<1>9. UNCHANGED <<file, latest, embedding, check>>  BY DEF AddPage
<1>10. Tables  BY <1>6, <1>7, <1>8, <1>9, RowsStay, Unpacked DEF Tables
<1>11. SoundCall(IdleCall, latest')  BY <1>10, IdleIsSound DEF Tables
<1>12. call' = [call EXCEPT ![c] = IdleCall]  BY DEF AddPage
<1>13. QED BY <1>9, <1>10, <1>11, <1>12, Constants, CallMoves

LEMMA RemoveKeeps ==
  ASSUME IndexInv, NEW c \in Callers, RemovePage(c) PROVE IndexInv'
<1>1. /\ fts \in [Pages -> Versions] /\ meta \in [Pages -> Row]
      /\ embedding \in [Pages -> Embedding]
      /\ latest \in [Pages -> Versions] /\ RowsAreSound /\ \A p \in Pages : latest[p] \in Nat
  BY Unpacked
<1>2. PICK p \in Pages : p = call[c].page  BY CallIs
<1>3. /\ fts' \in [Pages -> Versions] /\ meta' \in [Pages -> Row] /\ RowsAreSound'
      /\ embedding' \in [Pages -> Embedding]
  <2>1. CASE UNCHANGED <<fts, meta, embedding>>
    <3>1. latest' = latest  BY DEF RemovePage
    <3>2. QED BY <1>1, <2>1, <3>1 DEF RowsAreSound
  <2>2. CASE removeTx(p)
    <3>1. /\ fts' = [fts EXCEPT ![p] = 0] /\ meta' = [meta EXCEPT ![p] = NoRow]
          /\ embedding' = [embedding EXCEPT ![p] = NoEmbedding] /\ latest' = latest
      BY <2>2 DEF removeTx, RemovePage
    <3>2. /\ fts' \in [Pages -> Versions] /\ meta' \in [Pages -> Row]
          /\ embedding' \in [Pages -> Embedding]
      BY <1>1, <3>1, Constants, Numbers
    <3>3. Sound(NoRow, latest[p])  BY <1>1, NoRowIsSound
    <3>4. RowsAreSound'  BY <1>1, <3>1, <3>3 DEF RowsAreSound
    <3>5. QED BY <3>2, <3>4
  <2>3. removeTx(p) \/ UNCHANGED <<fts, meta, embedding>>  BY <1>2 DEF RemovePage
  <2>4. QED BY <2>1, <2>2, <2>3
<1>4. faults' \in 0 .. MaxFaults  BY FaultsBounded DEF RemovePage
<1>5. created' \in BOOLEAN /\ due' \in BOOLEAN  BY Unpacked DEF RemovePage, OpenIndex
<1>6. UNCHANGED <<file, latest, check>>  BY DEF RemovePage
<1>7. Tables  BY <1>3, <1>4, <1>5, <1>6, RowsStay DEF Tables
<1>8. SoundCall(IdleCall, latest')  BY <1>7, IdleIsSound DEF Tables
<1>9. call' = [call EXCEPT ![c] = IdleCall]  BY DEF RemovePage
<1>10. QED BY <1>6, <1>7, <1>8, <1>9, Constants, CallMoves

-----------------------------------------------------------------------------
(* Checks.                                                                    *)

LEMMA CheckIs ==
  ASSUME IndexInv, NEW k \in Processes
  PROVE  /\ check[k] \in Check /\ SoundCheck(check[k], latest)
         /\ latest \in [Pages -> Versions] /\ FilesAreLatest
         /\ \A p \in Pages : file[p] \in Versions /\ file[p] \in Nat /\ latest[p] \in Nat
BY Unpacked DEF ChecksAreSound

LEMMA TwoProcesses == "server" \in Processes /\ "command" \in Processes
BY DEF Processes

(* A check that is not on its way through a page only has sound rows.         *)
LEMMA BetweenPages ==
  ASSUME NEW ch \in Check, NEW n \in [Pages -> Versions],
         ch.at \notin {"stat", "read", "parsePage"},
         \A p \in Pages : Sound(ch.changes[p], n[p])
  PROVE  SoundCheck(ch, n)
BY DEF SoundCheck

LEMMA LoadedIsSound ==
  ASSUME IndexInv, NEW command \in {"none", "search"} \cup Commands
  PROVE  Loaded(command) \in Check /\ SoundCheck(Loaded(command), latest)
<1>1. loadIndexedHashes \in [Pages -> 0 .. Unknown]
  <2>1. ASSUME NEW p \in Pages PROVE meta[p].stamp \in 0 .. Unknown
    BY Unpacked, Numbers DEF Row
  <2>2. QED BY <2>1, Numbers DEF loadIndexedHashes
<1>2. PICK ch : ch = Loaded(command)  OBVIOUS
<1>3. PICK known \in [Pages -> 0 .. Unknown] : known = loadIndexedHashes  BY <1>1
<1>4. ch = [IdleCheck EXCEPT !.at = "walk", !.command = command, !.indexed = known]
  BY <1>2, <1>3 DEF Loaded
<1>5. ch \in Check /\ ch.at = "walk" /\ ch.changes = IdleCheck.changes
  BY <1>4, Constants DEF Check, Places, Walking
<1>6. IdleCheck.changes = [p \in Pages |-> NoRow]  BY DEF IdleCheck
<1>7. \A p \in Pages : Sound(ch.changes[p], latest[p])
  BY <1>5, <1>6, Unpacked, NoRowIsSound
<1>8. SoundCheck(ch, latest)  BY <1>5, <1>7, Unpacked, BetweenPages
<1>9. QED BY <1>2, <1>5, <1>8

LEMMA SearchKeeps == ASSUME IndexInv, Search PROVE IndexInv'
<1>1. created' \in BOOLEAN  BY DEF Search, OpenIndex
<1>2. UNCHANGED <<file, latest, fts, meta, embedding, due, call, faults>>  BY DEF Search
<1>3. Tables  BY <1>1, <1>2, TablesStay, Unpacked
<1>4. PICK ch \in Check : ch = Loaded("search") /\ SoundCheck(ch, latest)  BY LoadedIsSound
<1>5. check' = [check EXCEPT !["server"] = ch]  BY <1>4 DEF Search
<1>6. SoundCheck(ch, latest')  BY <1>2, <1>4
<1>7. QED BY <1>2, <1>3, <1>5, <1>6, TwoProcesses, CheckMoves

LEMMA RunKeeps ==
  ASSUME IndexInv, NEW command \in Commands, RunCommand(command) PROVE IndexInv'
<1>1. created' \in BOOLEAN  BY DEF RunCommand, OpenIndex
<1>2. UNCHANGED <<file, latest, fts, meta, embedding, due, call, faults>>  BY DEF RunCommand
<1>3. Tables  BY <1>1, <1>2, TablesStay, Unpacked
<1>4. PICK first : first = [IdleCheck EXCEPT !.at = "clearText", !.command = command]  OBVIOUS
<1>5. first \in Check /\ SoundCheck(first, latest)
  <2>1. first \in Check /\ first.at = "clearText" /\ first.changes = IdleCheck.changes
    BY <1>4, Constants DEF Check, Places, Walking
  <2>2. \A p \in Pages : Sound(first.changes[p], latest[p])
    BY <2>1, Unpacked, IdleIsSound DEF SoundCheck
  <2>3. QED BY <2>1, <2>2, Unpacked, BetweenPages
<1>6. PICK whole \in Check : whole = Loaded(command) /\ SoundCheck(whole, latest)
  BY LoadedIsSound
<1>7. \E ch \in Check : SoundCheck(ch, latest) /\ check' = [check EXCEPT !["command"] = ch]
  BY <1>4, <1>5, <1>6 DEF RunCommand
<1>8. PICK ch \in Check : SoundCheck(ch, latest') /\ check' = [check EXCEPT !["command"] = ch]
  BY <1>2, <1>7
<1>9. QED BY <1>2, <1>3, <1>8, TwoProcesses, CheckMoves

(* A step that only moves a check on, perhaps at a fault.                     *)
LEMMA OnlyCheckMoves ==
  ASSUME IndexInv, NEW k \in Processes, NEW ch \in Check, SoundCheck(ch, latest),
         check' = [check EXCEPT ![k] = ch],
         UNCHANGED <<file, latest, fts, meta, embedding, created, due, call>>,
         Fault \/ UNCHANGED faults
  PROVE  IndexInv'
<1>1. Tables  BY TablesStay, FaultsBounded, Unpacked
<1>2. SoundCheck(ch, latest')  OBVIOUS
<1>3. QED BY <1>1, <1>2, CheckMoves

(* Moves between pages keep the rows a check has put together.                *)
LEMMA Between ==
  ASSUME IndexInv, NEW k \in Processes, NEW ch \in Check, ch.changes = check[k].changes,
         ch.at \notin {"stat", "read", "parsePage"}
  PROVE  SoundCheck(ch, latest)
BY CheckIs, BetweenPages DEF SoundCheck

LEMMA ClearKeeps ==
  ASSUME IndexInv, ClearText \/ ClearMeta \/ ClearEmbeddings PROVE IndexInv'
<1>1. PICK at \in {"clearMeta", "clearEmbeddings", "load"} :
        check' = [check EXCEPT !["command"].at = at]
  BY DEF ClearText, ClearMeta, ClearEmbeddings
<1>2. PICK ch : ch = [check["command"] EXCEPT !.at = at]  OBVIOUS
<1>3. check' = [check EXCEPT !["command"] = ch]  BY <1>1, <1>2
<1>4. ch \in Check /\ ch.at = at /\ ch.changes = check["command"].changes
  BY <1>2, CheckIs, TwoProcesses DEF Check, Places, Walking
<1>5. UNCHANGED <<file, latest, created, due, call, faults>>
  BY DEF ClearText, ClearMeta, ClearEmbeddings
<1>6. /\ fts' \in [Pages -> Versions] /\ embedding' \in [Pages -> Embedding]
      /\ meta' = meta \/ meta' = [p \in Pages |-> NoRow]
  BY Unpacked, Constants, Numbers DEF ClearText, ClearMeta, ClearEmbeddings
<1>7. meta' \in [Pages -> Row] /\ RowsAreSound'
  <2>1. CASE meta' = meta
    <3>1. QED BY <1>5, <2>1, RowsStay
  <2>2. CASE meta' = [p \in Pages |-> NoRow]
    <3>1. \A p \in Pages : latest'[p] \in Nat  BY <1>5, Unpacked
    <3>2. QED BY <2>2, <3>1, Constants, NoRowIsSound DEF RowsAreSound
  <2>3. QED BY <1>6, <2>1, <2>2
<1>8. Tables  BY <1>5, <1>6, <1>7, RowsStay, Unpacked DEF Tables
<1>9. SoundCheck(ch, latest')  BY <1>4, <1>5, Between, TwoProcesses
<1>10. QED BY <1>3, <1>4, <1>5, <1>8, <1>9, TwoProcesses, CheckMoves

LEMMA LoadKeeps == ASSUME IndexInv, LoadRebuilt PROVE IndexInv'
<1>1. check["command"].command \in {"none", "search"} \cup Commands
  BY CheckIs, TwoProcesses DEF Check
<1>2. PICK ch \in Check : ch = Loaded(check["command"].command) /\ SoundCheck(ch, latest)
  BY <1>1, LoadedIsSound
<1>3. check' = [check EXCEPT !["command"] = ch]  BY <1>2 DEF LoadRebuilt
<1>4. QED BY <1>2, <1>3, TwoProcesses, OnlyCheckMoves DEF LoadRebuilt

LEMMA NextPageIsSound ==
  ASSUME IndexInv, NEW k \in Processes
  PROVE  /\ NextPage(k) \in Check /\ NextPage(k).at \in {"walk", "apply"}
         /\ NextPage(k).changes = check[k].changes
         /\ SoundCheck(NextPage(k), latest)
<1>1. check[k] \in Check /\ check[k].page \in Pages  BY CheckIs DEF Check
<1>2. PICK ch : ch = NextPage(k)  OBVIOUS
<1>3. CASE check[k].page = LastPage
  <2>1. ch = [check[k] EXCEPT !.at = "apply", !.stamp = 0, !.content = 0]
    BY <1>2, <1>3 DEF NextPage
  <2>2. ch \in Check /\ ch.at = "apply" /\ ch.changes = check[k].changes
    BY <1>1, <2>1, Numbers DEF Check, Places, Walking
  <2>3. SoundCheck(ch, latest)  BY <2>2, Between
  <2>4. QED BY <1>2, <2>2, <2>3
<1>4. CASE check[k].page # LastPage
  <2>1. check[k].page + 1 \in Pages  BY <1>1, <1>4, Numbers DEF Pages
  <2>2. PICK n \in Pages : n = check[k].page + 1  BY <2>1
  <2>3. ch = [check[k] EXCEPT !.at = "walk", !.page = n, !.stamp = 0, !.content = 0]
    BY <1>2, <1>4, <2>2 DEF NextPage
  <2>4. ch \in Check /\ ch.at = "walk" /\ ch.changes = check[k].changes
    BY <1>1, <2>3, Numbers DEF Check, Places, Walking
  <2>5. SoundCheck(ch, latest)  BY <2>4, Between
  <2>6. QED BY <1>2, <2>4, <2>5
<1>5. QED BY <1>3, <1>4

LEMMA WalkKeeps ==
  ASSUME IndexInv, NEW k \in Processes, Walk(k) PROVE IndexInv'
<1>1. check[k] \in Check /\ check[k].page \in Pages  BY CheckIs DEF Check
<1>2. \E ch \in Check : SoundCheck(ch, latest) /\ check' = [check EXCEPT ![k] = ch]
  <2>1. PICK ch : ch = [check[k] EXCEPT !.at = "stat"]  OBVIOUS
  <2>2. ch \in Check /\ ch.at = "stat" /\ ch.changes = check[k].changes /\ ch.page \in Pages
    BY <1>1, <2>1 DEF Check, Places, Walking
  <2>3. SoundCheck(ch, latest)  BY <2>2, CheckIs DEF SoundCheck
  <2>4. \/ check' = [check EXCEPT ![k] = NextPage(k)]
        \/ check' = [check EXCEPT ![k] = ch]
    BY <2>1 DEF Walk
  <2>5. QED BY <2>2, <2>3, <2>4, NextPageIsSound
<1>3. QED BY <1>2, OnlyCheckMoves DEF Walk

LEMMA StatKeeps ==
  ASSUME IndexInv, NEW k \in Processes, StatPage(k) PROVE IndexInv'
<1>1. check[k] \in Check /\ check[k].page \in Pages
  BY CheckIs DEF StatPage, SoundCheck
<1>2. PICK p \in Pages : p = check[k].page  BY <1>1
<1>3. PICK known : known = [check[k].indexed EXCEPT ![p] = Unknown]  OBVIOUS
<1>4. known \in [Pages -> 0 .. Unknown]  BY <1>1, <1>3, Numbers DEF Check
<1>5. \E ch \in Check : SoundCheck(ch, latest) /\ check' = [check EXCEPT ![k] = ch]
  <2>1. CASE file[p] \in {0, check[k].indexed[p]}
    <3>1. PICK next \in Check : next = NextPage(k) /\ next.at \in {"walk", "apply"} /\ next.changes = check[k].changes
      BY <1>1, NextPageIsSound
    <3>2. PICK ch : ch = [next EXCEPT !.indexed = known]  OBVIOUS
    <3>3. ch \in Check /\ ch.at \in {"walk", "apply"} /\ ch.changes = check[k].changes
      BY <1>4, <3>1, <3>2 DEF Check
    <3>4. check' = [check EXCEPT ![k] = ch]  BY <1>2, <1>3, <2>1, <3>1, <3>2 DEF StatPage
    <3>5. QED BY <3>3, <3>4, Between
  <2>2. CASE file[p] \notin {0, check[k].indexed[p]}
    <3>1. PICK ch : ch = [check[k] EXCEPT !.at = "read", !.indexed = known, !.stamp = file[p]]
      OBVIOUS
    <3>2. check' = [check EXCEPT ![k] = ch]  BY <1>2, <1>3, <2>2, <3>1 DEF StatPage
    <3>3. ch \in Check /\ ch.at = "read" /\ ch.changes = check[k].changes /\ ch.page = p
          /\ ch.stamp = file[p]
      BY <1>1, <1>2, <1>4, <3>1, CheckIs DEF Check, Places, Walking
    <3>4. file[p] <= latest[p]  BY CheckIs DEF FilesAreLatest
    <3>5. SoundCheck(ch, latest)  BY <3>3, <3>4, CheckIs DEF SoundCheck
    <3>6. QED BY <3>2, <3>3, <3>5
  <2>3. QED BY <2>1, <2>2
<1>6. QED BY <1>5, OnlyCheckMoves DEF StatPage

LEMMA ReadKeeps ==
  ASSUME IndexInv, NEW k \in Processes, ReadPage(k) PROVE IndexInv'
<1>1. /\ check[k] \in Check /\ check[k].page \in Pages
      /\ check[k].stamp <= latest[check[k].page]
  BY CheckIs DEF ReadPage, SoundCheck
<1>2. PICK p \in Pages : p = check[k].page  BY <1>1
<1>3. \E ch \in Check : SoundCheck(ch, latest) /\ check' = [check EXCEPT ![k] = ch]
  <2>1. CASE file[p] = 0
    <3>1. check' = [check EXCEPT ![k] = NextPage(k)]  BY <1>2, <2>1 DEF ReadPage
    <3>2. QED BY <1>1, <3>1, NextPageIsSound
  <2>2. CASE file[p] # 0
    <3>1. PICK ch : ch = [check[k] EXCEPT !.at = "parsePage", !.content = file[p]]  OBVIOUS
    <3>2. check' = [check EXCEPT ![k] = ch]  BY <1>2, <2>2, <3>1 DEF ReadPage
    <3>3. /\ ch \in Check /\ ch.at = "parsePage" /\ ch.changes = check[k].changes
          /\ ch.page = p /\ ch.stamp = check[k].stamp /\ ch.content = file[p]
      BY <1>1, <1>2, <3>1, CheckIs DEF Check, Places, Walking
    <3>4. file[p] = latest[p]  BY <2>2, CheckIs DEF FilesAreLatest
    <3>5. latest[p] \in Nat /\ check[k].stamp <= latest[p]  BY <1>1, <1>2, CheckIs
    <3>6. SoundCheck(ch, latest)  BY <3>3, <3>4, <3>5, CheckIs DEF SoundCheck
    <3>7. QED BY <3>2, <3>3, <3>6
  <2>3. QED BY <2>1, <2>2
<1>4. QED BY <1>3, OnlyCheckMoves DEF ReadPage

(* The row a check puts together: first the stamp, then the content, then the *)
(* title, each of the page as it is when it is read.                          *)
LEMMA ParseScannedKeeps ==
  ASSUME IndexInv, NEW k \in Processes, ParseScanned(k) PROVE IndexInv'
<1>1. /\ check[k] \in Check /\ check[k].page \in Pages
      /\ check[k].stamp <= check[k].content /\ check[k].content <= latest[check[k].page]
      /\ check[k].stamp \in Versions /\ check[k].content \in Versions
  BY CheckIs DEF ParseScanned, SoundCheck, Check
<1>2. PICK p \in Pages : p = check[k].page  BY <1>1
<1>3. \E ch \in Check : SoundCheck(ch, latest) /\ check' = [check EXCEPT ![k] = ch]
  <2>1. CASE file[p] = 0
    <3>1. check' = [check EXCEPT ![k] = NextPage(k)]  BY <1>2, <2>1 DEF ParseScanned
    <3>2. QED BY <1>1, <3>1, NextPageIsSound
  <2>2. CASE file[p] # 0
    <3>1. PICK row : row = ScannedRow(k)  OBVIOUS
    <3>2. row = [hash |-> check[k].content, title |-> file[p], stamp |-> check[k].stamp]
      BY <1>2, <3>1 DEF ScannedRow
    <3>3. row \in Row  BY <1>1, <3>2, CheckIs DEF Row
    <3>4. file[p] = latest[p] /\ latest[p] \in Nat  BY <2>2, CheckIs DEF FilesAreLatest
    <3>5. Sound(row, latest[p])
      <4>1. row.hash = check[k].content /\ row.title = file[p] /\ row.stamp = check[k].stamp
        BY <3>2
      <4>2. check[k].content \in Nat /\ check[k].stamp \in Nat  BY <1>1, Numbers
      <4>3. QED BY <1>1, <1>2, <3>4, <4>1, <4>2 DEF Sound
    <3>6. PICK next \in Check : next = NextPage(k) /\ next.at \in {"walk", "apply"} /\ next.changes = check[k].changes
      BY <1>1, NextPageIsSound
    <3>7. PICK rows : rows = [next.changes EXCEPT ![p] = row]  OBVIOUS
    <3>8. next.changes \in [Pages -> Row]  BY DEF Check
    <3>9. rows \in [Pages -> Row] /\ \A q \in Pages : Sound(rows[q], latest[q])
      BY <3>3, <3>5, <3>6, <3>7, <3>8, CheckIs DEF SoundCheck
    <3>10. PICK ch : ch = [next EXCEPT !.changes = rows]  OBVIOUS
    <3>11. ch \in Check /\ ch.at \in {"walk", "apply"} /\ ch.changes = rows
      BY <3>6, <3>9, <3>10 DEF Check
    <3>12. SoundCheck(ch, latest)  BY <3>9, <3>11, CheckIs, BetweenPages
    <3>13. check' = [check EXCEPT ![k] = [NextPage(k) EXCEPT !.changes[p] = ScannedRow(k)]]
      BY <1>2, <2>2 DEF ParseScanned
    <3>14. check' = [check EXCEPT ![k] = ch]  BY <3>1, <3>6, <3>7, <3>10, <3>13
    <3>15. QED BY <3>11, <3>12, <3>14
  <2>3. QED BY <2>1, <2>2
<1>4. QED BY <1>3, OnlyCheckMoves DEF ParseScanned

LEMMA AfterIsSound ==
  ASSUME IndexInv, NEW k \in Processes
  PROVE  AfterCheck(k) \in Check /\ SoundCheck(AfterCheck(k), latest)
<1>1. PICK ch : ch = [IdleCheck EXCEPT !.at = "stale"]  OBVIOUS
<1>2. ch \in Check /\ ch.at = "stale" /\ ch.changes = IdleCheck.changes
  BY <1>1, Constants DEF Check, Places, Walking
<1>3. SoundCheck(IdleCheck, latest)  BY CheckIs, IdleIsSound
<1>4. SoundCheck(ch, latest)  BY <1>2, <1>3, CheckIs, BetweenPages DEF SoundCheck
<1>5. AfterCheck(k) = ch \/ AfterCheck(k) = IdleCheck  BY <1>1 DEF AfterCheck
<1>6. QED BY <1>2, <1>3, <1>4, <1>5, Constants

LEMMA ApplyKeeps ==
  ASSUME IndexInv, NEW k \in Processes, ApplyCheck(k) PROVE IndexInv'
<1>1. PICK rows \in [Pages -> Row] : rows = check[k].changes  BY CheckIs DEF Check
<1>2. \A p \in Pages : Sound(rows[p], latest[p]) /\ rows[p].hash \in Versions
  BY <1>1, CheckIs DEF SoundCheck, Row
<1>3. UNCHANGED <<file, latest, created, call, faults>>  BY DEF ApplyCheck
<1>4. fts' \in [Pages -> Versions]
  <2>1. ASSUME NEW p \in Pages
        PROVE  (IF p \in Changed(k) THEN check[k].changes[p].hash
                ELSE IF p \in Removed(k) THEN 0 ELSE fts[p]) \in Versions
    BY <1>1, <1>2, Unpacked, Numbers
  <2>2. QED BY <2>1 DEF ApplyCheck
<1>5. ASSUME NEW p \in Pages PROVE meta'[p] \in Row /\ Sound(meta'[p], latest[p])
  <2>1. meta'[p] = IF p \in Changed(k) THEN rows[p]
                   ELSE IF p \in Removed(k) THEN NoRow ELSE meta[p]
    BY <1>1 DEF ApplyCheck
  <2>2. meta[p] \in Row /\ Sound(meta[p], latest[p])  BY Unpacked DEF RowsAreSound
  <2>3. NoRow \in Row /\ Sound(NoRow, latest[p])  BY Constants, CheckIs, NoRowIsSound
  <2>4. QED BY <1>2, <2>1, <2>2, <2>3
<1>6. DOMAIN meta' = Pages /\ meta' = [p \in Pages |-> meta'[p]]  BY DEF ApplyCheck
<1>7. meta' \in [Pages -> Row]  BY <1>5, <1>6
<1>8. RowsAreSound'  BY <1>3, <1>5 DEF RowsAreSound
<1>9. embedding' \in [Pages -> Embedding]
  BY Unpacked, Constants DEF ApplyCheck
<1>10. due' \in BOOLEAN
  <2>1. due' = FALSE \/ due' = due  BY Zenon DEF ApplyCheck
  <2>2. QED BY <2>1, Unpacked
<1>11. Tables  BY <1>3, <1>4, <1>7, <1>8, <1>9, <1>10, RowsStay, Unpacked DEF Tables
<1>12. PICK ch \in Check : ch = AfterCheck(k) /\ SoundCheck(ch, latest)  BY AfterIsSound
<1>13. check' = [check EXCEPT ![k] = ch]  BY <1>12 DEF ApplyCheck
<1>14. SoundCheck(ch, latest')  BY <1>3, <1>12
<1>15. QED BY <1>3, <1>11, <1>13, <1>14, CheckMoves

LEMMA FailKeeps ==
  ASSUME IndexInv, NEW k \in Processes, FailCheck(k) PROVE IndexInv'
<1>1. PICK ch \in Check : ch = AfterCheck(k) /\ SoundCheck(ch, latest)  BY AfterIsSound
<1>2. check' = [check EXCEPT ![k] = ch]  BY <1>1 DEF FailCheck
<1>3. QED BY <1>1, <1>2, OnlyCheckMoves DEF FailCheck

-----------------------------------------------------------------------------
(* Embeddings, kills and time.                                                *)

LEMMA ListKeeps == ASSUME IndexInv, ListStale PROVE IndexInv'
<1>1. {<<p, contentHash(p)>> : p \in StalePaths} \subseteq Pages \X Versions
  <2>1. ASSUME NEW p \in Pages PROVE contentHash(p) \in Versions
    <3>1. meta[p].hash \in Versions  BY Unpacked DEF Row
    <3>2. QED BY <3>1, Numbers DEF contentHash
  <2>2. StalePaths \subseteq Pages  BY DEF StalePaths
  <2>3. QED BY <2>1, <2>2
<1>2. PICK s \in SUBSET (Pages \X Versions) : s = {<<p, contentHash(p)>> : p \in StalePaths}
  BY <1>1
<1>3. PICK ch : ch = [IdleCheck EXCEPT !.at = "text", !.stale = s]  OBVIOUS
<1>4. ch \in Check /\ ch.at = "text" /\ ch.changes = IdleCheck.changes
  BY <1>3, Constants DEF Check, Places, Walking
<1>5. SoundCheck(IdleCheck, latest)  BY CheckIs, TwoProcesses, IdleIsSound
<1>6. SoundCheck(ch, latest)
  BY <1>4, <1>5, CheckIs, TwoProcesses, BetweenPages DEF SoundCheck
<1>7. \E to \in Check : SoundCheck(to, latest) /\ check' = [check EXCEPT !["command"] = to]
  <2>1. \/ check' = [check EXCEPT !["command"] = IdleCheck]
        \/ check' = [check EXCEPT !["command"] = ch]
    BY <1>2, <1>3 DEF ListStale
  <2>2. QED BY <1>4, <1>5, <1>6, <2>1, Constants
<1>8. QED BY <1>7, TwoProcesses, OnlyCheckMoves DEF ListStale

LEMMA TextKeeps == ASSUME IndexInv, ReadText PROVE IndexInv'
<1>1. check["command"] \in Check /\ check["command"].at = "text"
  BY CheckIs, TwoProcesses DEF ReadText
<1>2. PICK entry \in check["command"].stale :
        check' = [check EXCEPT
          !["command"].stale = @ \ {entry},
          !["command"].texts = IF file[entry[1]] = 0 THEN @
                               ELSE @ \cup {<<entry[1], entry[2], ContentOf[file[entry[1]]]>>}]
  BY DEF ReadText
<1>3. entry[1] \in Pages /\ entry[2] \in Versions  BY <1>1 DEF Check
<1>4. ContentOf[file[entry[1]]] \in Versions
  <2>1. file[entry[1]] \in Versions  BY <1>3, Unpacked
  <2>2. QED BY <2>1, Numbers
<1>5. PICK rest : rest = check["command"].stale \ {entry}  OBVIOUS
<1>6. PICK read : read = IF file[entry[1]] = 0 THEN check["command"].texts
                         ELSE check["command"].texts \cup {<<entry[1], entry[2], ContentOf[file[entry[1]]]>>}
  OBVIOUS
<1>7. rest \in SUBSET (Pages \X Versions) /\ read \in SUBSET (Pages \X Versions \X Versions)
  BY <1>1, <1>3, <1>4, <1>5, <1>6 DEF Check
<1>8. PICK ch : ch = [check["command"] EXCEPT !.stale = rest, !.texts = read]  OBVIOUS
<1>9. check \in [Processes -> Check]  BY Unpacked
<1>10. check' = [check EXCEPT !["command"] = ch]
  BY <1>2, <1>5, <1>6, <1>8, <1>9, TwoProcesses
<1>11. ch \in Check /\ ch.at = "text" /\ ch.changes = check["command"].changes
  BY <1>1, <1>7, <1>8 DEF Check
<1>12. QED BY <1>10, <1>11, Between, TwoProcesses, OnlyCheckMoves DEF ReadText

LEMMA BatchKeeps == ASSUME IndexInv, EmbedBatch PROVE IndexInv'
<1>1. PICK ch : ch = [check["command"] EXCEPT !.at = "store"]  OBVIOUS
<1>2. ch \in Check /\ ch.at = "store" /\ ch.changes = check["command"].changes
  BY <1>1, CheckIs, TwoProcesses DEF Check, Places, Walking
<1>3. SoundCheck(ch, latest) /\ SoundCheck(IdleCheck, latest)
  BY <1>2, Between, TwoProcesses, CheckIs, IdleIsSound
<1>4. \E to \in Check : SoundCheck(to, latest) /\ check' = [check EXCEPT !["command"] = to]
  BY <1>1, <1>2, <1>3, Constants DEF EmbedBatch
<1>5. Fault \/ UNCHANGED faults  BY DEF EmbedBatch
<1>6. QED BY <1>4, <1>5, TwoProcesses, OnlyCheckMoves DEF EmbedBatch

LEMMA StoreKeeps == ASSUME IndexInv, StoreEmbedding PROVE IndexInv'
<1>1. UNCHANGED <<file, latest, fts, meta, created, due, call, faults>>  BY DEF StoreEmbedding
<1>2. check["command"] \in Check /\ check["command"].at = "store"
  BY CheckIs, TwoProcesses DEF StoreEmbedding
<1>3. PICK t \in check["command"].texts :
        /\ embedding' = [embedding EXCEPT ![t[1]] = [hash |-> t[2], of |-> t[3]]]
        /\ check' = [check EXCEPT !["command"] =
                       IF check["command"].texts = {t} THEN IdleCheck
                       ELSE [@ EXCEPT !.texts = check["command"].texts \ {t}]]
  BY DEF StoreEmbedding
<1>4. t[1] \in Pages /\ t[2] \in Versions /\ t[3] \in Versions  BY <1>2 DEF Check
<1>5. [hash |-> t[2], of |-> t[3]] \in Embedding  BY <1>4 DEF Embedding
<1>6. embedding' \in [Pages -> Embedding]  BY <1>3, <1>5, Unpacked
<1>7. meta' = meta  BY <1>1
<1>8. Tables  BY <1>1, <1>6, <1>7, RowsStay, Unpacked DEF Tables
<1>9. PICK ch : ch = [check["command"] EXCEPT !.texts = check["command"].texts \ {t}]  OBVIOUS
<1>10. ch \in Check /\ ch.at = "store" /\ ch.changes = check["command"].changes
  BY <1>2, <1>9 DEF Check
<1>11. SoundCheck(ch, latest) /\ SoundCheck(IdleCheck, latest)
  BY <1>10, Between, TwoProcesses, CheckIs, IdleIsSound
<1>12. check \in [Processes -> Check]  BY Unpacked
<1>13. \/ check' = [check EXCEPT !["command"] = IdleCheck]
       \/ check' = [check EXCEPT !["command"] = ch]
  BY <1>3, <1>9, <1>12, TwoProcesses
<1>14. latest' = latest  BY <1>1
<1>15. QED BY <1>1, <1>8, <1>10, <1>11, <1>13, <1>14, Constants, TwoProcesses, CheckMoves

LEMMA KillKeeps == ASSUME IndexInv, KillServer \/ KillCommand PROVE IndexInv'
<1>1. SoundCheck(IdleCheck, latest)  BY CheckIs, TwoProcesses, IdleIsSound
<1>2. CASE KillCommand
  <2>1. QED BY <1>1, <1>2, Constants, TwoProcesses, OnlyCheckMoves DEF KillCommand
<1>3. CASE KillServer
  <2>1. /\ Fault /\ check' = [check EXCEPT !["server"] = IdleCheck]
        /\ call' = [c \in Callers |-> IdleCall] /\ due' = TRUE
        /\ UNCHANGED <<file, latest, fts, meta, embedding, created>>
    BY <1>3 DEF KillServer
  <2>2. due' \in BOOLEAN /\ created' \in BOOLEAN /\ faults' \in 0 .. MaxFaults
    BY <2>1, Unpacked, FaultsBounded
  <2>3. Tables  BY <2>1, <2>2, TablesStay
  <2>4. check \in [Processes -> Check]  BY Unpacked
  <2>5. check' \in [Processes -> Check]  BY <2>1, <2>4, Constants
  <2>6. ASSUME NEW b \in Processes PROVE SoundCheck(check'[b], latest')
    <3>1. check'[b] = IdleCheck \/ check'[b] = check[b]  BY <2>1, <2>4
    <3>2. SoundCheck(check[b], latest)  BY CheckIs
    <3>3. QED BY <1>1, <2>1, <3>1, <3>2
  <2>7. ChecksAreSound'  BY <2>6 DEF ChecksAreSound
  <2>8. call' \in [Callers -> Call]  BY <2>1, Constants
  <2>9. SoundCall(IdleCall, latest')  BY <2>3, IdleIsSound DEF Tables
  <2>10. CallsAreSound'  BY <2>1, <2>9 DEF CallsAreSound
  <2>11. TypeOK'  BY <2>3 DEF Tables, TypeOK
  <2>12. QED BY <2>3, <2>5, <2>7, <2>8, <2>10, <2>11 DEF IndexInv, Tables
<1>4. QED BY <1>2, <1>3

LEMMA TimeKeeps == ASSUME IndexInv, IntervalPasses \/ UNCHANGED vars PROVE IndexInv'
<1>1. /\ UNCHANGED <<file, latest, fts, meta, embedding, created, call, check, faults>>
      /\ due' \in BOOLEAN
  BY Unpacked DEF IntervalPasses, vars
<1>2. Tables  BY <1>1, TablesStay, Unpacked
<1>3. TypeOK'  BY <1>2 DEF Tables, TypeOK
<1>4. QED BY <1>1, <1>2, <1>3, CallsStay, ChecksStay DEF IndexInv, Tables

-----------------------------------------------------------------------------
LEMMA StepKeepsIndex == ASSUME IndexInv, [Next]_vars PROVE IndexInv'
<1>1. CASE \E p \in Pages : EditPage(p) \/ ErasePage(p)
  BY <1>1, EditKeeps
<1>2. ASSUME NEW c \in Callers,
             \/ \E p \in Pages : WritePage(c, p) \/ DeletePage(c, p)
             \/ WriteIndexPage(c) \/ CallStep(c)
      PROVE  IndexInv'
  BY <1>2, WriteKeeps, WriteIndexKeeps, DeleteKeeps, ParseKeeps, AddKeeps, RemoveKeeps DEF CallStep
<1>3. ASSUME NEW k \in Processes, CheckStep(k) PROVE IndexInv'
  BY <1>3, WalkKeeps, StatKeeps, ReadKeeps, ParseScannedKeeps, ApplyKeeps, FailKeeps DEF CheckStep
<1>4. CASE \E command \in Commands : RunCommand(command)
  BY <1>4, RunKeeps
<1>5. CASE RebuildStep  BY <1>5, ClearKeeps, LoadKeeps DEF RebuildStep
<1>6. CASE EmbedStep  BY <1>6, ListKeeps, TextKeeps, BatchKeeps, StoreKeeps DEF EmbedStep
<1>7. CASE Search \/ KillServer \/ KillCommand  BY <1>7, SearchKeeps, KillKeeps
<1>8. CASE IntervalPasses \/ UNCHANGED vars  BY <1>8, TimeKeeps
<1>9. QED BY <1>1, <1>2, <1>3, <1>4, <1>5, <1>6, <1>7, <1>8 DEF Next

(* Files are at the last version the page has had or gone, and rows, calls    *)
(* and checks hold versions put together stamp first, after any step.         *)
THEOREM IndexInvariantHolds == Spec => []IndexInv
<1>1. Init => IndexInv  BY InitIndex
<1>2. IndexInv /\ [Next]_vars => IndexInv'  BY StepKeepsIndex
<1>3. QED BY <1>1, <1>2, PTL DEF Spec

(* The files, the tables and the counters keep their types.                   *)
THEOREM IndexTyped == Spec => []TypeOK
<1>1. IndexInv => TypeOK  BY DEF IndexInv
<1>2. QED BY <1>1, IndexInvariantHolds, PTL

(* A row whose stamp is its file's is of that file in text and title, so the  *)
(* check that skips the file by its stamp leaves nothing stale: whatever      *)
(* edits, writes, checks, rebuilds, failures and kills crossed each other.    *)
THEOREM StampsMeanCurrent == Spec => []StampMeansCurrent
<1>1. ASSUME IndexInv, NEW p \in Pages, file[p] # 0, meta[p].stamp = file[p]
      PROVE  meta[p] = [hash |-> file[p], title |-> file[p], stamp |-> file[p]]
  <2>1. meta[p] \in Row /\ Sound(meta[p], latest[p])  BY <1>1, Unpacked DEF RowsAreSound
  <2>2. file[p] = latest[p] /\ latest[p] \in Nat  BY <1>1, Unpacked DEF FilesAreLatest
  <2>3. meta[p].hash \in Nat /\ meta[p].title \in Nat  BY <2>1, Numbers DEF Row
  <2>4. meta[p].hash = file[p] /\ meta[p].title = file[p]
    BY <1>1, <2>1, <2>2, <2>3 DEF Sound, NoStamp
  <2>5. QED BY <1>1, <2>1, <2>4 DEF Row
<1>2. IndexInv => StampMeansCurrent  BY <1>1 DEF StampMeansCurrent
<1>3. QED BY <1>2, IndexInvariantHolds, PTL
=============================================================================
