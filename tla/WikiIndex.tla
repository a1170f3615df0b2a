----------------------------- MODULE WikiIndex -----------------------------
(****************************************************************************)
(* The wiki index (internal/index/sqlite.go, embedding.go) against the      *)
(* pages on disk (internal/storage/fs.go), under the tool calls of a server *)
(* (internal/mcp/tools.go), the commands that keep the index (init, index,  *)
(* embed in cmd/cogvault) and whoever edits pages directly.                 *)
(*                                                                          *)
(* A page's versions are numbered. A write gives the page its next version, *)
(* with a modification time of its own; the content may be one the page had *)
(* before (ContentOf). The row of a page tells the version its content, its *)
(* title (parsed by itself) and its stamp (size, mtime) are of; hashes are  *)
(* hashes of contents.                                                      *)
(* SQLite makes a transaction one step; s.mu adds nothing to that. ccMu     *)
(* admits one check per process, and a server's checks are those of one     *)
(* process here: a second call waits or finds the check not due.            *)
(****************************************************************************)
EXTENDS Naturals, FiniteSets

CONSTANTS
  LastPage,    \* pages are 1..LastPage, in the order of the walk
  IndexPage,   \* the page the index command writes (_index.md)
  ContentOf,   \* the content of each version
  Excluded,    \* pages under an excluded directory: written, never scanned
  Callers,     \* concurrent writers: calls of the server's tools, index commands
  Commands,    \* commands run beside the server
  MaxVersion,  \* bound of the model: versions of a page
  MaxWritten,  \* bound of the model: later versions are edits made while no call runs
  MaxFaults,   \* bound of the model: failed transactions, killed processes
  RebuildTears \* bound of the model: whether a kill may part a rebuild's deletes

ASSUME WikiIndexAssumption ==
  /\ LastPage \in Nat \ {0}
  /\ Excluded \subseteq 1 .. LastPage /\ IndexPage \in 1 .. LastPage
  /\ Commands \subseteq {"init", "index", "embed"}
  /\ MaxVersion \in Nat \ {0} /\ MaxWritten \in Nat /\ MaxFaults \in Nat
  /\ ContentOf \in [0 .. MaxVersion -> 0 .. MaxVersion]
  /\ \A v \in 0 .. MaxVersion : ContentOf[v] = 0 <=> v = 0
  /\ RebuildTears \in BOOLEAN

VARIABLES
  file,      \* the page's version on disk, or 0
  latest,    \* versions the page has had
  fts,       \* table wiki_fts: the version a page's text is of, or 0
  meta,      \* table file_meta
  embedding, \* table embeddings
  created,   \* the database file exists
  due,       \* the server's last check is older than the interval
  call,      \* calls of the write tools
  check,     \* the check, and what the process does around it
  faults

vars == <<file, latest, fts, meta, embedding, created, due, call, check, faults>>

-----------------------------------------------------------------------------
Pages     == 1 .. LastPage
Processes == {"server", "command"}
Versions  == 0 .. MaxVersion

Row   == [hash : Versions, title : Versions, stamp : Versions]
NoRow == [hash |-> 0, title |-> 0, stamp |-> 0]

(* Add has no mtime to store: no modification time equals it.                *)
NoStamp == 0

Embedding   == [hash : Versions, of : Versions]
NoEmbedding == [hash |-> 0, of |-> 0]

(* What loadIndexedHashes knows of a page, and the pages it does not know.   *)
Unknown == MaxVersion + 1

IdleCall  == [at |-> "idle", page |-> 1, version |-> 0, title |-> 0]
IdleCheck == [at |-> "idle", command |-> "none", page |-> 1, stamp |-> 0, content |-> 0,
              indexed |-> [p \in Pages |-> Unknown], changes |-> [p \in Pages |-> NoRow],
              stale |-> {}, texts |-> {}]

Fault == faults < MaxFaults /\ faults' = faults + 1

Indexed(p) == meta[p] # NoRow

contentHash(p) == ContentOf[meta[p].hash]

StalePaths_InnerJoin ==
  {p \in Pages : Indexed(p) /\ embedding[p] # NoEmbedding /\ embedding[p].hash # contentHash(p)}

StalePaths == {p \in Pages : Indexed(p) /\ embedding[p].hash # contentHash(p)}

(* What a search can find: its queries join the text and the row.            *)
Found == {p \in Pages : fts[p] # 0 /\ Indexed(p)}

(* What a search by embedding compares: embeddings of pages that have a row. *)
Similar == {p \in Pages : embedding[p] # NoEmbedding /\ Indexed(p)}

(* Opening the index creates the database, if there is none.                 *)
OpenIndex == created' = TRUE

loadIndexedHashes == [p \in Pages |-> IF Indexed(p) THEN meta[p].stamp ELSE Unknown]

-----------------------------------------------------------------------------
Init ==
  /\ latest \in [Pages -> {0, 1}]
  /\ file = latest
  /\ fts = [p \in Pages |-> 0]
  /\ meta = [p \in Pages |-> NoRow]
  /\ embedding = [p \in Pages |-> NoEmbedding]
  /\ created = FALSE
  /\ due = TRUE
  /\ call = [c \in Callers |-> IdleCall]
  /\ check = [k \in Processes |-> IdleCheck]
  /\ faults = 0

-----------------------------------------------------------------------------
(* Pages.                                                                    *)

NextVersion(p) ==
  /\ latest[p] < MaxVersion
  /\ latest' = [latest EXCEPT ![p] = @ + 1]
  /\ file' = [file EXCEPT ![p] = latest[p] + 1]

DeleteFile(p) ==
  /\ file[p] # 0
  /\ file' = [file EXCEPT ![p] = 0]

(* Somebody edits a page, or removes it, without the server.                 *)
EditPage(p) ==
  /\ latest[p] < MaxWritten \/ \A c \in Callers : call[c] = IdleCall
  /\ NextVersion(p)
  /\ UNCHANGED <<fts, meta, embedding, created, due, call, check, faults>>

ErasePage(p) ==
  /\ DeleteFile(p)
  /\ UNCHANGED <<latest, fts, meta, embedding, created, due, call, check, faults>>

-----------------------------------------------------------------------------
(* The rows of one page, written and removed.                                *)

addTx(p, row) ==
  /\ fts' = [fts EXCEPT ![p] = row.hash]
  /\ meta' = [meta EXCEPT ![p] = row]

removeTx(p) ==
  /\ fts' = [fts EXCEPT ![p] = 0]
  /\ meta' = [meta EXCEPT ![p] = NoRow]
  /\ embedding' = [embedding EXCEPT ![p] = NoEmbedding]

-----------------------------------------------------------------------------
(* wiki_write: write the page, parse it, add it to the index. What was       *)
(* written is added, though another call may have written since; the title   *)
(* is that of the page as parsed. A failure after the write is logged.       *)

WritePage(c, p) ==
  /\ call[c].at = "idle"
  /\ latest[p] < MaxWritten
  /\ NextVersion(p)
  /\ call' = [call EXCEPT ![c] = [IdleCall EXCEPT !.at = "parse", !.page = p,
                                                  !.version = latest[p] + 1]]
  /\ UNCHANGED <<fts, meta, embedding, created, due, check, faults>>

ParsePage(c) ==
  /\ call[c].at = "parse"
  /\ LET now == file[call[c].page] IN
     call' = [call EXCEPT ![c] = IF now = 0 THEN IdleCall
                                 ELSE [call[c] EXCEPT !.at = "add", !.title = now]]
  /\ UNCHANGED <<file, latest, fts, meta, embedding, created, due, check, faults>>

(* cogvault index, after its check: write a page that lists the others, and  *)
(* add it under a title of its own. Its failures are ignored too.            *)
WriteIndexPage(c) ==
  /\ call[c].at = "idle"
  /\ latest[IndexPage] < MaxWritten
  /\ NextVersion(IndexPage)
  /\ call' = [call EXCEPT ![c] = [IdleCall EXCEPT !.at = "add", !.page = IndexPage,
                        !.version = latest[IndexPage] + 1, !.title = latest[IndexPage] + 1]]
  /\ UNCHANGED <<fts, meta, embedding, created, due, check, faults>>

AddPage_Stamped(c) ==
  /\ call[c].at = "add"
  /\ \/ /\ addTx(call[c].page, [hash |-> call[c].version, title |-> call[c].title,
                                stamp |-> file[call[c].page]])
        /\ UNCHANGED faults
     \/ Fault /\ UNCHANGED <<fts, meta>>
  /\ call' = [call EXCEPT ![c] = IdleCall]
  /\ OpenIndex
  /\ UNCHANGED <<file, latest, embedding, due, check>>

AddPage(c) ==
  /\ call[c].at = "add"
  /\ \/ /\ addTx(call[c].page, [hash |-> call[c].version, title |-> call[c].title,
                                stamp |-> NoStamp])
        /\ UNCHANGED faults
     \/ Fault /\ UNCHANGED <<fts, meta>>
  /\ call' = [call EXCEPT ![c] = IdleCall]
  /\ OpenIndex
  /\ UNCHANGED <<file, latest, embedding, due, check>>

(* wiki_delete: delete the page, remove its rows. A failure is ignored.      *)
DeletePage(c, p) ==
  /\ call[c].at = "idle"
  /\ latest[p] <= MaxWritten
  /\ DeleteFile(p)
  /\ call' = [call EXCEPT ![c] = [IdleCall EXCEPT !.at = "remove", !.page = p]]
  /\ UNCHANGED <<latest, fts, meta, embedding, created, due, check, faults>>

RemovePage(c) ==
  /\ call[c].at = "remove"
  /\ \/ removeTx(call[c].page) /\ UNCHANGED faults
     \/ Fault /\ UNCHANGED <<fts, meta, embedding>>
  /\ call' = [call EXCEPT ![c] = IdleCall]
  /\ OpenIndex
  /\ UNCHANGED <<file, latest, due, check>>

-----------------------------------------------------------------------------
(* CheckConsistency. It loads what is indexed, walks the pages, and applies  *)
(* what differs in one transaction.                                          *)

Loaded(command) == [IdleCheck EXCEPT !.at = "walk", !.command = command,
                                     !.indexed = loadIndexedHashes]

(* Searching and listing check first, if the last check is old enough.       *)
Search ==
  /\ check["server"].at = "idle"
  /\ due
  /\ OpenIndex
  /\ check' = [check EXCEPT !["server"] = Loaded("search")]
  /\ UNCHANGED <<file, latest, fts, meta, embedding, due, call, faults>>

(* A command of its own process checks whatever the interval. init rebuilds  *)
(* instead when it finds no database.                                        *)
RunCommand(command) ==
  /\ check["command"].at = "idle"
  /\ OpenIndex
  /\ check' = [check EXCEPT !["command"] =
                 IF command = "init" /\ ~created
                 THEN [IdleCheck EXCEPT !.at = "clearText", !.command = command]
                 ELSE Loaded(command)]
  /\ UNCHANGED <<file, latest, fts, meta, embedding, due, call, faults>>

(* Rebuild: three deletes, each a transaction, and then a check.             *)
ClearText ==
  /\ check["command"].at = "clearText"
  /\ fts' = [p \in Pages |-> 0]
  /\ check' = [check EXCEPT !["command"].at = "clearMeta"]
  /\ UNCHANGED <<file, latest, meta, embedding, created, due, call, faults>>

ClearMeta ==
  /\ check["command"].at = "clearMeta"
  /\ meta' = [p \in Pages |-> NoRow]
  /\ check' = [check EXCEPT !["command"].at = "clearEmbeddings"]
  /\ UNCHANGED <<file, latest, fts, embedding, created, due, call, faults>>

ClearEmbeddings ==
  /\ check["command"].at = "clearEmbeddings"
  /\ embedding' = [p \in Pages |-> NoEmbedding]
  /\ check' = [check EXCEPT !["command"].at = "load"]
  /\ UNCHANGED <<file, latest, fts, meta, created, due, call, faults>>

LoadRebuilt ==
  /\ check["command"].at = "load"
  /\ check' = [check EXCEPT !["command"] = Loaded(check["command"].command)]
  /\ UNCHANGED <<file, latest, fts, meta, embedding, created, due, call, faults>>

(* The walk (Scan) meets a page, or passes one it does not list. After the   *)
(* last page it ends.                                                       *)
NextPage(k) ==
  IF check[k].page = LastPage THEN [check[k] EXCEPT !.at = "apply", !.stamp = 0, !.content = 0]
  ELSE [check[k] EXCEPT !.at = "walk", !.page = @ + 1, !.stamp = 0, !.content = 0]

Walk(k) ==
  /\ check[k].at = "walk"
  /\ check' = [check EXCEPT ![k] =
                 IF check[k].page \in Excluded \/ file[check[k].page] = 0 THEN NextPage(k)
                 ELSE [check[k] EXCEPT !.at = "stat"]]
  /\ UNCHANGED <<file, latest, fts, meta, embedding, created, due, call, faults>>

(* The stamp is taken before the content is read. A page that fails on the   *)
(* way keeps the rows it has: it no longer counts as indexed and unseen.     *)
StatPage(k) ==
  /\ check[k].at = "stat"
  /\ LET p == check[k].page
         seen == [check[k].indexed EXCEPT ![p] = Unknown]
     IN check' = [check EXCEPT ![k] =
          IF file[p] \in {0, check[k].indexed[p]}
          THEN [NextPage(k) EXCEPT !.indexed = seen]
          ELSE [check[k] EXCEPT !.at = "read", !.indexed = seen, !.stamp = file[p]]]
  /\ UNCHANGED <<file, latest, fts, meta, embedding, created, due, call, faults>>

ReadPage(k) ==
  /\ check[k].at = "read"
  /\ LET now == file[check[k].page] IN
     check' = [check EXCEPT ![k] = IF now = 0 THEN NextPage(k)
                                   ELSE [check[k] EXCEPT !.at = "parsePage", !.content = now]]
  /\ UNCHANGED <<file, latest, fts, meta, embedding, created, due, call, faults>>

ScannedRow(k) ==
  LET p == check[k].page
  IN  [hash |-> check[k].content, title |-> file[p], stamp |-> check[k].stamp]

ParseScanned(k) ==
  /\ check[k].at = "parsePage"
  /\ LET p == check[k].page IN
     check' = [check EXCEPT ![k] =
       IF file[p] = 0 THEN NextPage(k)
       ELSE [NextPage(k) EXCEPT !.changes[p] = ScannedRow(k)]]
  /\ UNCHANGED <<file, latest, fts, meta, embedding, created, due, call, faults>>

Removed(k) == {p \in Pages : check[k].indexed[p] # Unknown}
Changed(k) == {p \in Pages : check[k].changes[p] # NoRow}

(* embed goes on to the embeddings, even after a check that failed.          *)
AfterCheck(k) == IF check[k].command = "embed" THEN [IdleCheck EXCEPT !.at = "stale"] ELSE IdleCheck

ApplyCheck_NoRemovals(k) ==
  /\ check[k].at = "apply"
  /\ fts' = [p \in Pages |-> IF p \in Changed(k) THEN check[k].changes[p].hash ELSE fts[p]]
  /\ meta' = [p \in Pages |-> IF p \in Changed(k) THEN check[k].changes[p] ELSE meta[p]]
  /\ UNCHANGED embedding
  /\ due' = IF k = "server" THEN FALSE ELSE due
  /\ check' = [check EXCEPT ![k] = AfterCheck(k)]
  /\ UNCHANGED <<file, latest, created, call, faults>>

ApplyCheck(k) ==
  /\ check[k].at = "apply"
  /\ fts' = [p \in Pages |-> IF p \in Changed(k) THEN check[k].changes[p].hash
                             ELSE IF p \in Removed(k) THEN 0 ELSE fts[p]]
  /\ meta' = [p \in Pages |-> IF p \in Changed(k) THEN check[k].changes[p]
                              ELSE IF p \in Removed(k) THEN NoRow ELSE meta[p]]
  /\ embedding' = [p \in Pages |-> IF p \in Removed(k) THEN NoEmbedding ELSE embedding[p]]
  /\ due' = IF k = "server" THEN FALSE ELSE due
  /\ check' = [check EXCEPT ![k] = AfterCheck(k)]
  /\ UNCHANGED <<file, latest, created, call, faults>>

(* The transaction fails: nothing is applied and the check stays due.        *)
FailCheck(k) ==
  /\ check[k].at = "apply"
  /\ Fault
  /\ check' = [check EXCEPT ![k] = AfterCheck(k)]
  /\ UNCHANGED <<file, latest, fts, meta, embedding, created, due, call>>

IntervalPasses ==
  /\ ~due
  /\ due' = TRUE
  /\ UNCHANGED <<file, latest, fts, meta, embedding, created, call, check, faults>>

-----------------------------------------------------------------------------
(* cogvault embed: texts of the stale pages are read, then embedded in one   *)
(* request, then stored under the hashes the index had at first.             *)

ListStale ==
  /\ check["command"].at = "stale"
  /\ check' = [check EXCEPT !["command"] =
                 IF StalePaths = {} THEN IdleCheck
                 ELSE [IdleCheck EXCEPT !.at = "text",
                                        !.stale = {<<p, contentHash(p)>> : p \in StalePaths}]]
  /\ UNCHANGED <<file, latest, fts, meta, embedding, created, due, call, faults>>

ReadText ==
  /\ check["command"].at = "text"
  /\ \E entry \in check["command"].stale :
       check' = [check EXCEPT
         !["command"].stale = @ \ {entry},
         !["command"].texts = IF file[entry[1]] = 0 THEN @
                              ELSE @ \cup {<<entry[1], entry[2], ContentOf[file[entry[1]]]>>}]
  /\ UNCHANGED <<file, latest, fts, meta, embedding, created, due, call, faults>>

EmbedBatch ==
  /\ check["command"].at = "text"
  /\ check["command"].stale = {}
  /\ \/ /\ check' = [check EXCEPT !["command"] =
                      IF check["command"].texts = {} THEN IdleCheck ELSE [@ EXCEPT !.at = "store"]]
        /\ UNCHANGED faults
     \/ /\ Fault
        /\ check' = [check EXCEPT !["command"] = IdleCheck]
  /\ UNCHANGED <<file, latest, fts, meta, embedding, created, due, call>>

StoreEmbedding ==
  /\ check["command"].at = "store"
  /\ \E t \in check["command"].texts :
       /\ embedding' = [embedding EXCEPT ![t[1]] = [hash |-> t[2], of |-> t[3]]]
       /\ check' = [check EXCEPT !["command"] =
                      IF check["command"].texts = {t} THEN IdleCheck
                      ELSE [@ EXCEPT !.texts = check["command"].texts \ {t}]]
  /\ UNCHANGED <<file, latest, fts, meta, created, due, call, faults>>

-----------------------------------------------------------------------------
(* A process is killed. The server's calls die with it, and the server that  *)
(* starts next is due a check.                                               *)
KillServer ==
  /\ Fault
  /\ check' = [check EXCEPT !["server"] = IdleCheck]
  /\ call' = [c \in Callers |-> IdleCall]
  /\ due' = TRUE
  /\ UNCHANGED <<file, latest, fts, meta, embedding, created>>

KillCommand ==
  /\ check["command"].at # "idle"
  /\ RebuildTears \/ check["command"].at # "clearMeta"
  /\ Fault
  /\ check' = [check EXCEPT !["command"] = IdleCheck]
  /\ UNCHANGED <<file, latest, fts, meta, embedding, created, due, call>>

CallStep(c)  == ParsePage(c) \/ AddPage(c) \/ RemovePage(c)
CheckStep(k) == \/ Walk(k) \/ StatPage(k) \/ ReadPage(k) \/ ParseScanned(k)
                \/ ApplyCheck(k) \/ FailCheck(k)
RebuildStep  == ClearText \/ ClearMeta \/ ClearEmbeddings \/ LoadRebuilt
EmbedStep    == ListStale \/ ReadText \/ EmbedBatch \/ StoreEmbedding

Next ==
  \/ \E p \in Pages : EditPage(p) \/ ErasePage(p)
  \/ \E c \in Callers : \/ \E p \in Pages : WritePage(c, p) \/ DeletePage(c, p)
                        \/ WriteIndexPage(c) \/ CallStep(c)
  \/ \E k \in Processes : CheckStep(k)
  \/ \E command \in Commands : RunCommand(command)
  \/ Search \/ IntervalPasses \/ RebuildStep \/ EmbedStep
  \/ KillServer \/ KillCommand

Spec == Init /\ [][Next]_vars

(* Work that began goes on, time passes, searches recur, and so does each    *)
(* scheduled command. Nobody has to edit, write or delete anything.          *)
FairSpec ==
  /\ Spec
  /\ \A c \in Callers : WF_vars(CallStep(c))
  /\ \A k \in Processes : WF_vars(CheckStep(k))
  /\ \A command \in Commands : SF_vars(RunCommand(command))
  /\ WF_vars(RebuildStep) /\ WF_vars(EmbedStep)
  /\ WF_vars(Search) /\ WF_vars(IntervalPasses)

-----------------------------------------------------------------------------
TypeOK ==
  /\ file \in [Pages -> Versions] /\ latest \in [Pages -> Versions]
  /\ fts \in [Pages -> Versions] /\ meta \in [Pages -> Row]
  /\ embedding \in [Pages -> Embedding]
  /\ {created, due} \subseteq BOOLEAN
  /\ faults \in 0 .. MaxFaults

(* A row whose stamp is the file's speaks of the file: its text, hash and    *)
(* title are of that version. Checks skip such a page unread, so a row that  *)
(* got its stamp from one version and its text from another would stay.      *)
StampMeansCurrent ==
  \A p \in Pages :
    (file[p] # 0 /\ Indexed(p) /\ meta[p].stamp = file[p])
      => meta[p] = [hash |-> file[p], title |-> file[p], stamp |-> file[p]]

Current(p) ==
  IF p \in Excluded \/ file[p] = 0 THEN p \notin Found
  ELSE p \in Found /\ fts[p] = file[p] /\ meta[p].title = file[p]

(* Whatever writes, edits, checks, rebuilds and faults crossed each other,   *)
(* once they end searches come to find exactly the pages on disk that are    *)
(* not excluded, as they are.                                                *)
IndexCatchesUp == <>[](\A p \in Pages : Current(p))

(* The page had content c, then another, then c again.                      *)
CameBack(p, c, other) ==
  \E v, w \in 1 .. file[p] : v < w /\ ContentOf[v] = c /\ ContentOf[w] = other

(* Every page that can be found gets an embedding under the hash of the text *)
(* it has, and of that text, also when it changed between the list of stale  *)
(* pages and the reading of its text; no other page has one that a search    *)
(* compares. A page that came back to a text it had before may keep the      *)
(* embedding of a text it had in between, under the hash of the other: the   *)
(* list of stale pages knows hashes only (batchEmbed, StalePaths).           *)
EmbeddingsCatchUp ==
  <>[](/\ Similar = Found
       /\ \A p \in Similar :
            LET now == ContentOf[file[p]] IN
            /\ embedding[p].hash = now
            /\ embedding[p].of = now \/ CameBack(p, now, embedding[p].of))

(* Every page that can be found gets an embedding of the text it has, as the *)
(* description of embed has it ("With none stale: all embeddings up to       *)
(* date"). A text that was read while the page had another content, stored   *)
(* under the hash the index had before, stays when that content comes back.  *)
EmbeddingsAreCurrent ==
  <>[](\A p \in Similar : embedding[p].of = ContentOf[file[p]])
=============================================================================
