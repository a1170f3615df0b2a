----------------------------- MODULE IngestRun -----------------------------
(****************************************************************************)
(* Ingest runs (internal/ingest/ingest.go, ledger.go): sweep pages of       *)
(* sources that are gone, scan the source directory, digest what the ledger *)
(* does not hold yet, one source after the other. One source takes five     *)
(* writes (page, index, two ledger statements, removal of a page at an      *)
(* older path) without a transaction; any of them may fail and the run may  *)
(* be killed at any of them. Sources and pages belong to the user and to    *)
(* agents, who change them meanwhile.                                       *)
(*                                                                          *)
(* ingest.lock admits one run at a time, so there is one. It is released    *)
(* when its process ends. All sources are in one directory: the sweep looks *)
(* at each directory by itself.                                             *)
(****************************************************************************)
EXTENDS Naturals, Sequences, FiniteSets, FiniteSetsExt, SequencesExt

CONSTANTS
  Sources,      \* source paths, as numbers in their order
  Contents,     \* contents of a source file, named by their hash
  Slugs,        \* page names without directory and extension
  Slug,         \* slugFor: <<source, content>> -> slug
  MaxAttempts,  \* maxAttempts of the code
  Edits,        \* changes of a source file the user makes: <<from, to>>
  AgentPhases,  \* phases of a run in which agents write pages
  DeletePhases, \* phases of a run in which users and agents delete pages
  MaxProfile,   \* bound of the model: digest profiles 1..MaxProfile
  MaxChanges,   \* bound of the model: what users and agents do
  MaxFaults,    \* bound of the model: failed writes and killed runs
  Gone          \* no such file

ASSUME IngestAssumption ==
  /\ Sources \subseteq Nat \ {0}
  /\ IsFiniteSet(Sources)
  /\ "none" \notin Slugs
  /\ Slug \in [Sources \X Contents -> Slugs]
  /\ Edits \subseteq (Contents \cup {Gone}) \X (Contents \cup {Gone})
  /\ Gone \notin Contents
  /\ {MaxAttempts, MaxProfile} \subseteq Nat \ {0}
  /\ {MaxChanges, MaxFaults} \subseteq Nat

VARIABLES
  files,     \* source directory: source -> content or Gone
  ledger,    \* table ingest_ledger: its rows by rowid
  pages,     \* wiki pages under sources/
  archived,  \* names taken under sources/_archived: <<page, content>>
  index,     \* pages the search index has, with the digest it has of them
  profile,   \* digest profile of the configuration
  run,       \* memory of the run
  changes, faults

vars == <<files, ledger, pages, archived, index, profile, run, changes, faults>>

-----------------------------------------------------------------------------
(* A page name is a slug, alone or with the hash of one source's path.       *)
PageNames == Slugs \X (Sources \cup {0})
NoName    == <<"none", 0>>

Page   == [source : Sources, content : Contents, evidence : BOOLEAN]
NoPage == [source |-> 0]

HasEvidence(page) == page # NoPage /\ page.evidence

Statuses == {"success", "superseded", "failed", "refused"}

Row == [source : Sources, content : Contents, status : Statuses,
        page : PageNames \cup {NoName}, attempts : Nat, profile : Nat]
NoRow == [source |-> 0]

Phases == {"idle", "sweep", "recheck", "move", "supersedeOrphan", "scan", "next",
           "digest", "write", "add", "supersede", "record", "retire"}

RunMemory == [at : Phases, todo : SUBSET (Sources \X Contents), orphan : Row \cup {NoRow},
              page : PageNames \cup {NoName}, previous : PageNames \cup {NoName},
              evidence : BOOLEAN]

IdleRun == [at |-> "idle", todo |-> {}, orphan |-> NoRow, page |-> NoName,
            previous |-> NoName, evidence |-> FALSE]

Rows == ToSet(ledger)

RowsFor(s, c) == {r \in Rows : r.source = s /\ r.content = c}

(* INSERT OR REPLACE: the row of this source and content gets a new rowid.   *)
Upsert(row) ==
  LET same == {n \in DOMAIN ledger : /\ ledger[n].source = row.source
                                     /\ ledger[n].content = row.content}
  IN  Append(IF same = {} THEN ledger ELSE RemoveAt(ledger, CHOOSE n \in same : TRUE), row)

wikiPageTakenByOther_Success(page, s) ==
  \E r \in Rows : r.status = "success" /\ r.page = page /\ r.source # s

wikiPageTakenByOther(page, s) == \E r \in Rows : r.page = page /\ r.source # s

pagePath(s, c) ==
  LET base == <<Slug[<<s, c>>], 0>> IN
  IF wikiPageTakenByOther(base, s) THEN <<Slug[<<s, c>>], s>> ELSE base

(* The page of the source's newest row that has one.                         *)
previousWikiPage(s) ==
  LET own == {n \in DOMAIN ledger : /\ ledger[n].source = s
                                    /\ ledger[n].status \in {"success", "superseded"}
                                    /\ ledger[n].page # NoName}
  IN  IF own = {} THEN NoName ELSE ledger[Max(own)].page

(* Success rows whose file is gone, and how many have theirs.                *)
SuccessRows == {r \in Rows : r.status = "success"}
orphanCandidates == {r \in SuccessRows : files[r.source] = Gone}
Survivors == SuccessRows \ orphanCandidates

archivedWikiPath(row) == <<row.page, row.content>>

attemptsOf(s, c) == IF RowsFor(s, c) = {} THEN 0 ELSE (CHOOSE r \in RowsFor(s, c) : TRUE).attempts

(* The sources found by the scan are digested in the order of their paths.     *)
Job == CHOOSE j \in run.todo : \A k \in run.todo : j[1] <= k[1]
Done == [IdleRun EXCEPT !.at = "next", !.todo = run.todo \ {Job}]

FailedRow(s, c, class) ==
  [source |-> s, content |-> c, status |-> IF class = "refused" THEN "refused" ELSE "failed",
   page |-> NoName, profile |-> profile,
   attempts |-> attemptsOf(s, c) + IF class = "permanent" THEN 1 ELSE 0]

(* recordFailure: replaces whatever row the source and content had.          *)
recordFailure(class) == ledger' = Upsert(FailedRow(Job[1], Job[2], class))

Fault == faults < MaxFaults /\ faults' = faults + 1

(* The ledger, the wiki or the index fails under the digest in hand. That is   *)
(* recorded, if the ledger takes it, and the run goes on with the next source. *)
InfraFailure ==
  /\ Fault
  /\ recordFailure("infra") \/ UNCHANGED ledger
  /\ run' = Done
  /\ UNCHANGED <<files, pages, archived, index, profile, changes>>

-----------------------------------------------------------------------------
Init ==
  /\ files \in [Sources -> Contents \cup {Gone}]
  /\ ledger = <<>>
  /\ pages = [p \in PageNames |-> NoPage]
  /\ archived = {}
  /\ index = [p \in PageNames |-> NoPage]
  /\ profile = 1
  /\ run = IdleRun
  /\ changes = 0 /\ faults = 0

Goto(phase) == run' = [run EXCEPT !.at = phase]

StartRun ==
  /\ run.at = "idle"
  /\ Goto("sweep")
  /\ UNCHANGED <<files, ledger, pages, archived, index, profile, changes, faults>>

(* A sweep acts on exactly one missing source, and only beside a present one. *)
Ambiguous == Cardinality(orphanCandidates) # 1 \/ Survivors = {}

SweepLooks ==
  /\ run.at = "sweep"
  /\ run' = IF Ambiguous THEN [run EXCEPT !.at = "scan"]
            ELSE [run EXCEPT !.at = "recheck", !.orphan = CHOOSE r \in orphanCandidates : TRUE]
  /\ UNCHANGED <<files, ledger, pages, archived, index, profile, changes, faults>>

SweepRechecks ==
  /\ run.at = "recheck"
  /\ run' = IF Ambiguous \/ orphanCandidates # {run.orphan}
            THEN [run EXCEPT !.at = "scan", !.orphan = NoRow]
            ELSE [run EXCEPT !.at = "move"]
  /\ UNCHANGED <<files, ledger, pages, archived, index, profile, changes, faults>>

SweepMoves_PageRequired ==
  LET src == run.orphan.page  dst == archivedWikiPath(run.orphan) IN
  /\ run.at = "move"
  /\ IF pages[src] # NoPage /\ dst \notin archived
     THEN /\ pages' = [pages EXCEPT ![src] = NoPage]
          /\ archived' = archived \cup {dst}
          /\ Goto("supersedeOrphan")
     ELSE /\ run' = [run EXCEPT !.at = "scan", !.orphan = NoRow]
          /\ UNCHANGED <<pages, archived>>
  /\ UNCHANGED <<files, ledger, index, profile, changes, faults>>

(* storage.Move: a page that is already gone is fine, a taken name is not.     *)
SweepMoves ==
  LET src == run.orphan.page  dst == archivedWikiPath(run.orphan) IN
  /\ run.at = "move"
  /\ \/ /\ pages[src] = NoPage
        /\ Goto("supersedeOrphan")
        /\ UNCHANGED <<pages, archived, faults>>
     \/ /\ pages[src] # NoPage /\ dst \notin archived
        /\ pages' = [pages EXCEPT ![src] = NoPage]
        /\ archived' = archived \cup {dst}
        /\ Goto("supersedeOrphan")
        /\ UNCHANGED faults
     \/ /\ pages[src] # NoPage /\ dst \in archived
        /\ run' = [run EXCEPT !.at = "scan", !.orphan = NoRow]
        /\ UNCHANGED <<pages, archived, faults>>
     \/ /\ Fault
        /\ run' = [run EXCEPT !.at = "scan", !.orphan = NoRow]
        /\ UNCHANGED <<pages, archived>>
  /\ UNCHANGED <<files, ledger, index, profile, changes>>

SweepRecords ==
  /\ run.at = "supersedeOrphan"
  /\ run' = [run EXCEPT !.at = "scan", !.orphan = NoRow]
  /\ \/ ledger' = Upsert([run.orphan EXCEPT !.status = "superseded"]) /\ UNCHANGED faults
     \/ Fault /\ UNCHANGED ledger
  /\ UNCHANGED <<files, pages, archived, index, profile, changes>>

(* The files that are there, with their hashes.                             *)
Scan ==
  LET present == {s \in Sources : files[s] # Gone} IN
  /\ run.at = "scan"
  /\ run' = [run EXCEPT !.at = "next", !.todo = {<<s, files[s]>> : s \in present}]
  /\ UNCHANGED <<files, ledger, pages, archived, index, profile, changes, faults>>

Unchanged_Unstatted(r) == r.status = "success"

(* A success row stands while its page is there.                             *)
Unchanged(r) == r.status = "success" /\ pages[r.page] # NoPage

GivenUp(r) ==
  /\ r.profile = profile
  /\ r.status = "refused" \/ (r.status = "failed" /\ r.attempts >= MaxAttempts)

NextSource ==
  /\ run.at = "next"
  /\ run' = IF run.todo = {} THEN IdleRun
            ELSE IF \E r \in RowsFor(Job[1], Job[2]) : Unchanged(r) \/ GivenUp(r) THEN Done
            ELSE [run EXCEPT !.at = "digest"]
  /\ UNCHANGED <<files, ledger, pages, archived, index, profile, changes, faults>>

(* The file is not what the scan saw: nothing is recorded.                   *)
Deferred ==
  /\ run.at = "digest"
  /\ files[Job[1]] # Job[2]
  /\ run' = Done
  /\ UNCHANGED <<files, ledger, pages, archived, index, profile, changes, faults>>

(* The source cannot be read or parsed, the model does not answer or refuses,  *)
(* its page is not valid. A source that cannot be read counts as permanent. *)
DigestFails ==
  /\ run.at = "digest"
  /\ \E class \in {"permanent", "transient", "refused"} :
       /\ files[Job[1]] = Job[2] \/ (files[Job[1]] = Gone /\ class = "permanent")
       /\ recordFailure(class)
  /\ run' = Done
  /\ UNCHANGED <<files, pages, archived, index, profile, changes, faults>>

(* The model answered, the file is still the same: where the new page goes,   *)
(* which page it follows, and the research evidence read from that one.     *)
Digested(s) ==
  LET page == pagePath(s, Job[2])
      last == previousWikiPage(s)
      previous == IF last = NoName THEN page ELSE last
  IN
  /\ run.at = "digest"
  /\ s = Job[1] /\ files[s] = Job[2]
  /\ run' = [run EXCEPT !.at = "write", !.page = page, !.previous = previous,
                        !.evidence = HasEvidence(pages[previous])]
  /\ UNCHANGED <<files, ledger, pages, archived, index, profile, changes, faults>>

NewPage_Bare == [source |-> Job[1], content |-> Job[2], evidence |-> FALSE]

NewPage == [source |-> Job[1], content |-> Job[2], evidence |-> run.evidence]

WritePage ==
  /\ run.at = "write"
  /\ pages' = [pages EXCEPT ![run.page] = NewPage]
  /\ Goto("add")
  /\ UNCHANGED <<files, ledger, archived, index, profile, changes, faults>>

IndexPage ==
  /\ run.at = "add"
  /\ index' = [index EXCEPT ![run.page] = NewPage]
  /\ Goto("supersede")
  /\ UNCHANGED <<files, ledger, pages, archived, profile, changes, faults>>

(* UPDATE keeps the rowids.                                                  *)
SupersedePrevSuccess ==
  /\ run.at = "supersede"
  /\ ledger' = [n \in DOMAIN ledger |->
       IF ledger[n].source = Job[1] /\ ledger[n].status = "success"
       THEN [ledger[n] EXCEPT !.status = "superseded"] ELSE ledger[n]]
  /\ Goto("record")
  /\ UNCHANGED <<files, pages, archived, index, profile, changes, faults>>

RecordSuccess ==
  /\ run.at = "record"
  /\ ledger' = Upsert([source |-> Job[1], content |-> Job[2], status |-> "success",
                       page |-> run.page, attempts |-> 0, profile |-> profile])
  /\ run' = IF run.previous = run.page THEN Done ELSE [run EXCEPT !.at = "retire"]
  /\ UNCHANGED <<files, pages, archived, index, profile, changes, faults>>

WriteFails == run.at \in {"digest", "write", "add", "supersede", "record"} /\ InfraFailure

(* removePreviousPage: a failure is logged, and nobody tries again. When the    *)
(* new page is missing by now the old file stays, without its index entry.  *)
RetirePrevious ==
  LET kept == [pages EXCEPT ![run.previous] = IF pages[run.page] = NoPage THEN @ ELSE NoPage]
      entries == [index EXCEPT ![run.previous] = NoPage]
  IN
  /\ run.at = "retire"
  /\ run' = Done
  /\ \/ pages' = kept /\ index' = entries /\ UNCHANGED faults
     \/ Fault /\ pages' = kept /\ UNCHANGED index
     \/ Fault /\ UNCHANGED <<pages, index>>
  /\ UNCHANGED <<files, ledger, archived, profile, changes>>

Killed ==
  /\ run.at # "idle"
  /\ Fault
  /\ run' = IdleRun
  /\ UNCHANGED <<files, ledger, pages, archived, index, profile, changes>>

-----------------------------------------------------------------------------
(* Users and agents.                                                        *)

Change == changes < MaxChanges /\ changes' = changes + 1

EditSource(s, to) ==
  /\ Change
  /\ <<files[s], to>> \in Edits
  /\ files' = [files EXCEPT ![s] = to]
  /\ UNCHANGED <<ledger, pages, archived, index, profile, run, faults>>

(* A file manager, or wiki_delete, which takes the index entry away too.      *)
DeletePage(p) ==
  /\ Change
  /\ run.at \in DeletePhases
  /\ pages[p] # NoPage
  /\ pages' = [pages EXCEPT ![p] = NoPage]
  /\ index' = index \/ index' = [index EXCEPT ![p] = NoPage]
  /\ UNCHANGED <<files, ledger, archived, profile, run, faults>>

(* wiki_write of a page with a research_evidence record.                      *)
AddEvidence(p) ==
  /\ Change
  /\ run.at \in AgentPhases
  /\ pages[p] # NoPage
  /\ pages' = [pages EXCEPT ![p].evidence = TRUE]
  /\ index' = [index EXCEPT ![p] = pages'[p]]
  /\ UNCHANGED <<files, ledger, archived, profile, run, faults>>

(* Another model or backend in the configuration, read when a run starts.     *)
Reconfigure ==
  /\ Change
  /\ run.at = "idle"
  /\ profile < MaxProfile
  /\ profile' = profile + 1
  /\ UNCHANGED <<files, ledger, pages, archived, index, run, faults>>

RunStep ==
  \/ StartRun \/ SweepLooks \/ SweepRechecks \/ SweepMoves \/ SweepRecords
  \/ Scan \/ NextSource \/ Deferred \/ DigestFails \/ (\E s \in Sources : Digested(s))
  \/ WritePage \/ IndexPage \/ SupersedePrevSuccess \/ RecordSuccess
  \/ WriteFails \/ RetirePrevious

Next ==
  \/ StartRun \/ SweepLooks \/ SweepRechecks \/ SweepMoves \/ SweepRecords
  \/ Scan \/ NextSource \/ Deferred \/ DigestFails \/ (\E s \in Sources : Digested(s))
  \/ WritePage \/ IndexPage \/ SupersedePrevSuccess \/ RecordSuccess
  \/ WriteFails \/ RetirePrevious \/ Killed \/ Reconfigure
  \/ \E s \in Sources, to \in Contents \cup {Gone} : EditSource(s, to)
  \/ \E p \in PageNames : DeletePage(p) \/ AddEvidence(p)

Spec == Init /\ [][Next]_vars

(* Runs are scheduled and each goes on to its end unless it is killed; a      *)
(* model that is asked again and again answers in the end.                  *)
FairSpec ==
  Spec /\ WF_vars(RunStep) /\ \A s \in Sources : SF_vars(Digested(s))

-----------------------------------------------------------------------------
(* Properties.                                                              *)

(* Every table, file and memory has its type.                               *)
TypeOK ==
  /\ files \in [Sources -> Contents \cup {Gone}]
  /\ ledger \in Seq(Row)
  /\ pages \in [PageNames -> Page \cup {NoPage}]
  /\ archived \subseteq PageNames \X Contents
  /\ index \in [PageNames -> Page \cup {NoPage}]
  /\ run \in RunMemory
  /\ profile \in 1..MaxProfile

(* A source has at most one success row, whichever writes failed: the page an  *)
(* outdated row names would otherwise be swept or kept as if it were current. *)
OneSuccess == \A q, r \in SuccessRows : q.source = r.source => q = r

(* Two sources never share a page, also with equal names, after failures that  *)
(* dropped the page of a row, and after one of them was archived.           *)
PagesAreOwned ==
  /\ \A q, r \in Rows : q.page = r.page /\ q.page # NoName => q.source = r.source
  /\ \A r \in SuccessRows : pages[r.page] # NoPage => pages[r.page].source = r.source

(* As long as nothing failed, the page a success row names and its entry in the *)
(* index hold the digest of that row's content, whatever users change.      *)
PagesAgree ==
  faults = 0 /\ run.at \notin {"add", "supersede", "record"} =>
    \A r \in SuccessRows : pages[r.page] # NoPage =>
      /\ pages[r.page].content = r.content
      /\ index[r.page] # NoPage /\ index[r.page].content = r.content

HasPage(s, ps) == \E p \in PageNames : ps[p] # NoPage /\ ps[p].source = s

(* A run takes the page a success row names away only when its source has one   *)
(* elsewhere, or into the archive under a new name, whatever failed before. *)
NoPageIsLost ==
  [][run.at # "idle" /\ changes' = changes =>
       \A r \in SuccessRows : pages[r.page] # NoPage =>
         HasPage(r.source, pages') \/ archivedWikiPath(r) \in archived' \ archived]_vars

LastPage(s) == IF previousWikiPage(s) = NoName THEN NoPage ELSE pages[previousWikiPage(s)]

(* A failed digest of the content that page was recorded with: its row is        *)
(* replaced by one that names no page.                                      *)
Forgets(s) ==
  \E c \in Contents : /\ \E r \in RowsFor(s, c) : r.page = previousWikiPage(s)
                     /\ \E r \in RowsFor(s, c)' : r.page = NoName

(* Research evidence on the page a source was last recorded with is on that     *)
(* page and on each page recorded after it, whatever its name and whichever *)
(* writes failed, until the ledger forgets that page; only users, agents and *)
(* the archive take a page away.                                            *)
EvidenceIsCarried ==
  [][run.at # "idle" /\ changes' = changes =>
       \A s \in Sources :
         HasEvidence(LastPage(s)) /\ LastPage(s)' # NoPage =>
           HasEvidence(LastPage(s))' \/ Forgets(s)]_vars

(* A page holds digests of one source: no other source's digest replaces it.   *)
PageKeepsItsSource ==
  [][\A p \in PageNames : pages[p] # NoPage /\ pages'[p] # NoPage =>
       pages'[p].source = pages[p].source]_vars

(* Permanent failures of one content are bounded: MaxAttempts of them, and one   *)
(* more for each profile since, as a source given up is tried again with it. *)
AttemptsBounded == \A r \in Rows : r.attempts < MaxAttempts + profile

(* A failure that does not count as an attempt never makes a later run skip the *)
(* source: only permanent failures and refusals give a source up.           *)
TransientIsRetried ==
  [][\A r \in ToSet(ledger') \ Rows :
       r.status = "failed" /\ r.attempts = attemptsOf(r.source, r.content) =>
         r.attempts < MaxAttempts]_vars

IsSettled(s) ==
  \E r \in RowsFor(s, files[s]) :
    \/ GivenUp(r)
    \/ /\ r.status = "success"
       /\ pages[r.page] # NoPage
       /\ pages[r.page].source = s /\ pages[r.page].content = files[s]

(* When users and faults leave it alone for long enough, every source that is   *)
(* there has the page of its present content, or was given up.              *)
Converges == <>[](\A s \in Sources : files[s] # Gone => IsSettled(s))

(* A single missing source beside present ones does not stay in the wiki.     *)
OrphansAreArchived == <>[]Ambiguous

(* One source, one page: what an earlier digest wrote elsewhere goes away.     *)
OnePagePerSource ==
  <>[](\A p, q \in PageNames : pages[p] # NoPage /\ pages[q] # NoPage
                                /\ pages[p].source = pages[q].source => p = q)
=============================================================================
