# cogvault in TLA+

cogvault keeps two stores and the programs around them. The **archive** holds
original documents (objects, named by their SHA-256), the captures that say where
they came from, and a queue of pages still to be fetched. The **vault** holds wiki
pages digested from source files, a ledger of what was digested, and a search index.
Documents travel from the archive host to the ingest host through a folder, and
receipts travel back.

This directory models the parts that run concurrently, stop half-way or meet stale
state. Every module translates the Go source; `PROJECT.json` maps each definition to
the lines it stands for, and lists for each component whether it is modelled and what is
left out, and for each hazard the properties about it.

## Inventory

| Part (source) | State | Operations | What is hard | What makes it right |
|---|---|---|---|---|
| Job queue (`archive/jobs.go`, `collector.go`, `browser.go`) | tables `jobs`, `job_attempts`; memory of each worker | submit, claim (with reclaim of expired leases), store and complete, complete, retry | a worker is slow, killed, or comes back after its lease; two workers may use one name | a try is held by one worker, recorded once, within its budget; every capture is accounted for; every job ends |
| Archive store (`archive.go`) | objects, captures, files in `objects/` | capture source and summary | file published before commit; same key again; deleted bytes offered again | a committed row has its bytes; one key, one capture |
| Acquirer (`acquire.go`, `sourcepolicy.go`) | none of its own | acquire, reacquire | redirects, one of them signed; capture and attempt are two commits | a downloaded capture keeps a URL that can be asked for again |
| Fetched files, extraction (`fetched.go`, `extract.go`) | derivations, extractions | import, extract | two commits; source deleted between; captures share bytes | a derived object has an active source; repeating the call completes it |
| Reassessment (`recovery.go`) | recorded attempts with links | reassess, record attempt | capture and link are two commits; two runs at once | a success is whole; repeating the call completes it |
| Deletion (`deletion.go`) | `deletions/log.jsonl`, object states, `quarantine/` | impact, quarantine, restore, purge, replay on open | a stop between log, file and row; objects derived from several sources | rows tell where bytes are; bytes go only by purge; a replay changes nothing |
| Backup (`backup.go`) | backup directory and manifest | backup, verify, restore, restore-test | an old registry beside a new log | nothing deleted since comes back |
| Hand-off (`handoff.go`, `capturemap.go`, `pagelinks.go`) | outbox, pickup folder, capture map, receipts, page links | hand off, pick up, write and collect receipts | two hosts that share the archive root, overlapping writers, repeats, reordering, changed files | one source path for each object; receipts applied in sequence order |
| Ingest run (`ingest/`) | ledger, pages, index, lock file | run (scan, digest, write), orphan sweep | five writes for one source without a transaction; sources change or move meanwhile | ledger and pages agree after the next run; no page of another source is lost |
| Trial service (`trial/`) | the queue, a pause file, a claim lock | submit, run once, loop | several workers share a budget; a check of several queries is crossed by tries that end | never more requests than the limits and one for every other worker |
| Worker loop (`archivegate/`) | none of its own | loop, allowed | permission withdrawn while running | at most the job whose check was passed begins afterwards |
| Server runtime (`cmd/cogvault/archive_serve.go`, `serve.go`, `mcp/archive_tools.go`) | capture gate, tool list, queued reload | reload, tool calls, shutdown | disabling while calls run; signals during a reload | nothing stores once capture is reported disabled; the last edit is applied |
| Wiki index (`index/`) | FTS table, file metadata, embeddings | add, remove, rebuild, consistency check, embed | the check reads files outside its transaction; rebuild empties first; other processes write | a row vouches only for what it holds; index and embeddings follow the vault |
| Token check (`httpauth/`) | key cache | admit a request, fetch keys | one fetch in flight, rotation, outages, floors | waiters are released; the issuer is not hammered; new keys are seen, old ones end |
| Git commits (`gitutil/commit.go`) | repository lock, git's own index lock | commit | several processes, time limits, a git that outlives its caller | what was written is committed unless a fault cut it short |
| LLM clients, browser driver, extraction tools, parsers, evidence checks, terms, config | none shared, or a foreign process | | I/O and parsing | not modelled, see below |

The archive's operations exclude each other through one lock file: deletion, backup and
extraction hold it exclusively, everything else shared; inside, SQLite
transactions begin as writers (`_txlock=immediate`). Queue and trial workers, the MCP
server and the command line are separate processes over the same archive.

## Modules

| Module | Part | Composes | Runs |
|---|---|---|---|
| `TryLedger` | what the queue promises: tries opened and settled | | (refined by `JobQueue`) |
| `JobQueue` | job queue | `TryLedger` as the abstract specification | `jobqueue_one` |
| `Trial` | trial service | extends `JobQueue` | `trial` |
| `Captures` | store, reassessment, downloads, imports, extraction | | `captures` |
| `Deletion` | deletion log, files and rows | | `deletion_sources` |
| `BackupRestore` | backup and restore | extends `Deletion` | `backup_restore` |
| `Handoff` | the two hosts and the folders between them | | `handoff_delivered` |
| `IngestRun` | ingest run | | `ingest`, `ingest_reverted` |
| `WikiIndex` | search index, its check, embeddings | | `wiki_index` |
| `WikiCommits` | commits of wiki pages | | `wiki_commits` |
| `Server` | capture switch of the server and of the workers | | `server` |
| `TokenCheck` | admission of a request, key cache | | `token_check` |
| `QueueProofs` | theorems about `JobQueue` and `Trial` | extends `Trial`, `TLAPS` | |
| `DeletionProofs` | theorems about `Deletion` and `BackupRestore` | extends `BackupRestore`, `WellFoundedInduction`, `TLAPS` | |
| `CapturesProofs` | theorems about `Captures` | extends `Captures`, `FiniteSetTheorems`, `TLAPS` | |
| `HandoffProofs` | theorems about `Handoff` | extends `Handoff`, `SequenceTheorems`, `FiniteSetTheorems`, `WellFoundedInduction`, `TLAPS` | |
| `IngestRunProofs` | theorems about `IngestRun` | extends `IngestRun`, `SequenceTheorems`, `FiniteSetTheorems`, `WellFoundedInduction`, `TLAPS` | |
| `WikiIndexProofs` | theorems about `WikiIndex` | extends `WikiIndex`, `TLAPS` | |
| `WikiCommitsProofs` | theorems about `WikiCommits` | extends `WikiCommits`, `TLAPS` | |
| `ServerProofs` | theorems about `Server` and `TokenCheck` | extends `Server`, `TokenCheck`, `FiniteSetTheorems`, `TLAPS` | |

A module with sets that a cfg cannot write down has an `MC` module that defines them; the others are
run as they are.

### TryLedger and JobQueue

`TryLedger` is the promise: a job has numbered tries, each opened try is settled exactly
once before the next opens, and the bytes a try stores are published in the step that
settles it. It knows no clocks, leases, owners or workers.

`JobQueue` is the code. `jobs` and `attempts` are the two tables, `captures` the captures
that tries stored, `order` the submission order (`created_at`), and `workers` what
each worker process remembers. One action is one SQLite transaction: `SubmitJob`, `RetryJob`,
`ClaimJob` (reclaims every expired lease of its executor, then leases the oldest due
job), `StoreCapture` (capture and completion in one transaction behind `checkLease`),
`CompleteJob`. `FetchEnds` is the download with any outcome `classifyAcquire` or
`browserOutcome` can give, `WorkerStops` a crash anywhere, `Tick` the clock.

Times are kept as what is left of them. The capture id of a try is the pair of its job and
number: in the code it is a digest of the request key, which holds the time of the fetch,
so different tries have different captures. Left out: the reuse of an existing capture
by key, ties of `created_at`, and the browser worker's preflight, which claims nothing (so
`EveryJobSettles` is about hosts whose preflight passes). Outcomes that name a capture made
before (`held`, `acquired`) reach `CompleteJob` through its API, as in its tests.

### Trial

The trial service is the queue of `JobQueue` with limits. `created` and `started` are the ages
the two budgets are counted from; `lock` is the claim lock and `at` where each process is
between taking it and letting it go. The budget is read by the four queries that matter, each a step:
`BeginBudget` (the clock, the pause file, the attempts of the hour), `CountHour` (the running jobs of the
hour), `BeginDay`, `CountDay`; `count` holds what they found. The lock keeps other claims and submissions out
from there to `ClaimWithinBudget`, not the tries that end meanwhile: one that ends between the query of
the attempts and that of the running jobs is found by neither. `CheckQuota` is one step, since what it counts
grows under the lock only. `SetPaused` writes or removes the pause file at any moment; `Pass` is
the check of the loop and `MayClaim` the second one under the lock. `Refuse` ends a claimed
job that a narrower policy no longer allows. A kill in the download is that of `JobQueue`,
one under the lock loses the lock with the process. Left out: creating and marking the root,
and the reports. `late` counts claims: a try claimed before the pause whose request goes out after it is
not one.

### Captures

`object`, `captures`, `attempts`, `derivations` and `extractions` are the tables, `call` what each
running command is doing. A capture's identity is its request, or the key the caller gave
(`KeyFor`), as in `store`. The calls that commit twice are two actions each: `StoreRecovered`
and `RecordLink` (reassess and reacquire), `StoreBody` and `AddDerivation` (import); the archive
lock is free in between, so deletions, restores and other callers come there, and `Stop`
ends the call there. `HeldLink` is the early return on the link that was read at
the start of a reassessment; `RecordLink` takes the refusal of the unique index for success.
`BeginAcquire`, `Redirect`, `Answer` and `CaptureURL` are a download with its redirects, of
which one may be signed. `ExtractText` is one step since it holds the lock exclusively.
`promised` and `answered` are what successful calls told their callers.

Reading a capture's status and opening its file are one step, and a deletion is one step: its
log, files and rows are the subject of `Deletion`. Left out: the integrity check of
bytes that are there already, summaries and reports (requests of the same store), address
checks, headers, size limits (each is the outcome `failed`), and attempts an operator writes
by hand. A reacquired capture that was stored and not linked stays unlinked: the next
download has another time and is another capture. The code reports that to the operator.

### Deletion

`log` is the durable log, `rows` the table of objects, `files` the directories an
object's bytes are in, `links` the derivations and extractions. `Quarantine`,
`Unquarantine` and `Purge` append their record; `BeginApply`, `MoveFile` and `SetRow` are the
steps of `apply` for the object and each derived one; `Stop` ends an action
anywhere, leaving the rest to the next `Open`, which replays the latest record of each
object in the order of the object ids. `CaptureSource` and `AddDerived` publish a
file and may stop before they commit. An instant is "recent" until `ThirtyDays` passes. Left
out: damaged bytes, a torn last line of the log (opening is then refused), the digest of the
impact report, and the removal of quarantine receipts.

### BackupRestore

Extends `Deletion` with one copy (`backup`), taken under the exclusive lock when
`checkBackupObjects` agrees, and `Restore` to that copy with the live log, after which
only opening is possible until an `Open` went through the whole log.

### Handoff

The archive host has the registry (`recorded`, `handoffs`, `registry`, `links`), the ingest host
the copies, the capture map, the ledger and the pages; `outbox`, the objects and
`receipts` are in the folders both see. Each command is a process with its own memory
(`hander`, `picker`, `writer`). A hand-off's sorted list is the set of candidates still to come, of which
`Foremost` is the next: `LookUpExtension`, `WriteManifest` and `RecordHandoff` are
`Handoff` for one candidate. `handoffs` is the table in the order of `written_at, capture_id`, which decides
what extension an object has (`canonical`); a row enters at any place of it (`InsertAt`), because the time is
taken before the row is written and times are compared as text; `CopyObjects`, `ReadMap` and `RenameMap` are `Pickup`;
`Observe` and `PutReceipt` are `WriteReceipts` for one manifest, the ledger having
been read before the number was taken; `CollectReceipt` is one transaction, and receipts
are collected in the order of their numbers, as `CollectReceipts` sorts them. Every command may
be killed between two of its steps, run beside another of its kind, or meet an object that was
quarantined. A receipt's number is its place in the sequence of its capture. Left out: damaged or
oversized files, and the digests that protect them.

### IngestRun

`ledger` is the table in the order of its row ids (an upsert removes the row of the same key and
appends the new one, as INSERT OR REPLACE does), `run.todo` the sources the scan found, taken by path,
`pages` and `archived` are the files under `sources/` and `sources/_archived`, `index`
the entries of the search index, `files` the source directory, and `run` what the run
remembers between two of its writes. `SweepLooks`, `SweepRechecks`, `SweepMoves` and
`SweepRecords` are the sweep; `Scan` and `NextSource` the loop over sources; `Deferred`,
`DigestFails` and `Digested` the end of a model call; `WritePage`, `IndexPage`,
`SupersedePrevSuccess`, `RecordSuccess` and `RetirePrevious` the five writes, each of which
may fail (`WriteFails`, and a branch of `RetirePrevious`) or be the last (`Killed`). `EditSource`,
`DeletePage`, `AddEvidence` and `Reconfigure` belong to the user and to agents and may
come between any two steps, except that configurations restrict `DeletePage` and `AddEvidence` to the
phases in `DeletePhases` and `AgentPhases`, and the configuration is read when a run
starts. A page is its source, the content it was digested from and whether it has research
evidence. `Slug` says which name a source gives its page: the file name, so that two
sources may agree, or the content for names without letters and digits.

The scan reads all hashes in one step: sources do not meet in it. Left out: the settle window,
`--limit`, dry runs, type and size filters, several directories (each is swept by
itself), pages torn by a crash inside one write, merging of usage terms, PDF metadata,
changes of a source that are reverted while the model reads it, and the counts of the report.

### WikiIndex

`file` is a page on disk, `fts`, `meta` and `embedding` its rows. Pages have numbered versions; a
version has a modification time of its own (two writes within the resolution of the file system
are left out) and a content, `ContentOf`, which may be one the page had before: a hash can come back, a
stamp cannot. A write is one step (a torn read would be a version of its own that the next write
replaces). `WritePage`, `ParsePage`, `AddPage` are `wiki_write`, `DeletePage` and `RemovePage`
`wiki_delete`, each able to lose its second half; `WriteIndexPage` is the page the index command writes and
adds. A consistency check reads the index
(`Search` or `RunCommand`), walks page by page (`Walk`, `StatPage`, `ReadPage`, `ParseScanned`)
and applies what it found in one transaction (`ApplyCheck`); `ccMu` admits one in a process,
and the server and a command are two processes. `ClearText`, `ClearMeta`, `ClearEmbeddings`,
`LoadRebuilt` are `Rebuild`; `ListStale`, `ReadText`, `EmbedBatch`, `StoreEmbedding` the embed
command. Users edit and erase pages beside all of it (`EditPage`, `ErasePage`). Search
queries and the other reads change nothing; `Found` and `Similar` say what they can return.

### WikiCommits

`work` is a page on disk, `staged` and `head` git's index and last commit. A call writes its page
(`StartWrite`, `FinishWrite`: torn in between), takes cogvault's lock (`lockRepo`, or
`LockTimeout`), and runs `git add` and `git commit` (`StartGit`, `FinishAdd`,
`FinishCommit`), each of which holds `.git/index.lock`. An ingest run moves pages of removed sources (`Sweep`)
and writes others (`FinishPage`, which counts a page as digested only when index and ledger took it too);
`EndRun` commits the whole tree if the run digested something and returned no error, and else leaves what
it wrote to a later commit (`left`). `GitTimeout` ends a git by signal:
SIGTERM removes `.git/index.lock`, SIGKILL after the grace does not (`LeftBehind`), and every later git fails on
it. `Kill` ends a cogvault process: its lock is free at once, its git goes on. `cut` are the pages whose own commit
did not get to its end.

### Server

`file` is the setting in the config file, `hups` and `pending` the two channels of capacity one
between a signal and the reload goroutine, `reload` that goroutine inside `Reload`, `gate` the
`ArchiveGate`, `listed` whether the tools are registered. A call looks its handler up
(`LookUpHandler`) before it enters the gate (`EnterGate`), as in the MCP library, so the removal of
the tools does not stop it. `DrainGivenUp` is the end of the drain's time. `ShutDown` and
`CloseArchive` are the end of `serve`. `workers` are loops of collection workers, which read
the file before each claim.

### TokenCheck

`issuer` has the keys and whether it answers, `cache` is `JWKSCache` with the ages of its three
time stamps, `fetch` the fetch in flight. `Hit`, `Join`, `HeldBack` and `BeginFetch` are the four ways
`KeyFor` goes on under its mutex; `Respond` and `CommitFetch` are the fetch and what it
stores; `Wake` is a waiter that takes what the cache has by then, `Cancel` one whose
client left. The configuration accepts a TTL below the floor (1 to 59 s): fetches are then spaced by the TTL only,
`Spacing` is the shorter of the two, and the module assumes nothing of how they compare. Whether a token has expired is decided after the key came (`Admissible`). Parsing of tokens,
scopes and metadata is sequential and is left out.

## Runs

| Run | Question | Bounds |
|---|---|---|
| `jobqueue_one` | Every race for one try: is no try lost, held twice or unaccounted for, is every step one of the ledger, and does the job end although workers may be killed in every try? | one browser job, two browser workers under one name, at most 3 tries, lease 1, backoff 1 to 2, two contents, a verified and an unverified known capture |
| `captures` | Are calls with two commits whole when they say so, and completed by their repetition, while the page is deleted and restored in between? | one page captured by hand, downloaded once, and imported, all the same bytes; two callers, one cut |
| `deletion_sources` | Do rows, files and derived objects keep to the log, with a stop at any step? | three sources that share a derived object, two of which are acted on, 4 log records |
| `backup_restore` | Does anything that was deleted return with an older copy, with a stop at any step of `Open`? | one source and its derived object, 4 records |
| `handoff_delivered` | Does every capture arrive, and its receipt return, with the right basis? | one capture, two overlapping receipt writers, two digests, one deletion, one kill |
| `ingest` | Two sources, one page name: is no page lost, is evidence kept, does the wiki catch up and are orphans archived? | two contents, two profiles, 2 changes, 1 failure or kill at any write |
| `wiki_index` | Do index and embeddings follow the vault while server, rebuild, embed command and editors cross? | one page, two versions and a third with the content of the first, one call, one fault |
| `wiki_commits` | Is what was written committed, unless its own commit was cut or an ingest run ended without one? | two pages, a call and an ingest run, one timeout or kill |
| `trial` | Are the limits kept, and does a pause hold, when everybody checks at once? | two jobs (one no longer allowed), two workers, two submitters, a queue of 2, limits 1 an hour and 2 a day |
| `server` | Is capture quiet once it is disabled, and does the last edit win? | two calls, one worker, 4 edits |
| `token_check` | Are keys current, seen in time and fetched sparingly, and does every request end? | two requests, one key that comes and goes, one outage; TTL 4, floor 2, fetch 1 |
| `ingest_reverted` | A statement of `SPEC.md` the code does not keep; see Findings | one source, 2 changes, 1 failure |

Why the bounds are enough. A try interacts with the next one of its job and with a worker
that still believes in it: three tries and two workers under one name hold a stale worker, a
current one and a reclaim between them. Deletion's hazards need two sources
that share a derived object, and a third that nobody touches keeps it active meanwhile; four records are a quarantine and a purge of each, or a
quarantine, restore and quarantine again beside one of the other.
A call of `Captures` meets another run of itself, or a deletion, between its two commits: two
callers and one cut hold both, and giving all three inputs the same bytes makes every capture
of them meet in one object. A receipt depends on the one before it of the same capture: two
writers and two digests give every order of observing and numbering.
A digest interacts with the digest of the same source before it and with one other source
that wants its page name; two contents tell the page of the present content from an older
one. Pages of the index do not interact except in the walk, so one page, with an old and a new
version, an edit that brings the old content back (made while no call runs, `MaxWritten`) and up to three
processes at it, holds the races; commits of different
pages do, through the shared git index, so there are two. A trial limit is reached by two workers that
check at once; both windows are reached within two tries, and with two workers one try can be overlooked. Four edits are on, off, on
again and off again: the last one finds a reload of each kind still running, and calls of two
earlier openings. One key is present, absent and known or not known to the cache; the
floors interact in pairs within one TTL.

`ingest` excludes that a source comes back to an earlier content, and lets agents write between runs
only; those cases are where a property fails, and the configurations below show it. `MaxChanges`
bounds edits, deletions, evidence and changes of the model together.

Deadlock checking is off where the system may stop: in `backup_restore` when the log is
at its bound and the copy taken, in `captures` when the bounds are used up, in `wiki_commits` when
the pages had all their versions, in `server` after the shutdown.

**Fairness.** `FairSpec` of `JobQueue` assumes that the clock advances and that a worker's loop
keeps stepping (`RunNextJob` is polled; a download has a time limit). It does not
assume that a worker is not killed: `WorkerStops` may happen in every try. A job still
ends because a claim counts the try before the download. Submitting and retrying are
never owed.
`IngestRun`: runs are started again and again (the scheduler does) and go on until they are killed,
and a model that is asked for a source again and again answers in the end. `Captures`: a
call goes on until it is cut, and an operator whose reassessment or import was cut runs
the same one again, as its error message asks (strong: the archive may be busy or the
input deleted for a time). `Handoff`: the operator's schedule runs the commands again and
again, and a run of `WriteReceipts` looks at every manifest (strong: a manifest may be
away for a time). `WikiIndex`: what began goes on, time passes, and searches and scheduled commands
recur. `WikiCommits`: a waiter tries the lock until its time is up and is not passed over for
ever (strong), and every git ends. `Server`: goroutines run, admitted calls end, the drain's time
passes. `TokenCheck`: requests run and the client's timeout ends a fetch. `Trial`: the clock advances and
every process makes its next step.
Nowhere is an edit, a deletion, a rotation or a fault owed; faults end with their bound.
`Deletion` and `BackupRestore` state no liveness.

## Further configurations

To be run by hand, `tlc -config X.cfg M.tla`, M being the `MC` module if there is one. These pass:

- `JobQueueExecutors.cfg`: an http and a browser job end, each by its own worker.
- `HandoffShared.cfg`: two captures of one object under two names, two overlapping hand-offs and two
  pickups: `OneExtension` and `PagesKeepCaptures`.
- `IngestRunShared.cfg`: two sources of one page name with a source that comes back;
  `IngestRunMoved.cfg`: a page name that changes with the content, two profiles.
- `WikiIndexExcluded.cfg`: a page the tools may write and the scan leaves out.

Defined, left out of the runs to keep them short, and true on the same instances when added to the
cfg of the run: the types of each module and every property the section on proofs names (proved for
all instances; `ResultIsLastStored` on that of `JobQueueOne.cfg`); `TrialJobsEnd` (`Trial.cfg`).

These show where a property ends that holds in the runs:

- `DeletionDerived.cfg`: operators act on a derived object directly, and four properties fail, each also
  alone. `QuarantinedIsRestorable`: a quarantined source cannot be restored any
  more once an object derived from it was quarantined and purged on its own.
  `PurgedStays`: a later action on the source sets the row of such an object to quarantined,
  without bytes; `RowsTellPlaces` fails by the same step. `ReplayIsNeutral`: replaying the log of an archive in line
  with it changes the row of such an object, since records are replayed by id and not by time.
  `RestoredInPlace` and `NothingReturns` fail in the same way (`BackupRestore` with objects 2 and 3, 2 derived from
  3, both acted on, 3 records).
- `DeletionOnePlace.cfg`: an action that stopped after it moved a derived file, and a
  derivation of the same bytes through a handle already open, leave the object in both
  `objects/` and `quarantine/`.
- `BackupRestoreDerived.cfg`: after a restore, a derived object stays active although the log
  deleted all of its sources: `NothingReturns` is about objects with a record of their own.
- `BackupRestoreRecapture.cfg`: a restored archive accepts the bytes of an object the log deletes
  when the copy is older than the object.
- `HandoffRetyped.cfg`: a hand-off that stopped between manifest and row, and one with other
  types after it, give one object two source paths (`handoff.go:65-67`, `106-110` promise one).
- `HandoffOverlap.cfg`: two receipt writers give a later number to an earlier observation
  (`pagelinks.go:54-57` takes the number for the order of observation); the next run corrects it.
- `IngestRunReturned.cfg`: a source that was archived, came back unchanged and is removed again is
  not archived, and holds up the sweep of its directory.
- `IngestRunReprofiled.cfg`: attempts used under one model count under the next, where
  a single transient failure then gives the source up.
- `IngestRunLeftover.cfg`: a run that ends at the wrong moment leaves two pages of one source.
- `IngestRunAgent.cfg`: evidence written while its page is digested again is lost.
- `IngestRunUnrecorded.cfg`: a page without a ledger row is overwritten by another source with
  the same name, which also takes its evidence over.
- `WikiIndexTorn.cfg`: two properties fail, each also alone. `IndexCatchesUp`: a rebuild killed between its
  first two deletes leaves rows whose stamps agree with the files and whose text is gone; no check repairs
  them, searches miss the pages until they change. `EmbeddingsAreCurrent`: embed lists a page with the hash
  of one content, reads the next one, and stores its embedding under that hash (`embed.go:99-121`); when the page
  returns to the first content, `StalePaths` (`embedding.go:75`) compares hashes and never lists it again, so
  the wrong embedding stays, while `SPEC.md:919-921` takes an embedding whose hash agrees for a current one.
  `EmbeddingsCatchUp`, which the run checks, leaves out exactly the pages that came back to an earlier
  content after they had another (`CameBack`).
- `Trial.cfg` with `NoSlotIsUsedTwice`: with two workers an hour or a day sees one request more than its limit, when
  the other worker's try ends between the two queries of a count; `docs/deployment/trial.md:55` says the lock
  rules that out.
- `ServerUnchecked.cfg`: a reload that finds capture on already does not run the activation
  check (`archive_serve.go:167`), so evidence that went stale meanwhile keeps the tools listed;
  `docs/deployment/collector.md:15` and `:244` read as if every reload checked it.

## Findings

The run `ingest_reverted` is kept among the runs: a source that goes back to its recorded content
after a later digest failed behind its page keeps the other content's page and is called
unchanged by every later run, while `SPEC.md:1924-1926` says such a failure "never corrupts
state". The other disagreements between the code and its documents are the
configurations above that fail.

## Proofs

A theorem holds for all values of the constants that satisfy the module's ASSUMEs, which every
run evaluates; some theorems have a hypothesis more, named below. Of the properties the runs check,
all are proved but liveness.
Each module proves an inductive invariant, with a lemma for each operation, and derives the rest.

**Queue** (`QueueProofs`; these cite nothing of `Trial`): `TypeCorrect`, `HistoryExact`, `CapturesRecorded`, `TriesExclusive`,
`BudgetKept`, `ClaimsHold` and `ResultIsKept` are invariants, `HistoryAppendOnly`, `SettledJobsStay` and
`LeaseProtects` action properties, `QueueRefinesLedger` the refinement of `TryLedger`. None of
the invariants is inductive alone: that a late store does no harm needs that the worker's
memory is of a claim the job really had (`MemoryIsOfAClaim`: a remembered attempt is at most
the number of tries made), that a running row counts its own try (`RowsAreSound`), and that
the history has a row for each earlier try (`HistoryIsExact`). Together they say: if
`checkLease` passes, the worker's number is the job's last and the history lacks exactly that
row. `ClaimsHold` needs besides that a worker reports with the bytes
of a known capture whenever it names one (`ReportsKnownCapture`). `ResultIsKept` is about the whole
history, which only grows at its end: a row appended either stored bytes, and is then the last that
did, or leaves the last one what it was (`LastOfAppended`). The refinement maps a job to its phase, the
outcomes of its attempt rows and the numbers of the tries that stored a capture. Each action of
the queue changes one job of the ledger, by one of the ledger's steps or not at all, with one
exception: a claim may settle any number of expired tries and open one try in one transaction. The
ledger takes them in one step, and the proof shows that each job moves by its own.

**Trial** (also `QueueProofs`): `TrialIsQueue` shows that the service implements the queue (a
refused job is a download that failed, all else a step of the queue or none), so that
`TrialQueueSound` takes over what is proved there. `RequestsLimited`, `SubmissionsLimited` and
`PauseStops` are the limits. Between the first query and the row it allows there are steps of others, so the
invariant says that who is past the lock holds it (`LockIsExclusive`), that a worker in a pass has no
try in its hands (`PassingIsIdle`), that each try the queries have overlooked was ended by another
worker (`CountsAreSound`) - which then has none, and cannot claim while the lock is held, so that each of the others
accounts for at most one (`Overshoot`) -, that what was
allowed has a slot at that moment (`AllowedIsWithin`: time only helps and nobody
else can claim), and that after one late claim no other worker passed the pause before it
(`LatePause`). With one worker the limits hold exactly. Assumed: finitely many jobs and workers, and `None`
is not a process.

**Deletion** (`DeletionProofs`): `RowsTell`, `DerivedObjectsFollow`, `BytesOnlyPurged`,
`QuarantineIsReversible`, `DeletedStaysHidden`, and the action properties `ReplayChangesNothing`,
`PurgedForGood`, `PurgeWaits`. An object moves by the records that name it, or with the sources it follows.
Nothing in the code keeps the two in order where an object does both (`Mixed`: operators acted on a derived object,
or an import made bytes that have a record), and there most of these properties fail (`DeletionDerived.cfg`). The
invariant has no hypothesis: it holds in every behaviour and says little of mixed objects. Each theorem
first states the property of the single object, for all that are neither mixed nor follow a mixed one
(`Plain`), whatever is done to the others; and then the property of the run, for behaviours in which no object
is ever mixed. `DeletedStaysHidden` is about rows and about files in `objects/`. `PurgeWaits` says of an original
that its last quarantine record is thirty days old (`LongQuarantined`), not one from before a restore.
The invariant must hold in the middle of every action and replay: the last record of a source was possible in the state of its row
(`SourcesKeepToLog`), the bytes of derived objects go only after all their sources were purged
(`FollowersKeepBytes`), the objects an action still has to move are exactly those that are not in
line (`ApplyingIsSound`), and once a replay has begun, whatever has no pending record is in
line (`RecordsApplied`, `FollowersApplied`) - the replay goes by object id, so a derived object
may wait for the last of its sources, and what is said of it can be about its applied sources only. During a
replay of an archive that was in line nothing is to be done (`AllInLine`), which gives
`ReplayIsNeutral`: no row changes, and the only file that goes is a leftover copy beside an active one.
`PurgeWaits` needs that rows and records are of one age (`AgesAgree`). That the
object with the least id exists comes from the well-foundedness of the naturals.

**Backups** (also `DeletionProofs`): `NothingIsBroughtBack`, for every object that moves by its own records alone (`MovesAlone`)
whatever is done to the rest, and `RestoredRowsTellPlaces`, for behaviours without mixed objects: the replay may
move a mixed one twice, in the order of the ids. Derived objects without a record are in neither: they can return. A restored copy
does not satisfy the invariant above: its rows are older than its log, which names objects the copy
may not have. `BInv` keeps what holds of every copy: the record that is applied is the last of its object and
moves only what was derived from it (`ApplyingIsLatest`), and in a copy that no Open has gone through,
the deleted objects that are no longer pending are hidden, file before row (`ReplayHides`). That such an object follows no source
is what keeps another record of the replay from bringing it back.
`RestoredInPlace` is about all objects, also those the log does not delete, and about a replay by object
id of records that were written for other states than those of the copy. Its invariant (`PlaceInv`) says
that each object of a copy that is not open is in its place or owed (`ReplayPlaces`): a pending record has it among what it will
look up, no record before that one changes a row any more, and nothing but a purge still to be
applied finds it without bytes (`BytesUntilPurged`). The last row that is set leaves nothing owed. Where the replay starts is
known of the copy (`CopyIsSound`): `Consistent` and `TablesFit` put every byte in its place, and what the copy has
purged has a purge for its last record, since a purged object takes no further records (`PurgesLogged`).
`tlc` checked `PlaceInv` on the instance of `BackupRestoreOne.cfg` before it was proved.

**Captures** (`CapturesProofs`): `SuccessesAreWhole`, `ExtractionsByCapture`, `DownloadsRepeatable`,
`DerivedHaveSources`. `SuccessIsWhole` needs that a link exists once (`LinkedOnce`) and
that what a reassessment read before its store is still there when it takes the early return
(`LinksRead`; attempts are never removed). `AcquirableAgain` needs that a redirect to a signed URL is
remembered until the capture gets its own (`SignedIsKnown`). `DerivedHaveSources` has the
hypothesis `OnlyOriginalsTargeted`: a derived object that is restored on its own may be
active without its source.

**Ingest run** (`IngestRunProofs`): `PagesHaveOneOwner`, `SuccessIsUnique`, `PagesAreNotLost`,
`EvidenceCarried`. Here five writes without a transaction may stop anywhere while users change
everything, so `IInv` says what the run may rely on: the ledger has one row for each source and
content (`RowsAreKeyed`), the names in hand are held by no other source's row (`NamesAreHeld`),
the page it wrote is its own or was deleted (`PageIsOfJob`), all earlier successes of the source
are superseded when the new one is recorded (`NoSuccessYet`), and the page that is retired is
followed by another one (`PreviousIsFollowed`). Evidence needs a second invariant (`EInv`): the page
about to be written follows the one the ledger names last, evidence that page has
was read, and the written page has it. "Last" is an order of row ids, which replacing a row changes:
`Replaced` and `PageOfReplaced` say what a replacement does to it. Hypothesis of `EvidenceCarried` is
`AgentsWait`: no agent adds evidence between the read and the record of a digest
(`IngestRunAgent.cfg` shows the loss).
The first attempt at this proof failed for a good reason. The property said that evidence is kept
while no write fails, and that was false beyond the bounds of the run: with three contents and
six changes a page is left standing because its successor was deleted before it could be retired,
later digests of the newest content are refused, `recordFailure` replaces the row that named the newest
page (`ledger.go:186` is INSERT OR REPLACE), and the next digest follows the older page, which lacks
the evidence. The property now holds whichever writes fail, and names that one exception (`Forgets`).

`PagesAgreeWithRows` and `AttemptsHaveABound` rest on `IInv` too. While no write failed, all success rows
agree with page and index except that of the source in hand between its page and its row, where page and
index agree with the source instead (`AgreeInv`); no other row names that page (`NamesAreHeld`),
and the page that is retired is not the one the source's row names (`OneSuccess`). What bounds the attempts is that a permanent failure is
recorded only in a digest that began because the source was not given up (`NotGivenUp`), and nothing else
touches its rows or the profile meanwhile; a row is counted under the profile it was last tried with (`Counts`), which is why
the bound grows by one with each profile. `tlc` checked both invariants on the instances of `IngestRunShared.cfg` and
`IngestRunMoved.cfg`; there, with two profiles, the bound first written (`MaxAttempts` alone) was false.

**Hand-off** (`HandoffProofs`): `LinksKeepTheirBasis` of the receipts. The proof needs that what is collected is
there and that receipts are only added behind those there are (`PutKeeps`), so that a later receipt cannot
change what a link rests on, and that the least of a set with one member more is found by one
comparison (`BasisGrows`), which is what `linkReceipt` does. `MapKeepsCaptures` and `RecordedCapturesStay` are
what the flock is for: a pickup about to rename read the map as it is (`PickupInv`), since nobody
else can have replaced it. `ManifestsAgree` and `BytesHaveOnePath` have the hypothesis that all hand-offs
are run with one set of types (`HandoffRetyped.cfg` shows two paths otherwise). The extension of an object
is then that of its first capture that is eligible by its own name (`Fixed`), also when hand-offs
overlap, die between manifest and row, or meet a deletion: a hand-off leaves none of these captures behind unless it has
its row (`NoneLeftBehind`), so the candidate that finds no row for its object is that very capture
(`CanonicalIsFixed`). Rows of one object agree, so that the first of them tells the extension at whatever place
a later row is inserted (`Inserted`).

**Commits** (`WikiCommitsProofs`): `CutsAreFaults`. While nothing timed out and nothing was killed, who
works on the repository holds the lock file, a running git is the holder's, and git's index differs
from the last commit only between the holder's add and its commit (`Orderly`).

**Server** (`ServerProofs`): `DisabledQuiet`, `ReloadEndsFirst`, `WorkersStop`. `DisabledIsQuiet` is
not inductive: that the drain's channel is closed says nothing about the calls by itself. It
needs that the gate's count is that of the admitted calls (`GateCounts`, from the theorems on
cardinality of finite sets), that the gate stays closed from `CloseGate` to the report, and that a
closed gate whose drain is over has a count of zero (`DrainIsSound`) - which a call that was looked
up before cannot undo, since it has to pass `Enter`. `WorkersStopAtOnce` needs that a worker between
its check and its job has begun none since the file changed (`LateIsFresh`). Calls and workers are
finitely many.

**Index** (`WikiIndexProofs`): `StampsMeanCurrent`. That a row vouches for its file cannot be seen from
rows that are in the table only: a check carries rows it put together long ago into a table that was
rebuilt meanwhile, over a file written since. What holds of every such row, wherever it is (`Sound`),
is that its stamp is no newer than its content and its title, and these no newer than the page
(`RowsAreSound`, `CallsAreSound`, `ChecksAreSound`). If the stamp is then the file's, which is the
page's newest version (`FilesAreLatest`), all four are one. The order of the reads is what the proof
rests on: stat before content before title (`ParseScannedKeeps`); a row of `Add` has no stamp.

**Token check** (also `ServerProofs`): `FetchesSpaced`, `AdmittedAreCurrent`, `RotationsAreSeen`. What the
cache may be wrong about is bounded by its age (`CacheIsCurrent`), as is a fetch in flight
(`FetchIsCurrent`); a woken waiter sees a result of this moment or an error (`WokenSeesNew`), so it cannot be
told "unknown key" out of an old cache; keys that came without an error after the last forced fetch are
at least as new (`ForcedIsOlder`), which is why the forced floor never hides a rotation; and of two starts within
the spacing, which is the TTL where one shorter than the floor is configured, the second was forced (`Spaced`), so
there is no third.

Each module also proves its types (`TypeCorrect`, `TrialTyped`, `CapturesTyped`, `IngestTyped`,
`CommitsTyped`, `IndexTyped`).

Only model-checked: all liveness (out of the prover's reach), `EverythingIsDelivered` of `Handoff` among it.

## Not modelled

- LLM clients, document extraction, adapters, links, terms, evidence checks, configuration:
  calls of foreign services and parsing, without state that others share. Their results are inputs.
- The session with the browser (`kcibrowser/driver.go`): it is one outcome of a try; the protocol is
  that of an external program.
- Ingest reports, status views, searches, lists: reads.
- Schema migrations, file permissions, path checks, sizes, and damaged files: each ends a command
  before it changes anything, or is the outcome `failed`.

## Plan

Done: the queue with its ledger, the trial, server, deletion, captures, ingest runs, commits and token check,
backups, the hand-off and the index, each with its proofs. Next, in this order:

1. An abstract index (the set of pages that can be found) that `WikiIndex` comes to implement between
   checks, and an abstract delivery for `Handoff`.
2. The creation of a trial root, and attempts an operator records by hand.

## Naming

An operator `Definition_Fault` is an altered form of `Definition`, with a plausible slip of the
code. Nothing uses it; it documents what the properties notice, and `PROJECT.json` pairs it
with the property.
