------------------------------ MODULE JobQueue ------------------------------
(****************************************************************************)
(* The durable collection queue of the archive (internal/archive/jobs.go)   *)
(* and the workers that drain it (collector.go, browser.go): submit, claim  *)
(* under a lease, download outside any transaction, store the bytes and     *)
(* settle the try in one transaction behind the lease, complete a try that  *)
(* stored nothing, retry by an operator. Workers stop at any moment.        *)
(*                                                                          *)
(* Times are kept as what is left of them: a row's `wait` is not_before     *)
(* minus now and its `lease` is lease_until minus now, in ticks. SQL's      *)
(* `not_before <= now` is wait = 0 and `lease_until < now` is lease < 0.    *)
(* One action is one registry transaction: transactions take the write lock *)
(* at BEGIN (_txlock=immediate) and roll back as a whole.                   *)
(****************************************************************************)
EXTENDS Integers, Sequences

CONSTANTS
  Jobs,            \* job ids; an id is the digest of the request key
  Workers,         \* worker processes
  Owners,          \* worker names
  OwnerOf,         \* the name each worker claims under; two may share one
  Executors,       \* {"http", "browser"}
  JobExecutor,     \* the executor a job's URL is admitted for
  WorkerExecutor,  \* the executor a worker runs
  Objects,         \* contents a download can return
  KnownCaptures,   \* captures stored outside the queue: id -> [object, verified]
  Budgets,         \* values of max attempts a submission may ask for
  Lease,           \* ticks a claim holds a job
  BackoffBase, BackoffCap,
  MaxTries,        \* bound of the model: operators retry while made + budget <= MaxTries
  None

ASSUME PoolAssumption ==
  /\ OwnerOf \in [Workers -> Owners]
  /\ JobExecutor \in [Jobs -> Executors]
  /\ WorkerExecutor \in [Workers -> Executors]
ASSUME BudgetAssumption == Budgets \subseteq Nat \ {0} /\ MaxTries \in Nat
ASSUME TimeAssumption ==
  /\ Lease \in Nat \ {0}
  /\ BackoffBase \in Nat \ {0}
  /\ BackoffCap \in Nat \ {0}
ASSUME CaptureAssumption ==
  /\ KnownCaptures \in [DOMAIN KnownCaptures -> [object : Objects, verified : BOOLEAN]]
  /\ DOMAIN KnownCaptures \cap (Jobs \X Nat) = {}
  /\ None \notin Objects \cup Owners \cup Jobs \cup DOMAIN KnownCaptures \cup (Jobs \X Nat)

VARIABLES
  jobs,      \* table jobs: job id -> row
  attempts,  \* table job_attempts: job id -> its rows in insertion order
  captures,  \* captures stored by tries: [id, object]; id is <<job, try number>>
  order,     \* job ids by created_at
  workers    \* memory of each worker process, lost when it stops

vars == <<jobs, attempts, captures, order, workers>>

-----------------------------------------------------------------------------
(* Rows. "none" stands for the empty string in a column.                    *)

Settled   == {"held", "acquired", "failed", "human_action_required"}
Stored    == {"held", "acquired"}
JobStates == {"absent", "queued", "running"} \cup Settled
Outcomes  == Settled \cup {"retry", "lease_expired"}

CaptureIds == DOMAIN KnownCaptures \cup (Jobs \X Nat)

Row == [state : JobStates, seen : Objects \cup {None}, budget : Nat, made : Nat,
        max : Nat, wait : Int, owner : Owners \cup {None}, lease : Int,
        result : CaptureIds \cup {None},
        provenance : {"none", "seen_during_research", "recovered_after_research"}]

Attempt == [number : Nat, outcome : Outcomes, capture : CaptureIds \cup {None}]

NoRow == [state |-> "absent", seen |-> None, budget |-> 0, made |-> 0, max |-> 0,
          wait |-> 0, owner |-> None, lease |-> 0, result |-> None, provenance |-> "none"]

(* A worker is idle, downloads, holds downloaded bytes it is about to store, *)
(* or holds an outcome it is about to report with CompleteJob.              *)
Idle == [pc |-> "idle", job |-> None, attempt |-> 0, object |-> None,
         outcome |-> "none", capture |-> None]

Memory == [pc : {"idle", "fetching", "storing", "reporting"}, job : Jobs \cup {None},
           attempt : Nat, object : Objects \cup {None},
           outcome : {"none"} \cup Outcomes, capture : CaptureIds \cup {None}]

-----------------------------------------------------------------------------
(* 1 min doubling up to 1 h: d starts at the base and doubles attempts - 1   *)
(* times, or until it reaches the cap.                                      *)
jobBackoff(made) ==
  LET d == BackoffBase * 2^(made - 1)
  IN  IF d < BackoffCap THEN d ELSE BackoffCap

Released(row) == [row EXCEPT !.owner = None, !.lease = 0]

(* Altered forms of a definition, named Definition_Fault, stand before it:   *)
(* each is a plausible slip the properties must notice. Nothing uses them.  *)
Expired_Early(executor) ==
  {j \in Jobs : jobs[j].state = "running" /\ JobExecutor[j] = executor /\ jobs[j].lease <= 0}

Expired_HttpOnly(executor) ==
  {j \in Jobs : jobs[j].state = "running" /\ JobExecutor[j] = "http" /\ jobs[j].lease < 0}

Expired(executor) ==
  {j \in Jobs : /\ jobs[j].state = "running"
                /\ JobExecutor[j] = executor
                /\ jobs[j].lease < 0}

Reclaimed_Refunds(row) ==
  [Released(row) EXCEPT !.state = "queued", !.wait = jobBackoff(row.made), !.made = @ - 1]

(* The row of a job whose lease ran out, after a claim took it back.        *)
Reclaimed(row) ==
  IF row.made >= row.max
  THEN [Released(row) EXCEPT !.state = "failed", !.wait = 0]
  ELSE [Released(row) EXCEPT !.state = "queued", !.wait = jobBackoff(row.made)]

(* The table once a claim took back every expired lease of its executor.    *)
AfterReclaim(executor) ==
  [j \in Jobs |-> IF j \in Expired(executor) THEN Reclaimed(jobs[j]) ELSE jobs[j]]

HistoryAfterReclaim(executor) ==
  [j \in Jobs |->
    IF j \in Expired(executor)
    THEN Append(attempts[j], [number |-> jobs[j].made, outcome |-> "lease_expired",
                              capture |-> None])
    ELSE attempts[j]]

Due(rows, executor) ==
  {j \in Jobs : /\ rows[j].state = "queued"
                /\ JobExecutor[j] = executor
                /\ rows[j].wait = 0}

(* ORDER BY created_at LIMIT 1: nothing due was submitted before it.        *)
IsOldest(j, due) ==
  \E i \in 1..Len(order) : order[i] = j /\ \A k \in 1..(i - 1) : order[k] \notin due

HoldsLease_ByAttempt(w) == jobs[workers[w].job].made = workers[w].attempt

HoldsLease_ByOwner(w) ==
  /\ jobs[workers[w].job].state = "running"
  /\ jobs[workers[w].job].owner = OwnerOf[w]

(* checkLease: the job still runs for this owner and this attempt. Whether  *)
(* the lease has passed meanwhile is not asked.                             *)
HoldsLease(w) ==
  LET m == workers[w] IN
  /\ jobs[m.job].state = "running"
  /\ jobs[m.job].owner = OwnerOf[w]
  /\ jobs[m.job].made = m.attempt

StateAfter(row, outcome) ==
  IF outcome # "retry" THEN outcome ELSE IF row.made < row.max THEN "queued" ELSE "failed"

ProvenanceOf(row, capture, object) ==
  IF capture = None THEN "none"
  ELSE IF object = row.seen THEN "seen_during_research" ELSE "recovered_after_research"

(* The row of a job whose running try ended with outcome, and with bytes       *)
(* object under capture when it stored any.                                 *)
Completed(row, outcome, capture, object) ==
  [Released(row) EXCEPT
     !.state = StateAfter(row, outcome),
     !.wait = IF StateAfter(row, outcome) = "queued" THEN jobBackoff(row.made) ELSE 0,
     !.result = IF capture = None THEN @ ELSE capture,
     !.provenance = ProvenanceOf(row, capture, object)]

(* completeJobTx, once its caller has checked the lease.                    *)
CompleteJobTx(j, outcome, capture, object) ==
  /\ attempts' = [attempts EXCEPT ![j] = Append(@,
         [number |-> jobs[j].made, outcome |-> outcome, capture |-> capture])]
  /\ jobs' = [jobs EXCEPT ![j] = Completed(jobs[j], outcome, capture, object)]

-----------------------------------------------------------------------------
(* Operations.                                                              *)

Init ==
  /\ jobs = [j \in Jobs |-> NoRow]
  /\ attempts = [j \in Jobs |-> <<>>]
  /\ captures = {}
  /\ order = <<>>
  /\ workers = [w \in Workers |-> Idle]

(* A first submission. A repeated one returns the row, or a conflict, and    *)
(* changes nothing; a refused URL never reaches the table.                  *)
SubmitJob(j, seen, budget) ==
  /\ jobs[j].state = "absent"
  /\ jobs' = [jobs EXCEPT ![j] = [NoRow EXCEPT
         !.state = "queued", !.seen = seen, !.budget = budget, !.max = budget]]
  /\ order' = Append(order, j)
  /\ UNCHANGED <<attempts, captures, workers>>

RetryJob_NoBudget(j) ==
  /\ jobs[j].state \in {"failed", "human_action_required", "held"}
  /\ jobs' = [jobs EXCEPT ![j].state = "queued", ![j].wait = 0]
  /\ UNCHANGED <<attempts, captures, order, workers>>

RetryJob(j) ==
  /\ jobs[j].state \in {"failed", "human_action_required", "held"}
  /\ jobs[j].made + jobs[j].budget <= MaxTries
  /\ jobs' = [jobs EXCEPT ![j] = [jobs[j] EXCEPT
         !.state = "queued", !.wait = 0, !.max = jobs[j].made + jobs[j].budget]]
  /\ UNCHANGED <<attempts, captures, order, workers>>

(* Take back every lease of this executor that ran out, then lease the       *)
(* oldest due job, if any, to the worker.                                   *)
ClaimJob(w) ==
  LET executor == WorkerExecutor[w]
      rows == AfterReclaim(executor)
      due == Due(rows, executor)
  IN
  /\ workers[w].pc = "idle"
  /\ attempts' = HistoryAfterReclaim(executor)
  /\ \/ /\ due = {}
        /\ jobs' = rows
        /\ UNCHANGED workers
     \/ \E j \in due :
        /\ IsOldest(j, due)
        /\ jobs' = [rows EXCEPT ![j] = [rows[j] EXCEPT
               !.state = "running", !.made = @ + 1, !.owner = OwnerOf[w], !.lease = Lease]]
        /\ workers' = [workers EXCEPT ![w] = [Idle EXCEPT
               !.pc = "fetching", !.job = j, !.attempt = rows[j].made + 1]]
  /\ UNCHANGED <<captures, order>>

(* The download, outside any lock: it yields bytes to store, or an outcome   *)
(* without bytes (classifyAcquire, browserReasons). CompleteJob also takes a *)
(* stored outcome naming a capture made before; its tests report those.     *)
FetchEnds(w) ==
  /\ workers[w].pc = "fetching"
  /\ \/ \E object \in Objects :
          workers' = [workers EXCEPT ![w].pc = "storing", ![w].object = object]
     \/ \E outcome \in {"retry", "failed", "human_action_required"} :
          workers' = [workers EXCEPT ![w].pc = "reporting", ![w].outcome = outcome]
     \/ \E outcome \in Stored, capture \in DOMAIN KnownCaptures :
          workers' = [workers EXCEPT ![w].pc = "reporting", ![w].outcome = outcome,
                        ![w].capture = capture, ![w].object = KnownCaptures[capture].object]
  /\ UNCHANGED <<jobs, attempts, captures, order>>

(* Store with a binding: the capture row and the completion are one           *)
(* transaction behind the lease check. When staging or storing fails nothing *)
(* is kept and the fault is reported; when the lease is gone, nothing is.   *)
StoreCapture(w) ==
  LET m == workers[w]
      id == <<m.job, m.attempt>>
  IN
  /\ m.pc = "storing"
  /\ \/ /\ HoldsLease(w)
        /\ captures' = captures \cup {[id |-> id, object |-> m.object]}
        /\ CompleteJobTx(m.job, "held", id, m.object)
        /\ workers' = [workers EXCEPT ![w] = Idle]
     \/ /\ ~HoldsLease(w)
        /\ workers' = [workers EXCEPT ![w] = Idle]
        /\ UNCHANGED <<jobs, attempts, captures>>
     \/ /\ workers' = [workers EXCEPT ![w].pc = "reporting", ![w].outcome = "failed",
                                      ![w].object = None]
        /\ UNCHANGED <<jobs, attempts, captures>>
  /\ UNCHANGED order

Admissible_Unverified(outcome, capture) == (outcome \in Stored) = (capture # None)

(* acquired is refused unless the capture it names is verified.              *)
Admissible(outcome, capture) ==
  /\ (outcome \in Stored) = (capture # None)
  /\ outcome = "acquired" => KnownCaptures[capture].verified

CompleteJob(w) ==
  LET m == workers[w] IN
  /\ m.pc = "reporting"
  /\ workers' = [workers EXCEPT ![w] = Idle]
  /\ \/ /\ HoldsLease(w)
        /\ Admissible(m.outcome, m.capture)
        /\ CompleteJobTx(m.job, m.outcome, m.capture, m.object)
     \/ /\ ~(HoldsLease(w) /\ Admissible(m.outcome, m.capture))
        /\ UNCHANGED <<jobs, attempts>>
  /\ UNCHANGED <<captures, order>>

(* The process is killed, or its context ends: nothing of the try is recorded. *)
WorkerStops(w) ==
  /\ workers[w].pc # "idle"
  /\ workers' = [workers EXCEPT ![w] = Idle]
  /\ UNCHANGED <<jobs, attempts, captures, order>>

(* One tick of the host's clock. A lease that ran out stays just run out.    *)
Tick ==
  /\ jobs' = [j \in Jobs |-> [jobs[j] EXCEPT
       !.wait = IF @ > 0 THEN @ - 1 ELSE 0,
       !.lease = IF jobs[j].state = "running" /\ @ >= 0 THEN @ - 1 ELSE @]]
  /\ UNCHANGED <<attempts, captures, order, workers>>

WorkerStep(w) ==
  \/ ClaimJob(w) \/ FetchEnds(w) \/ StoreCapture(w) \/ CompleteJob(w)

Next ==
  \/ \E j \in Jobs, seen \in Objects \cup {None}, budget \in Budgets : SubmitJob(j, seen, budget)
  \/ \E j \in Jobs : RetryJob(j)
  \/ \E w \in Workers : ClaimJob(w)
  \/ \E w \in Workers : FetchEnds(w)
  \/ \E w \in Workers : StoreCapture(w)
  \/ \E w \in Workers : CompleteJob(w)
  \/ \E w \in Workers : WorkerStops(w)
  \/ Tick

Spec == Init /\ [][Next]_vars

(* Clocks advance, a worker polls, its download is bounded by a timeout and  *)
(* it reports what it has. Stopping, submitting and retrying are not owed.   *)
Fairness == WF_vars(Tick) /\ \A w \in Workers : WF_vars(WorkerStep(w))

FairSpec == Spec /\ Fairness

-----------------------------------------------------------------------------
(* Properties.                                                              *)

(* Every row, attempt and worker memory has its type.                       *)
TypeOK ==
  /\ jobs \in [Jobs -> Row]
  /\ attempts \in [Jobs -> Seq(Attempt)]
  /\ captures \subseteq [id : Jobs \X Nat, object : Objects]
  /\ order \in Seq(Jobs)
  /\ workers \in [Workers -> Memory]

(* The history of a job names each claim exactly once and in order: every    *)
(* claim up to attempts_made has one row, except the try that is running.    *)
(* Breaks if a reclaimed try is also completed late, or a claim is lost.    *)
HistoryIsExact ==
  \A j \in Jobs :
    /\ Len(attempts[j]) = IF jobs[j].state = "running" THEN jobs[j].made - 1 ELSE jobs[j].made
    /\ \A n \in 1..Len(attempts[j]) : attempts[j][n].number = n

(* A capture a try stored is recorded by that try's own row: a try whose     *)
(* lease was reclaimed while it downloaded leaves no capture behind.        *)
EveryCaptureIsRecorded ==
  \A c \in captures :
    LET j == c.id[1]  n == c.id[2] IN
    n \in 1..Len(attempts[j]) /\ attempts[j][n].capture = c.id

(* Two workers never believe they run the same try, even under one name:     *)
(* the attempt number is what tells a stale worker from the current one.    *)
TryHeldOnce ==
  \A v, w \in Workers :
    /\ v # w
    /\ workers[v].pc # "idle" /\ workers[w].pc # "idle"
    /\ workers[v].job = workers[w].job
    => workers[v].attempt # workers[w].attempt

(* A queued job always has a try left and no job is tried beyond its budget; *)
(* reclaims, retries and late completions all keep it so.                   *)
WithinBudget ==
  \A j \in Jobs :
    /\ jobs[j].made <= jobs[j].max
    /\ jobs[j].state = "queued" => jobs[j].made < jobs[j].max

(* The result of a job is the capture of its last try that stored bytes: a   *)
(* later try without bytes, or a retry, does not lose it.                   *)
ResultIsLastStored ==
  \A j \in Jobs :
    LET stored == {n \in 1..Len(attempts[j]) : attempts[j][n].capture # None} IN
    IF stored = {}
    THEN jobs[j].result = None
    ELSE \E n \in stored : (\A k \in stored : k <= n) /\ jobs[j].result = attempts[j][n].capture

ObjectsOf(id) ==
  IF id \in DOMAIN KnownCaptures THEN {KnownCaptures[id].object}
  ELSE {c.object : c \in {d \in captures : d.id = id}}

(* seen_during_research is claimed only for a job whose result holds exactly *)
(* the bytes the submitter says the research read, and acquired only for     *)
(* bytes with verified completeness.                                        *)
ClaimsAreEvidenced ==
  \A j \in Jobs :
    /\ jobs[j].provenance = "seen_during_research" => ObjectsOf(jobs[j].result) = {jobs[j].seen}
    /\ jobs[j].state = "acquired" =>
         /\ jobs[j].result \in DOMAIN KnownCaptures
         /\ KnownCaptures[jobs[j].result].verified

HistoryGrows ==
  \A j \in Jobs : \A n \in 1..Len(attempts[j]) :
    n \in 1..Len(attempts'[j]) /\ attempts'[j][n] = attempts[j][n]

(* Job attempts are append-only: no step rewrites or drops a recorded try.   *)
HistoryOnlyGrows == [][HistoryGrows]_vars

OnlyRetryMovesSettled ==
  \A j \in Jobs :
    jobs[j].state \in Settled /\ (jobs'[j].state # jobs[j].state \/ jobs'[j].made # jobs[j].made)
    => /\ jobs[j].state # "acquired"
       /\ jobs'[j].state = "queued"
       /\ jobs'[j].max = jobs'[j].made + jobs'[j].budget
       /\ attempts'[j] = attempts[j]

(* A job that ended is left alone by every worker, however late: only an     *)
(* operator's retry moves it, never from acquired, and with a fresh budget. *)
SettledStays == [][OnlyRetryMovesSettled]_vars

OnlyHolderEndsLiveTry ==
  \A j \in Jobs :
    jobs[j].state = "running" /\ jobs[j].lease >= 0 /\ jobs'[j].state # "running"
    => \E w \in Workers : /\ workers[w].pc \in {"storing", "reporting"}
                          /\ workers[w].job = j
                          /\ workers[w].attempt = jobs[j].made

(* While a lease lasts, only the worker that holds the try can end it.       *)
LiveLeaseIsKept == [][OnlyHolderEndsLiveTry]_vars

(* Every submitted job ends, even if each of its workers is killed in every  *)
(* try: a claim counts the try before the download, so lost tries use up the *)
(* budget too.                                                              *)
EveryJobSettles ==
  \A j \in Jobs : jobs[j].state \in {"queued", "running"} ~> jobs[j].state \in Settled

-----------------------------------------------------------------------------
(* The promise this module implements.                                      *)

LedgerPhase(state) ==
  CASE state = "absent"   -> "none"
    [] state = "queued"   -> "waiting"
    [] state = "running"  -> "open"
    [] state = "acquired" -> "acquired"
    [] OTHER              -> "finished"

Ledger == INSTANCE TryLedger WITH
  ledger <- [j \in Jobs |->
    [phase |-> LedgerPhase(jobs[j].state),
     tries |-> [n \in DOMAIN attempts[j] |-> attempts[j][n].outcome],
     published |-> {c.id[2] : c \in {d \in captures : d.id[1] = j}}]]

(* Leases, clocks, stopped and stale workers are invisible to a reader of    *)
(* the queue: it behaves as a ledger of tries.                              *)
RefinesTryLedger == Ledger!Spec
==============================================================================
