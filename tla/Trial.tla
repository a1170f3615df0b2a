-------------------------------- MODULE Trial --------------------------------
(****************************************************************************)
(* The trial service (internal/trial): the collection queue on a root of    *)
(* its own, with limits. Its state is the queue of JobQueue and what the    *)
(* service adds: the claim lock of its processes, the pause file, and the   *)
(* times a request budget is counted from.                                  *)
(*                                                                          *)
(* A process is a worker running Loop or a `submit` command. The lock keeps *)
(* claims and submissions of others out between a check and what it allows, *)
(* not the tries that end meanwhile: the budget is read in four queries. A  *)
(* submission's two may be one step: what they count grows under the lock   *)
(* only. Ages are ticks since a row was written, kept up to Day + 1, which  *)
(* stands for everything older than a day.                                  *)
(****************************************************************************)
EXTENDS JobQueue, FiniteSets

CONSTANTS
  Submitters,          \* `submit` commands that may run at once
  Refused,             \* jobs queued under an earlier, wider policy
  MaxQueued, MaxSubmitsPerDay, MaxFetchesHour, MaxFetchesDay, MinInterval,
  Hour, Day,           \* the two windows, in ticks
  MaxPauses, MaxKills, MaxSubmits  \* bounds of the model

Limits == <<MaxQueued, MaxSubmitsPerDay, MaxFetchesHour, MaxFetchesDay, MinInterval, Hour, Day>>

ASSUME TrialAssumption ==
  /\ \A i \in DOMAIN Limits : Limits[i] \in Nat \ {0}
  /\ MaxFetchesHour <= MaxFetchesDay /\ MinInterval <= Day /\ Hour <= Day
  /\ Refused \subseteq Jobs
  /\ Workers \cap Submitters = {} /\ None \notin Workers \cup Submitters
  /\ IsFiniteSet(Jobs) /\ IsFiniteSet(Workers)

VARIABLES
  created,   \* ages of the submissions: job -> age, or Day + 1 when absent
  started,   \* ages of the tries of each job, in order of their numbers
  paused,    \* the pause file exists
  lock,      \* the process that holds the claim lock, or None
  at,        \* where each process is
  count,     \* what the budget of the worker under the lock knows by now
  late,      \* tries claimed since the pause file was created
  budgeted   \* what the model has left: [pauses, kills, submits]

trial == <<created, started, paused, lock, at, count, late, budgeted>>
trialVars == <<vars, trial>>

Processes == Workers \cup Submitters
Counting  == {"hourRunning", "dayAttempts", "dayRunning"}
UnderLock == {"locked", "allowed"} \cup Counting
Places    == {"out", "wanting"} \cup UnderLock

-----------------------------------------------------------------------------
(* JobActivity.                                                             *)

Active == {j \in Jobs : jobs[j].state \in {"queued", "running"}}

Created(window) == {j \in Jobs : jobs[j].state # "absent" /\ created[j] <= window}

Tries == UNION {{j} \X DOMAIN started[j] : j \in Jobs}

(* Started at or after now less the window.                                  *)
Fetches(window) == {t \in Tries : started[t[1]][t[2]] <= window}

(* Rows of job_attempts, and the tries of running jobs, which have none yet. *)
Recorded == {t \in Tries : t[2] <= Len(attempts[t[1]])}

Running == {t \in Tries : jobs[t[1]].state = "running" /\ t[2] = jobs[t[1]].made}

(* The tries in each window when budget read the clock, and those the         *)
(* queries of the hour and of the day found.                                *)
NoCount == [hour |-> {}, day |-> {}, soon |-> {}, hourFound |-> {}, dayFound |-> {}]

WithinQuota ==
  /\ Cardinality(Active) < MaxQueued
  /\ Cardinality(Created(Day)) < MaxSubmitsPerDay

-----------------------------------------------------------------------------
TrialInit ==
  /\ Init
  /\ created = [j \in Jobs |-> Day + 1]
  /\ started = [j \in Jobs |-> <<>>]
  /\ paused = FALSE
  /\ lock = None
  /\ at = [p \in Processes |-> "out"]
  /\ count = NoCount
  /\ late = 0
  /\ budgeted = [pauses |-> 0, kills |-> 0, submits |-> 0]

LockFree(p) == lock = None

(* claimLock: a non-blocking flock, tried every 10 ms.                      *)
ClaimLock(p) ==
  /\ at[p] = "wanting"
  /\ LockFree(p)
  /\ lock' = p
  /\ at' = [at EXCEPT ![p] = "locked"]
  /\ UNCHANGED <<vars, created, started, paused, count, late, budgeted>>

Unlocked(p) == IF lock = p THEN None ELSE lock

(* A pass of the loop: the gate, then RunOnce. A closed gate is waited out.  *)
Pass(w) ==
  /\ at[w] = "out" /\ workers[w].pc = "idle"
  /\ ~paused
  /\ at' = [at EXCEPT ![w] = "wanting"]
  /\ UNCHANGED <<vars, created, started, paused, lock, count, late, budgeted>>

MayClaim_NotRechecked == TRUE

MayClaim == ~paused

GivesUp(w) ==
  /\ at' = [at EXCEPT ![w] = "out"]
  /\ lock' = Unlocked(w)

(* claimWithinBudget, under the lock: the pause file, and then budget. It     *)
(* reads the clock and queries the activity of the last hour and the last   *)
(* day, each time first the attempts and then the running jobs.             *)
BeginBudget(w) ==
  /\ at[w] = "locked"
  /\ \/ /\ MayClaim
        /\ at' = [at EXCEPT ![w] = "hourRunning"]
        /\ count' = [hour |-> Fetches(Hour), day |-> Fetches(Day),
                     soon |-> Fetches(MinInterval - 1),
                     hourFound |-> Fetches(Hour) \cap Recorded, dayFound |-> {}]
        /\ UNCHANGED lock
     \/ ~MayClaim /\ GivesUp(w) /\ UNCHANGED count
  /\ UNCHANGED <<vars, created, started, paused, late, budgeted>>

CountHour(w) ==
  /\ at[w] = "hourRunning"
  /\ at' = [at EXCEPT ![w] = "dayAttempts"]
  /\ count' = [count EXCEPT !.hourFound = @ \cup (count.hour \cap Running)]
  /\ UNCHANGED <<vars, created, started, paused, lock, late, budgeted>>

BeginDay(w) ==
  /\ at[w] = "dayAttempts"
  /\ at' = [at EXCEPT ![w] = "dayRunning"]
  /\ count' = [count EXCEPT !.dayFound = count.day \cap Recorded]
  /\ UNCHANGED <<vars, created, started, paused, lock, late, budgeted>>

HasRoom_AtLimit(hourFound, dayFound) ==
  /\ Cardinality(hourFound) <= MaxFetchesHour
  /\ Cardinality(dayFound) <= MaxFetchesDay
  /\ dayFound \cap count.soon = {}

(* Fewer than the limits of the hour and the day, and none too recent.       *)
HasRoom(hourFound, dayFound) ==
  /\ Cardinality(hourFound) < MaxFetchesHour
  /\ Cardinality(dayFound) < MaxFetchesDay
  /\ dayFound \cap count.soon = {}

CountDay(w) ==
  /\ at[w] = "dayRunning"
  /\ LET found == count.dayFound \cup (count.day \cap Running) IN
     \/ /\ HasRoom(count.hourFound, found)
        /\ at' = [at EXCEPT ![w] = "allowed"]
        /\ UNCHANGED lock
     \/ ~HasRoom(count.hourFound, found) /\ GivesUp(w)
  /\ count' = NoCount
  /\ UNCHANGED <<vars, created, started, paused, late, budgeted>>

Claims(w) == workers'[w].pc = "fetching"

(* ClaimJob, after which the lock is released.                              *)
ClaimWithinBudget(w) ==
  /\ at[w] = "allowed"
  /\ ClaimJob(w)
  /\ started' = IF Claims(w) THEN [started EXCEPT ![workers'[w].job] = Append(@, 0)] ELSE started
  /\ late' = IF Claims(w) /\ paused THEN late + 1 ELSE late
  /\ lock' = Unlocked(w)
  /\ at' = [at EXCEPT ![w] = "out"]
  /\ UNCHANGED <<created, paused, count, budgeted>>

(* refuse: the policy is asked again for the claimed job, and a job outside  *)
(* it ends without a request.                                               *)
Refuse(w) ==
  /\ workers[w].pc = "fetching"
  /\ workers[w].job \in Refused
  /\ workers' = [workers EXCEPT ![w].pc = "reporting", ![w].outcome = "failed"]
  /\ UNCHANGED <<jobs, attempts, captures, order, trial>>

(* RunClaimedJob with the trial's acquirer.                                 *)
Fetch(w) ==
  /\ workers[w].pc = "fetching" => workers[w].job \notin Refused
  /\ FetchEnds(w) \/ StoreCapture(w) \/ CompleteJob(w)
  /\ UNCHANGED trial

(* Submit: the limits, then the row, under the lock. A refused URL, or one   *)
(* of the queue already, changes nothing.                                   *)
BeginSubmit(s) ==
  /\ at[s] = "out"
  /\ budgeted.submits < MaxSubmits
  /\ budgeted' = [budgeted EXCEPT !.submits = @ + 1]
  /\ at' = [at EXCEPT ![s] = "wanting"]
  /\ UNCHANGED <<vars, created, started, paused, lock, count, late>>

CheckQuota(s) ==
  /\ at[s] = "locked"
  /\ \/ /\ WithinQuota
        /\ at' = [at EXCEPT ![s] = "allowed"]
        /\ UNCHANGED lock
     \/ /\ ~WithinQuota
        /\ at' = [at EXCEPT ![s] = "out"]
        /\ lock' = Unlocked(s)
  /\ UNCHANGED <<vars, created, started, paused, count, late, budgeted>>

Submit(s) ==
  /\ at[s] = "allowed"
  /\ \/ \E j \in Jobs, budget \in Budgets :
          /\ SubmitJob(j, None, budget)
          /\ created' = [created EXCEPT ![j] = 0]
     \/ UNCHANGED <<vars, created>>
  /\ lock' = Unlocked(s)
  /\ at' = [at EXCEPT ![s] = "out"]
  /\ UNCHANGED <<started, paused, count, late, budgeted>>

SetPaused ==
  /\ \/ paused' = FALSE
     \/ paused' = TRUE /\ budgeted.pauses < MaxPauses
  /\ paused' # paused
  /\ budgeted' = [budgeted EXCEPT !.pauses = IF paused THEN @ ELSE @ + 1]
  /\ late' = 0
  /\ UNCHANGED <<vars, created, started, lock, at, count>>

(* A worker that is killed in a download loses its memory; one killed under  *)
(* the lock loses the lock. In between nothing is lost.                     *)
KillInDownload(w) == WorkerStops(w) /\ UNCHANGED trial

KillUnderLock(p) ==
  /\ lock = p
  /\ budgeted.kills < MaxKills
  /\ budgeted' = [budgeted EXCEPT !.kills = @ + 1]
  /\ lock' = None
  /\ at' = [at EXCEPT ![p] = "out"]
  /\ count' = NoCount
  /\ UNCHANGED <<vars, created, started, paused, late>>

Older(age) == IF age > Day THEN age ELSE age + 1

TrialTick ==
  /\ Tick
  /\ created' = [j \in Jobs |-> IF jobs[j].state = "absent" THEN created[j] ELSE Older(created[j])]
  /\ started' = [j \in Jobs |-> [n \in DOMAIN started[j] |-> Older(started[j][n])]]
  /\ UNCHANGED <<paused, lock, at, count, late, budgeted>>

BudgetStep(w) == BeginBudget(w) \/ CountHour(w) \/ BeginDay(w) \/ CountDay(w)

LoopStep(w) ==
  Pass(w) \/ ClaimLock(w) \/ BudgetStep(w) \/ ClaimWithinBudget(w) \/ Refuse(w) \/ Fetch(w)

SubmitStep(s) == ClaimLock(s) \/ CheckQuota(s) \/ Submit(s)

TrialNext ==
  \/ \E w \in Workers : LoopStep(w)
  \/ \E s \in Submitters : BeginSubmit(s) \/ SubmitStep(s)
  \/ SetPaused
  \/ \E w \in Workers : KillInDownload(w)
  \/ \E p \in Processes : KillUnderLock(p)
  \/ TrialTick

(* The clock advances and every process makes its next step; nobody owes a   *)
(* submission, a pause or its end.                                          *)
TrialSpec ==
  /\ TrialInit /\ [][TrialNext]_trialVars
  /\ WF_trialVars(TrialTick)
  /\ \A w \in Workers : WF_trialVars(LoopStep(w))
  /\ \A s \in Submitters : WF_trialVars(SubmitStep(s))

-----------------------------------------------------------------------------
(* Properties.                                                              *)

TrialTypeOK ==
  /\ TypeOK
  /\ created \in [Jobs -> 0..(Day + 1)]
  /\ started \in [Jobs -> Seq(0..(Day + 1))]
  /\ \A j \in Jobs : Len(started[j]) = jobs[j].made
  /\ paused \in BOOLEAN
  /\ lock \in Processes \cup {None}
  /\ at \in [Processes -> Places]
  /\ late \in Nat

(* The requests the limits allow, and as many more as there are other        *)
(* workers: a try that ends between the two queries of a count is found by  *)
(* neither, and while one worker counts, each of the others can end one.    *)
Overshoot == Cardinality(Workers) - 1

(* However many workers run, stop and take back each other's jobs, no hour    *)
(* and no day sees more requests than its limit and the overshoot, and no    *)
(* time shorter than the interval more than one and the overshoot (budget   *)
(* and claimWithinBudget, service.go; JobActivity, jobs.go).                *)
RequestsWithinBudget ==
  /\ Cardinality(Fetches(Hour)) <= MaxFetchesHour + Overshoot
  /\ Cardinality(Fetches(Day)) <= MaxFetchesDay + Overshoot
  /\ Cardinality(Fetches(MinInterval - 1)) <= 1 + Overshoot

(* The limits as docs/deployment/trial.md has them: the claim lock orders     *)
(* the check of the budget and the record of the attempt, "so a second      *)
(* worker cannot use the same remaining attempt slot". It fails.            *)
NoSlotIsUsedTwice ==
  /\ Cardinality(Fetches(Hour)) <= MaxFetchesHour
  /\ Cardinality(Fetches(Day)) <= MaxFetchesDay

(* Several submissions at once fill the queue and the day's quota exactly,   *)
(* never beyond (Submit, service.go).                                       *)
SubmissionsWithinQuota ==
  /\ Cardinality(Active) <= MaxQueued
  /\ Cardinality(Created(Day)) <= MaxSubmitsPerDay

(* Once the pause file exists at most one more request starts: that of the   *)
(* worker that had looked under the lock before. One that passed the check   *)
(* of the loop and waits for the lock looks again.                          *)
PauseHolds == late <= 1

(* The limits delay jobs and lose none: when the trial is not paused for     *)
(* good, every queued job ends, also after workers were killed, and also     *)
(* when a limit was reached meanwhile.                                      *)
TrialJobsEnd == <>[]~paused => EveryJobSettles
==============================================================================
