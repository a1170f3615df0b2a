----------------------------- MODULE QueueProofs -----------------------------
(****************************************************************************)
(* Theorems about JobQueue and, in the second half, about Trial, which is a *)
(* JobQueue with limits: for every number of jobs, workers and submitters,  *)
(* every pool of owners, and all bounds.                                    *)
(****************************************************************************)
EXTENDS Trial, FiniteSetTheorems, TLAPS

(* The inductive invariant: the checked properties, and what a worker's       *)
(* memory may say about the table. A worker remembers a try that was really  *)
(* claimed (attempt <= made), so a try number that matches attempts_made is  *)
(* the current one; that is what the fence of HoldsLease rests on.          *)
MemoryIsOfAClaim ==
  \A w \in Workers :
    workers[w].pc # "idle" =>
      /\ workers[w].job \in Jobs
      /\ workers[w].attempt \in 1..jobs[workers[w].job].made
      /\ workers[w].pc = "storing" => workers[w].object \in Objects
      /\ workers[w].pc = "reporting" => workers[w].outcome \in Outcomes \ {"lease_expired"}

RowsAreSound ==
  \A j \in Jobs :
    /\ jobs[j].state = "absent" => jobs[j].made = 0 /\ jobs[j].max = 0 /\ attempts[j] = <<>>
    /\ jobs[j].state = "running" => jobs[j].made >= 1
    /\ jobs[j].state # "absent" => jobs[j].budget >= 1

IInv ==
  /\ TypeOK
  /\ MemoryIsOfAClaim
  /\ RowsAreSound
  /\ HistoryIsExact
  /\ WithinBudget
  /\ TryHeldOnce
  /\ EveryCaptureIsRecorded

-----------------------------------------------------------------------------
(* Rows and their updates.                                                  *)

LEMMA BackoffType == ASSUME NEW n \in Nat PROVE jobBackoff(n) \in Int
  BY TimeAssumption, SMT DEF jobBackoff

LEMMA SentinelFacts == None \notin Objects /\ None \notin Jobs /\ None \notin CaptureIds
  BY CaptureAssumption DEF CaptureIds

(* A row written out column by column.                                      *)
RowOf(state, seen, budget, made, max, wait, owner, lease, result, provenance) ==
  [state |-> state, seen |-> seen, budget |-> budget, made |-> made, max |-> max,
   wait |-> wait, owner |-> owner, lease |-> lease, result |-> result,
   provenance |-> provenance]

LEMMA ReleasedRow ==
  ASSUME NEW row \in Row, NEW r, r = Released(row)
  PROVE  /\ r \in Row
         /\ r = RowOf(row.state, row.seen, row.budget, row.made, row.max, row.wait, None, 0,
                      row.result, row.provenance)
<1>1. r = RowOf(row.state, row.seen, row.budget, row.made, row.max, row.wait, None, 0,
                row.result, row.provenance)
  BY DEF Released, Row, RowOf
<1>2. QED BY <1>1 DEF Row, RowOf

LEMMA ReclaimedRow ==
  ASSUME NEW row \in Row, NEW new, new = Reclaimed(row)
  PROVE  /\ new \in Row
         /\ new.state \in {"failed", "queued"}
         /\ new.made = row.made /\ new.max = row.max /\ new.budget = row.budget
         /\ new.state = "queued" => row.made < row.max
<1>1. row.made \in Nat /\ row.max \in Nat  BY DEF Row
<1>2. jobBackoff(row.made) \in Int  BY <1>1, BackoffType
<1>3. "failed" \in JobStates /\ "queued" \in JobStates  BY DEF JobStates, Settled
<1>4. PICK r : r = Released(row)  OBVIOUS
<1>5. /\ r \in Row
      /\ r = RowOf(row.state, row.seen, row.budget, row.made, row.max, row.wait, None, 0,
                   row.result, row.provenance)
  BY <1>4, ReleasedRow
<1>6. CASE row.made >= row.max
  <2>1. new = [r EXCEPT !.state = "failed", !.wait = 0]
    BY <1>4, <1>6 DEF Reclaimed
  <2>2. new = RowOf("failed", row.seen, row.budget, row.made, row.max, 0, None, 0,
                    row.result, row.provenance)
    BY <2>1, <1>5 DEF RowOf
  <2>3. QED BY <2>2, <1>3 DEF Row, RowOf
<1>7. CASE ~(row.made >= row.max)
  <2>1. PICK wait \in Int : new = [r EXCEPT !.state = "queued", !.wait = wait]
    BY <1>2, <1>4, <1>7 DEF Reclaimed
  <2>2. new = RowOf("queued", row.seen, row.budget, row.made, row.max, wait, None, 0,
                    row.result, row.provenance)
    BY <2>1, <1>5 DEF RowOf
  <2>3. row.made < row.max  BY <1>1, <1>7
  <2>4. QED BY <2>2, <2>3, <1>3 DEF Row, RowOf
<1>8. QED BY <1>6, <1>7

LEMMA AfterReclaimFacts ==
  ASSUME TypeOK, WithinBudget, NEW e
  PROVE  /\ AfterReclaim(e) \in [Jobs -> Row]
         /\ \A j \in Jobs :
              /\ AfterReclaim(e)[j].made = jobs[j].made
              /\ AfterReclaim(e)[j].max = jobs[j].max
              /\ AfterReclaim(e)[j].budget = jobs[j].budget
              /\ j \notin Expired(e) => AfterReclaim(e)[j] = jobs[j]
              /\ j \in Expired(e) => /\ jobs[j].state = "running"
                                     /\ AfterReclaim(e)[j].state \in {"failed", "queued"}
              /\ AfterReclaim(e)[j].state = "absent" => jobs[j].state = "absent"
              /\ AfterReclaim(e)[j].state = "queued" => jobs[j].made < jobs[j].max
<1>1. \A j \in Jobs : jobs[j] \in Row  BY DEF TypeOK
<1>2. \A j \in Jobs : j \in Expired(e) => jobs[j].state = "running"  BY DEF Expired
<1>3. \A j \in Jobs : AfterReclaim(e)[j] = IF j \in Expired(e) THEN Reclaimed(jobs[j]) ELSE jobs[j]
  BY DEF AfterReclaim
<1>4. AfterReclaim(e) \in [Jobs -> Row]  BY <1>1, ReclaimedRow DEF AfterReclaim
<1>5. QED BY <1>1, <1>2, <1>3, <1>4, ReclaimedRow DEF WithinBudget

LEMMA CompletedRow ==
  ASSUME NEW row \in Row, NEW outcome \in Outcomes \ {"lease_expired"},
         NEW capture \in CaptureIds \cup {None}, NEW object,
         NEW new, new = Completed(row, outcome, capture, object)
  PROVE  /\ new \in Row
         /\ new.state \in Settled \cup {"queued"}
         /\ new.made = row.made /\ new.max = row.max /\ new.budget = row.budget
         /\ new.state = "queued" => row.made < row.max
<1>1. row.made \in Nat /\ row.max \in Nat  BY DEF Row
<1>2. jobBackoff(row.made) \in Int  BY <1>1, BackoffType
<1>3. PICK r : r = Released(row)  OBVIOUS
<1>4. /\ r \in Row
      /\ r = RowOf(row.state, row.seen, row.budget, row.made, row.max, row.wait, None, 0,
                   row.result, row.provenance)
  BY <1>3, ReleasedRow
<1>5. PICK state : state = StateAfter(row, outcome)  OBVIOUS
<1>6. /\ state \in Settled \cup {"queued"}
      /\ state = "queued" => row.made < row.max
  BY <1>5 DEF StateAfter, Outcomes, Settled
<1>7. PICK wait \in Int : wait = IF state = "queued" THEN jobBackoff(row.made) ELSE 0
  BY <1>2
<1>8. PICK provenance : provenance = ProvenanceOf(row, capture, object)  OBVIOUS
<1>9. provenance \in {"none", "seen_during_research", "recovered_after_research"}
  BY <1>8 DEF ProvenanceOf
<1>10. PICK result \in CaptureIds \cup {None} :
         result = IF capture = None THEN row.result ELSE capture
  BY DEF Row
<1>11. new = [r EXCEPT !.state = state, !.wait = wait,
                       !.result = IF capture = None THEN @ ELSE capture,
                       !.provenance = provenance]
  BY <1>3, <1>5, <1>7, <1>8 DEF Completed
<1>12. new = RowOf(state, row.seen, row.budget, row.made, row.max, wait, None, 0, result, provenance)
  BY <1>4, <1>10, <1>11 DEF RowOf
<1>13. QED BY <1>6, <1>9, <1>12 DEF Row, RowOf, JobStates

-----------------------------------------------------------------------------
(* What ends a try in the table: the row leaves running, the history gains    *)
(* the row of that try, and no other job is touched.                        *)
TryEnds(j, outcome, capture) ==
  /\ jobs' \in [Jobs -> Row]
  /\ jobs'[j].state \in Settled \cup {"queued"}
  /\ jobs'[j].made = jobs[j].made
  /\ jobs'[j].max = jobs[j].max
  /\ jobs'[j].budget = jobs[j].budget
  /\ jobs'[j].state = "queued" => jobs[j].made < jobs[j].max
  /\ \A k \in Jobs \ {j} : jobs'[k] = jobs[k] /\ attempts'[k] = attempts[k]
  /\ attempts' \in [Jobs -> Seq(Attempt)]
  /\ attempts'[j] = Append(attempts[j], [number |-> jobs[j].made, outcome |-> outcome,
                                         capture |-> capture])

LEMMA CompleteJobTxEndsTry ==
  ASSUME TypeOK, NEW j \in Jobs, NEW outcome \in Outcomes \ {"lease_expired"},
         NEW capture \in CaptureIds \cup {None}, NEW object,
         CompleteJobTx(j, outcome, capture, object)
  PROVE  TryEnds(j, outcome, capture)
<1>1. jobs \in [Jobs -> Row] /\ attempts \in [Jobs -> Seq(Attempt)]  BY DEF TypeOK
<1>2. PICK new : new = Completed(jobs[j], outcome, capture, object)  OBVIOUS
<1>3. /\ new \in Row
      /\ new.state \in Settled \cup {"queued"}
      /\ new.made = jobs[j].made /\ new.max = jobs[j].max /\ new.budget = jobs[j].budget
      /\ new.state = "queued" => jobs[j].made < jobs[j].max
  BY <1>1, <1>2, CompletedRow
<1>4. jobs' = [jobs EXCEPT ![j] = new]  BY <1>2 DEF CompleteJobTx
<1>5. PICK entry : entry = [number |-> jobs[j].made, outcome |-> outcome, capture |-> capture]
  OBVIOUS
<1>6. entry \in Attempt  BY <1>1, <1>5 DEF Attempt, Row
<1>7. attempts' = [attempts EXCEPT ![j] = Append(attempts[j], entry)]
  BY <1>5 DEF CompleteJobTx
<1>8. Append(attempts[j], entry) \in Seq(Attempt)  BY <1>1, <1>6
<1>9. jobs' \in [Jobs -> Row] /\ jobs'[j] = new /\ \A k \in Jobs \ {j} : jobs'[k] = jobs[k]
  BY <1>1, <1>3, <1>4
<1>10. /\ attempts' \in [Jobs -> Seq(Attempt)]
       /\ attempts'[j] = Append(attempts[j], entry)
       /\ \A k \in Jobs \ {j} : attempts'[k] = attempts[k]
  BY <1>1, <1>7, <1>8
<1>11. QED BY <1>3, <1>5, <1>9, <1>10 DEF TryEnds

-----------------------------------------------------------------------------
(* One lemma per action.                                                    *)

LEMMA InitIInv == Init => IInv
<1> SUFFICES ASSUME Init PROVE IInv  OBVIOUS
<1>1. NoRow \in Row  BY DEF NoRow, Row, JobStates
<1>2. Idle \in Memory /\ Idle.pc = "idle"  BY DEF Idle, Memory
<1>3. TypeOK  BY <1>1, <1>2 DEF Init, TypeOK
<1>4. NoRow.state = "absent" /\ NoRow.made = 0 /\ NoRow.max = 0  BY DEF NoRow
<1>5. QED
  BY <1>2, <1>3, <1>4 DEF Init, IInv, MemoryIsOfAClaim, RowsAreSound, HistoryIsExact, WithinBudget,
     TryHeldOnce, EveryCaptureIsRecorded

LEMMA SubmitJobStep ==
  ASSUME IInv, NEW j \in Jobs, NEW seen \in Objects \cup {None}, NEW budget \in Budgets,
         SubmitJob(j, seen, budget)
  PROVE  IInv'
<1> USE DEF IInv
<1>1. budget \in Nat /\ budget >= 1  BY BudgetAssumption
<1>2. PICK new : new = [NoRow EXCEPT !.state = "queued", !.seen = seen, !.budget = budget,
                                     !.max = budget]
  OBVIOUS
<1>3. new = RowOf("queued", seen, budget, 0, budget, 0, None, 0, None, "none")
  BY <1>2 DEF NoRow, RowOf
<1>4. new \in Row  BY <1>1, <1>3 DEF Row, RowOf, JobStates
<1>5. /\ new.state = "queued" /\ new.made = 0 /\ new.max = budget /\ new.budget = budget
  BY <1>3 DEF RowOf
<1>6. jobs' = [jobs EXCEPT ![j] = new]  BY <1>2 DEF SubmitJob
<1>7. /\ jobs' \in [Jobs -> Row] /\ jobs'[j] = new
      /\ \A k \in Jobs \ {j} : jobs'[k] = jobs[k]
  BY <1>4, <1>6 DEF TypeOK
<1>8. jobs[j].state = "absent" /\ jobs[j].made = 0 /\ attempts[j] = <<>>
  BY DEF SubmitJob, RowsAreSound
<1>9. UNCHANGED <<attempts, captures, workers>>  BY DEF SubmitJob
<1>10. TypeOK'  BY <1>7, <1>9 DEF TypeOK, SubmitJob
<1>11. MemoryIsOfAClaim'
  BY <1>5, <1>7, <1>8, <1>9 DEF MemoryIsOfAClaim, TypeOK, Row
<1>12. RowsAreSound'  BY <1>1, <1>5, <1>7, <1>9 DEF RowsAreSound
<1>13. HistoryIsExact'  BY <1>5, <1>7, <1>8, <1>9 DEF HistoryIsExact
<1>14. WithinBudget'  BY <1>1, <1>5, <1>7 DEF WithinBudget
<1>15. TryHeldOnce'  BY <1>9 DEF TryHeldOnce
<1>16. EveryCaptureIsRecorded'  BY <1>9 DEF EveryCaptureIsRecorded
<1>17. QED BY <1>10, <1>11, <1>12, <1>13, <1>14, <1>15, <1>16

LEMMA RetryStep ==
  ASSUME IInv, NEW j \in Jobs, RetryJob(j)
  PROVE  IInv'
<1> USE DEF IInv
<1>1. /\ jobs[j] \in Row /\ jobs[j].made \in Nat /\ jobs[j].budget \in Nat
      /\ jobs[j].budget >= 1
      /\ jobs[j].state # "running"
  BY DEF TypeOK, Row, RowsAreSound, RetryJob
<1>2. PICK new : new = [jobs[j] EXCEPT !.state = "queued", !.wait = 0,
                                       !.max = jobs[j].made + jobs[j].budget]
  OBVIOUS
<1>3. new = RowOf("queued", jobs[j].seen, jobs[j].budget, jobs[j].made,
                  jobs[j].made + jobs[j].budget, 0, jobs[j].owner, jobs[j].lease,
                  jobs[j].result, jobs[j].provenance)
  BY <1>1, <1>2 DEF Row, RowOf
<1>4. new \in Row  BY <1>1, <1>3 DEF Row, RowOf, JobStates
<1>5. /\ new.state = "queued" /\ new.made = jobs[j].made /\ new.budget = jobs[j].budget
      /\ new.max = jobs[j].made + jobs[j].budget
  BY <1>3 DEF RowOf
<1>6. jobs' = [jobs EXCEPT ![j] = new]  BY <1>2 DEF RetryJob
<1>7. /\ jobs' \in [Jobs -> Row] /\ jobs'[j] = new
      /\ \A k \in Jobs \ {j} : jobs'[k] = jobs[k]
  BY <1>4, <1>6 DEF TypeOK
<1>8. UNCHANGED <<attempts, captures, order, workers>>  BY DEF RetryJob
<1>9. TypeOK'  BY <1>7, <1>8 DEF TypeOK
<1>10. MemoryIsOfAClaim'  BY <1>5, <1>7, <1>8 DEF MemoryIsOfAClaim
<1>11. RowsAreSound'  BY <1>1, <1>5, <1>7, <1>8 DEF RowsAreSound
<1>12. HistoryIsExact'  BY <1>1, <1>5, <1>7, <1>8 DEF HistoryIsExact
<1>13. WithinBudget'  BY <1>1, <1>5, <1>7 DEF WithinBudget
<1>14. TryHeldOnce'  BY <1>8 DEF TryHeldOnce
<1>15. EveryCaptureIsRecorded'  BY <1>8 DEF EveryCaptureIsRecorded
<1>16. QED BY <1>9, <1>10, <1>11, <1>12, <1>13, <1>14, <1>15

LEMMA TickStep ==
  ASSUME IInv, Tick
  PROVE  IInv'
<1> USE DEF IInv
<1>1. ASSUME NEW j \in Jobs
      PROVE  /\ jobs'[j] \in Row
             /\ jobs'[j].state = jobs[j].state /\ jobs'[j].made = jobs[j].made
             /\ jobs'[j].max = jobs[j].max /\ jobs'[j].budget = jobs[j].budget
  <2>1. jobs[j] \in Row  BY DEF TypeOK
  <2>2. PICK wait \in Int : wait = IF jobs[j].wait > 0 THEN jobs[j].wait - 1 ELSE 0
    BY <2>1 DEF Row
  <2>3. PICK lease \in Int : lease = IF jobs[j].state = "running" /\ jobs[j].lease >= 0
                                    THEN jobs[j].lease - 1 ELSE jobs[j].lease
    BY <2>1 DEF Row
  <2>4. PICK row : row = jobs[j]  OBVIOUS
  <2>5. jobs'[j] = [row EXCEPT !.wait = IF @ > 0 THEN @ - 1 ELSE 0,
                               !.lease = IF row.state = "running" /\ @ >= 0 THEN @ - 1 ELSE @]
    BY <2>4 DEF Tick
  <2>6. jobs'[j] = RowOf(row.state, row.seen, row.budget, row.made, row.max, wait, row.owner,
                         lease, row.result, row.provenance)
    BY <2>1, <2>2, <2>3, <2>4, <2>5 DEF Row, RowOf
  <2>7. QED BY <2>1, <2>4, <2>6 DEF Row, RowOf
<1>2. jobs' \in [Jobs -> Row]  BY <1>1 DEF Tick
<1>3. UNCHANGED <<attempts, captures, order, workers>>  BY DEF Tick
<1>4. TypeOK'  BY <1>2, <1>3 DEF TypeOK
<1>5. MemoryIsOfAClaim'  BY <1>1, <1>3 DEF MemoryIsOfAClaim
<1>6. RowsAreSound' /\ HistoryIsExact' /\ WithinBudget'
  BY <1>1, <1>3 DEF RowsAreSound, HistoryIsExact, WithinBudget
<1>7. TryHeldOnce' /\ EveryCaptureIsRecorded'  BY <1>3 DEF TryHeldOnce, EveryCaptureIsRecorded
<1>8. QED BY <1>4, <1>5, <1>6, <1>7

LEMMA FetchStep ==
  ASSUME IInv, NEW w \in Workers, FetchEnds(w)
  PROVE  IInv'
<1> USE DEF IInv
<1>1. workers[w] \in Memory /\ workers[w].pc = "fetching"  BY DEF FetchEnds, TypeOK
<1>2. UNCHANGED <<jobs, attempts, captures, order>>  BY DEF FetchEnds
<1>3. /\ workers' \in [Workers -> Memory]
      /\ \A v \in Workers \ {w} : workers'[v] = workers[v]
      /\ workers'[w].pc # "idle"
      /\ workers'[w].job = workers[w].job /\ workers'[w].attempt = workers[w].attempt
      /\ workers'[w].pc = "storing" => workers'[w].object \in Objects
      /\ workers'[w].pc = "reporting" => workers'[w].outcome \in Outcomes \ {"lease_expired"}
  <2>1. CASE \E object \in Objects :
               workers' = [workers EXCEPT ![w].pc = "storing", ![w].object = object]
    <3>1. PICK object \in Objects :
            workers' = [workers EXCEPT ![w].pc = "storing", ![w].object = object]
      BY <2>1
    <3>2. PICK m : m = workers[w]  OBVIOUS
    <3>3. PICK new : new = [m EXCEPT !.pc = "storing", !.object = object]  OBVIOUS
    <3>4. new = [pc |-> "storing", job |-> m.job, attempt |-> m.attempt, object |-> object,
                 outcome |-> m.outcome, capture |-> m.capture]
      BY <1>1, <3>2, <3>3 DEF Memory
    <3>5. new \in Memory  BY <1>1, <3>2, <3>4 DEF Memory
    <3>6. workers' = [workers EXCEPT ![w] = new]  BY <3>1, <3>2, <3>3 DEF TypeOK
    <3>7. workers'[w] = new  BY <3>6 DEF TypeOK
    <3>8. QED BY <3>2, <3>4, <3>5, <3>6, <3>7 DEF TypeOK
  <2>2. CASE \E outcome \in {"retry", "failed", "human_action_required"} :
               workers' = [workers EXCEPT ![w].pc = "reporting", ![w].outcome = outcome]
    <3>1. PICK outcome \in {"retry", "failed", "human_action_required"} :
            workers' = [workers EXCEPT ![w].pc = "reporting", ![w].outcome = outcome]
      BY <2>2
    <3>2. PICK m : m = workers[w]  OBVIOUS
    <3>3. PICK new : new = [m EXCEPT !.pc = "reporting", !.outcome = outcome]  OBVIOUS
    <3>4. new = [pc |-> "reporting", job |-> m.job, attempt |-> m.attempt, object |-> m.object,
                 outcome |-> outcome, capture |-> m.capture]
      BY <1>1, <3>2, <3>3 DEF Memory
    <3>5. outcome \in Outcomes \ {"lease_expired"}  BY DEF Outcomes, Settled
    <3>6. new \in Memory  BY <1>1, <3>2, <3>4, <3>5 DEF Memory
    <3>7. workers' = [workers EXCEPT ![w] = new]  BY <3>1, <3>2, <3>3 DEF TypeOK
    <3>8. workers'[w] = new  BY <3>7 DEF TypeOK
    <3>9. QED BY <3>2, <3>4, <3>5, <3>6, <3>7, <3>8 DEF TypeOK
  <2>3. CASE \E outcome \in Stored, capture \in DOMAIN KnownCaptures :
               workers' = [workers EXCEPT ![w].pc = "reporting", ![w].outcome = outcome,
                             ![w].capture = capture, ![w].object = KnownCaptures[capture].object]
    <3>1. PICK outcome \in Stored, capture \in DOMAIN KnownCaptures :
            workers' = [workers EXCEPT ![w].pc = "reporting", ![w].outcome = outcome,
                          ![w].capture = capture, ![w].object = KnownCaptures[capture].object]
      BY <2>3
    <3>2. PICK object \in Objects : object = KnownCaptures[capture].object
      BY CaptureAssumption
    <3>3. PICK m : m = workers[w]  OBVIOUS
    <3>4. PICK new : new = [m EXCEPT !.pc = "reporting", !.outcome = outcome,
                                     !.capture = capture, !.object = object]
      OBVIOUS
    <3>5. new = [pc |-> "reporting", job |-> m.job, attempt |-> m.attempt, object |-> object,
                 outcome |-> outcome, capture |-> capture]
      BY <1>1, <3>3, <3>4 DEF Memory
    <3>6. outcome \in Outcomes \ {"lease_expired"} /\ capture \in CaptureIds
      BY DEF Outcomes, Settled, Stored, CaptureIds
    <3>7. new \in Memory  BY <1>1, <3>3, <3>5, <3>6 DEF Memory
    <3>8. workers' = [workers EXCEPT ![w] = new]  BY <3>1, <3>2, <3>3, <3>4 DEF TypeOK
    <3>9. workers'[w] = new  BY <3>8 DEF TypeOK
    <3>10. QED BY <3>3, <3>5, <3>6, <3>7, <3>8, <3>9 DEF TypeOK
  <2>4. QED BY <2>1, <2>2, <2>3 DEF FetchEnds
<1>4. TypeOK'  BY <1>2, <1>3 DEF TypeOK
<1>5. MemoryIsOfAClaim'  BY <1>1, <1>2, <1>3 DEF MemoryIsOfAClaim
<1>6. RowsAreSound' /\ HistoryIsExact' /\ WithinBudget' /\ EveryCaptureIsRecorded'
  BY <1>2 DEF RowsAreSound, HistoryIsExact, WithinBudget, EveryCaptureIsRecorded
<1>7. TryHeldOnce'  BY <1>1, <1>3 DEF TryHeldOnce
<1>8. QED BY <1>4, <1>5, <1>6, <1>7

(* A worker forgets its try: it stopped, or was told its lease is lost.       *)
LEMMA ForgetStep ==
  ASSUME IInv, NEW w \in Workers, workers' = [workers EXCEPT ![w] = Idle],
         UNCHANGED <<jobs, attempts, captures, order>>
  PROVE  IInv'
<1> USE DEF IInv
<1>1. Idle \in Memory /\ Idle.pc = "idle"  BY DEF Idle, Memory
<1>2. /\ workers' \in [Workers -> Memory] /\ workers'[w] = Idle
      /\ \A v \in Workers \ {w} : workers'[v] = workers[v]
  BY <1>1 DEF TypeOK
<1>3. TypeOK'  BY <1>2 DEF TypeOK
<1>4. MemoryIsOfAClaim'  BY <1>1, <1>2 DEF MemoryIsOfAClaim
<1>5. RowsAreSound' /\ HistoryIsExact' /\ WithinBudget' /\ EveryCaptureIsRecorded'
  BY DEF RowsAreSound, HistoryIsExact, WithinBudget, EveryCaptureIsRecorded
<1>6. TryHeldOnce'
  <2> SUFFICES ASSUME NEW u \in Workers, NEW v \in Workers, u # v,
                      workers'[u].pc # "idle", workers'[v].pc # "idle",
                      workers'[u].job = workers'[v].job
               PROVE  workers'[u].attempt # workers'[v].attempt
    BY DEF TryHeldOnce
  <2>1. u # w  BY <1>1, <1>2
  <2>2. v # w  BY <1>1, <1>2
  <2>3. QED BY <1>2, <2>1, <2>2 DEF TryHeldOnce
<1>7. QED BY <1>3, <1>4, <1>5, <1>6

(* What a try may store in the step that settles it: its own capture.         *)
StoredBy(j, n, capture, stored) ==
  \A c \in stored : /\ c \in [id : Jobs \X Nat, object : Objects]
                   /\ c.id = <<j, n>>
                   /\ capture = c.id

(* The current try of job j is settled by the worker that holds it, which      *)
(* may store one capture in the same step.                                  *)
LEMMA SettleStep ==
  ASSUME IInv, NEW w \in Workers, workers[w].pc # "idle", HoldsLease(w),
         NEW j \in Jobs, j = workers[w].job,
         NEW outcome, NEW capture, NEW stored,
         TryEnds(j, outcome, capture),
         workers' = [workers EXCEPT ![w] = Idle], UNCHANGED order,
         captures' = captures \cup stored,
         StoredBy(j, workers[w].attempt, capture, stored)
  PROVE  IInv'
<1> USE DEF IInv
<1>1. Idle \in Memory /\ Idle.pc = "idle"  BY DEF Idle, Memory
<1>2. /\ workers' \in [Workers -> Memory] /\ workers'[w] = Idle
      /\ \A v \in Workers \ {w} : workers'[v] = workers[v]
  BY <1>1 DEF TypeOK
<1>3. /\ jobs[j].state = "running" /\ jobs[j].made = workers[w].attempt
      /\ jobs[j].made \in Nat /\ jobs[j].max \in Nat /\ jobs[j].made >= 1
  BY DEF HoldsLease, TypeOK, Row, RowsAreSound
<1>4. /\ jobs' \in [Jobs -> Row]
      /\ jobs'[j].state \in Settled \cup {"queued"}
      /\ jobs'[j].made = jobs[j].made /\ jobs'[j].max = jobs[j].max
      /\ jobs'[j].budget = jobs[j].budget
      /\ jobs'[j].state = "queued" => jobs[j].made < jobs[j].max
      /\ \A k \in Jobs \ {j} : jobs'[k] = jobs[k] /\ attempts'[k] = attempts[k]
      /\ attempts' \in [Jobs -> Seq(Attempt)]
  BY DEF TryEnds
<1>5. PICK entry : entry = [number |-> jobs[j].made, outcome |-> outcome, capture |-> capture]
  OBVIOUS
<1>6. attempts'[j] = Append(attempts[j], entry)  BY <1>5 DEF TryEnds
<1>7. attempts[j] \in Seq(Attempt) /\ Len(attempts[j]) = jobs[j].made - 1
  BY <1>3 DEF TypeOK, HistoryIsExact
<1>8. /\ Len(attempts'[j]) = jobs[j].made
      /\ \A n \in 1..Len(attempts[j]) : attempts'[j][n] = attempts[j][n]
      /\ attempts'[j][jobs[j].made] = entry
  BY <1>3, <1>6, <1>7
<1>9. jobs'[j].state # "absent" /\ jobs'[j].state # "running"  BY <1>4 DEF Settled
<1>10. TypeOK'  BY <1>2, <1>4 DEF TypeOK, StoredBy
<1>11. MemoryIsOfAClaim'  BY <1>1, <1>2, <1>4 DEF MemoryIsOfAClaim
<1>12. RowsAreSound'  BY <1>3, <1>4, <1>9 DEF RowsAreSound
<1>13. HistoryIsExact'
  <2>1. ASSUME NEW n \in 1..Len(attempts'[j]) PROVE attempts'[j][n].number = n
    <3>1. CASE n = jobs[j].made
      <4>1. entry.number = jobs[j].made  BY <1>5
      <4>2. QED BY <1>8, <3>1, <4>1
    <3>2. CASE n # jobs[j].made
      <4>1. n \in 1..Len(attempts[j])  BY <1>3, <1>7, <1>8, <3>2
      <4>2. QED BY <1>8, <4>1 DEF HistoryIsExact
    <3>3. QED BY <3>1, <3>2
  <2>2. QED BY <1>4, <1>8, <1>9, <2>1 DEF HistoryIsExact
<1>14. WithinBudget'  BY <1>4 DEF WithinBudget
<1>15. TryHeldOnce'
  <2> SUFFICES ASSUME NEW u \in Workers, NEW v \in Workers, u # v,
                      workers'[u].pc # "idle", workers'[v].pc # "idle",
                      workers'[u].job = workers'[v].job
               PROVE  workers'[u].attempt # workers'[v].attempt
    BY DEF TryHeldOnce
  <2>1. u # w  BY <1>1, <1>2
  <2>2. v # w  BY <1>1, <1>2
  <2>3. QED BY <1>2, <2>1, <2>2 DEF TryHeldOnce
<1>16. EveryCaptureIsRecorded'
  <2> SUFFICES ASSUME NEW c \in captures'
               PROVE  /\ c.id[2] \in 1..Len(attempts'[c.id[1]])
                      /\ attempts'[c.id[1]][c.id[2]].capture = c.id
    BY DEF EveryCaptureIsRecorded
  <2>1. CASE c \in captures
    <3>1. /\ c.id[1] \in Jobs
          /\ c.id[2] \in 1..Len(attempts[c.id[1]])
          /\ attempts[c.id[1]][c.id[2]].capture = c.id
      BY <2>1 DEF EveryCaptureIsRecorded, TypeOK
    <3>2. CASE c.id[1] = j
      <4>1. c.id[2] \in 1..Len(attempts[j]) /\ attempts[j][c.id[2]].capture = c.id
        BY <3>1, <3>2
      <4>2. c.id[2] \in 1..Len(attempts'[j])  BY <1>3, <1>7, <1>8, <4>1
      <4>3. attempts'[j][c.id[2]] = attempts[j][c.id[2]]  BY <1>8, <4>1
      <4>4. QED BY <3>2, <4>1, <4>2, <4>3
    <3>3. CASE c.id[1] # j  BY <1>4, <3>1, <3>3
    <3>4. QED BY <3>2, <3>3
  <2>2. CASE c \in stored
    <3>1. c.id = <<j, jobs[j].made>> /\ capture = c.id  BY <1>3, <2>2 DEF StoredBy
    <3>2. c.id[1] = j /\ c.id[2] = jobs[j].made  BY <3>1
    <3>3. entry.capture = c.id  BY <1>5, <3>1
    <3>4. QED BY <1>3, <1>8, <3>2, <3>3
  <2>3. QED BY <2>1, <2>2
<1>17. QED BY <1>10, <1>11, <1>12, <1>13, <1>14, <1>15, <1>16

LEMMA StoreStep ==
  ASSUME IInv, NEW w \in Workers, StoreCapture(w)
  PROVE  IInv'
<1> DEFINE m == workers[w]
<1> DEFINE id == <<m.job, m.attempt>>
<1>1. /\ TypeOK /\ m \in Memory /\ m.pc = "storing" /\ m.job \in Jobs /\ m.attempt \in Nat
      /\ m.object \in Objects
  BY DEF StoreCapture, IInv, TypeOK, Memory, MemoryIsOfAClaim
<1>2. UNCHANGED order  BY DEF StoreCapture
<1>3. CASE /\ HoldsLease(w)
           /\ captures' = captures \cup {[id |-> id, object |-> m.object]}
           /\ CompleteJobTx(m.job, "held", id, m.object)
           /\ workers' = [workers EXCEPT ![w] = Idle]
  <2>1. "held" \in Outcomes \ {"lease_expired"}  BY DEF Outcomes, Settled
  <2>2. id \in Jobs \X Nat  BY <1>1
  <2>3. id \in CaptureIds \cup {None}  BY <2>2 DEF CaptureIds
  <2>4. TryEnds(m.job, "held", id)  BY <1>1, <1>3, <2>1, <2>3, CompleteJobTxEndsTry
  <2>5. PICK stored : stored = {[id |-> id, object |-> m.object]}  OBVIOUS
  <2>6. StoredBy(m.job, workers[w].attempt, id, stored)  BY <1>1, <2>2, <2>5 DEF StoredBy
  <2>7. captures' = captures \cup stored  BY <1>3, <2>5
  <2>8. workers[w].pc # "idle"  BY <1>1
  <2>9. QED BY <1>1, <1>2, <1>3, <2>4, <2>6, <2>7, <2>8, SettleStep
<1>4. CASE /\ ~HoldsLease(w)
           /\ workers' = [workers EXCEPT ![w] = Idle]
           /\ UNCHANGED <<jobs, attempts, captures>>
  BY <1>2, <1>4, ForgetStep
<1>5. CASE /\ workers' = [workers EXCEPT ![w].pc = "reporting", ![w].outcome = "failed",
                                         ![w].object = None]
           /\ UNCHANGED <<jobs, attempts, captures>>
  <2>1. PICK old : old = workers[w]  OBVIOUS
  <2>2. PICK new : new = [old EXCEPT !.pc = "reporting", !.outcome = "failed", !.object = None]
    OBVIOUS
  <2>3. new = [pc |-> "reporting", job |-> old.job, attempt |-> old.attempt, object |-> None,
               outcome |-> "failed", capture |-> old.capture]
    BY <1>1, <2>1, <2>2 DEF Memory
  <2>4. "failed" \in Outcomes \ {"lease_expired"}  BY DEF Outcomes, Settled
  <2>5. new \in Memory  BY <1>1, <2>1, <2>3, <2>4 DEF Memory
  <2>6. workers' = [workers EXCEPT ![w] = new]  BY <1>1, <1>5, <2>1, <2>2 DEF TypeOK
  <2>7. /\ workers' \in [Workers -> Memory] /\ workers'[w] = new
        /\ \A v \in Workers \ {w} : workers'[v] = workers[v]
    BY <1>1, <2>5, <2>6 DEF TypeOK
  <2>8. TypeOK'  BY <1>1, <1>2, <1>5, <2>7 DEF TypeOK
  <2>9. MemoryIsOfAClaim'
    BY <1>1, <1>5, <2>1, <2>3, <2>4, <2>7 DEF IInv, MemoryIsOfAClaim
  <2>10. RowsAreSound' /\ HistoryIsExact' /\ WithinBudget' /\ EveryCaptureIsRecorded'
    BY <1>5 DEF IInv, RowsAreSound, HistoryIsExact, WithinBudget, EveryCaptureIsRecorded
  <2>11. TryHeldOnce'  BY <1>1, <2>1, <2>3, <2>7 DEF IInv, TryHeldOnce
  <2>12. QED BY <2>8, <2>9, <2>10, <2>11 DEF IInv
<1>6. QED BY <1>3, <1>4, <1>5 DEF StoreCapture

LEMMA CompleteStep ==
  ASSUME IInv, NEW w \in Workers, CompleteJob(w)
  PROVE  IInv'
<1> DEFINE m == workers[w]
<1>1. /\ TypeOK /\ m \in Memory /\ m.pc = "reporting" /\ m.job \in Jobs
      /\ m.outcome \in Outcomes \ {"lease_expired"} /\ m.capture \in CaptureIds \cup {None}
  BY DEF CompleteJob, IInv, TypeOK, Memory, MemoryIsOfAClaim
<1>2. workers' = [workers EXCEPT ![w] = Idle] /\ UNCHANGED <<captures, order>>
  BY DEF CompleteJob
<1>3. CASE HoldsLease(w) /\ CompleteJobTx(m.job, m.outcome, m.capture, m.object)
  <2>1. TryEnds(m.job, m.outcome, m.capture)  BY <1>1, <1>3, CompleteJobTxEndsTry
  <2>2. PICK stored : stored = {}  OBVIOUS
  <2>3. captures' = captures \cup stored /\ UNCHANGED order  BY <1>2, <2>2
  <2>4. StoredBy(m.job, workers[w].attempt, m.capture, stored)  BY <2>2 DEF StoredBy
  <2>5. workers[w].pc # "idle"  BY <1>1
  <2>6. QED BY <1>1, <1>2, <1>3, <2>1, <2>3, <2>4, <2>5, SettleStep
<1>4. CASE UNCHANGED <<jobs, attempts>>
  BY <1>2, <1>4, ForgetStep
<1>5. QED BY <1>3, <1>4 DEF CompleteJob

(* Taking back expired leases writes the one row each lost try was missing, *)
(* so the history stays exact against the rows as they are afterwards.      *)
LEMMA HistoryAfterReclaimFacts ==
  ASSUME IInv, NEW e
  PROVE  /\ HistoryAfterReclaim(e) \in [Jobs -> Seq(Attempt)]
         /\ \A j \in Jobs :
              /\ Len(HistoryAfterReclaim(e)[j]) =
                   IF AfterReclaim(e)[j].state = "running" THEN jobs[j].made - 1 ELSE jobs[j].made
              /\ \A n \in 1..Len(HistoryAfterReclaim(e)[j]) : HistoryAfterReclaim(e)[j][n].number = n
              /\ \A n \in 1..Len(attempts[j]) :
                   /\ n \in 1..Len(HistoryAfterReclaim(e)[j])
                   /\ HistoryAfterReclaim(e)[j][n] = attempts[j][n]
              /\ AfterReclaim(e)[j].state = "absent" => HistoryAfterReclaim(e)[j] = attempts[j]
<1> DEFINE H == HistoryAfterReclaim(e)
<1> HIDE DEF H
<1>1. ASSUME NEW j \in Jobs
      PROVE  /\ H[j] \in Seq(Attempt)
             /\ Len(H[j]) =
                  IF AfterReclaim(e)[j].state = "running" THEN jobs[j].made - 1 ELSE jobs[j].made
             /\ \A n \in 1..Len(H[j]) : H[j][n].number = n
             /\ \A n \in 1..Len(attempts[j]) : n \in 1..Len(H[j]) /\ H[j][n] = attempts[j][n]
             /\ AfterReclaim(e)[j].state = "absent" => H[j] = attempts[j]
  <2>1. /\ attempts[j] \in Seq(Attempt) /\ jobs[j].made \in Nat
        /\ Len(attempts[j]) = IF jobs[j].state = "running" THEN jobs[j].made - 1 ELSE jobs[j].made
        /\ \A n \in 1..Len(attempts[j]) : attempts[j][n].number = n
    BY DEF IInv, TypeOK, Row, HistoryIsExact
  <2>2. /\ j \notin Expired(e) => AfterReclaim(e)[j] = jobs[j]
        /\ j \in Expired(e) => /\ jobs[j].state = "running"
                               /\ AfterReclaim(e)[j].state \in {"failed", "queued"}
    BY AfterReclaimFacts DEF IInv
  <2>3. CASE j \notin Expired(e)
    <3>1. H[j] = attempts[j]  BY <2>3 DEF H, HistoryAfterReclaim
    <3>2. QED BY <2>1, <2>2, <2>3, <3>1
  <2>4. CASE j \in Expired(e)
    <3>1. PICK entry : entry = [number |-> jobs[j].made, outcome |-> "lease_expired",
                                capture |-> None]
      OBVIOUS
    <3>2. entry \in Attempt /\ entry.number = jobs[j].made
      BY <2>1, <3>1 DEF Attempt, Outcomes
    <3>3. H[j] = Append(attempts[j], entry)  BY <2>4, <3>1 DEF H, HistoryAfterReclaim
    <3>4. /\ jobs[j].made >= 1 /\ Len(attempts[j]) = jobs[j].made - 1
      BY <2>1, <2>2, <2>4 DEF IInv, RowsAreSound
    <3>5. /\ H[j] \in Seq(Attempt) /\ Len(H[j]) = jobs[j].made
          /\ \A n \in 1..Len(attempts[j]) : H[j][n] = attempts[j][n]
          /\ H[j][jobs[j].made] = entry
      BY <2>1, <3>2, <3>3, <3>4
    <3>6. ASSUME NEW n \in 1..Len(H[j]) PROVE H[j][n].number = n
      <4>1. CASE n = jobs[j].made  BY <3>2, <3>5, <4>1
      <4>2. CASE n # jobs[j].made
        <5>1. n \in 1..Len(attempts[j])  BY <2>1, <3>4, <3>5, <4>2
        <5>2. QED BY <2>1, <3>5, <5>1
      <4>3. QED BY <4>1, <4>2
    <3>7. \A n \in 1..Len(attempts[j]) : n \in 1..Len(H[j])  BY <2>1, <3>4, <3>5
    <3>8. QED BY <2>2, <2>4, <3>5, <3>6, <3>7
  <2>5. QED BY <2>3, <2>4
<1>2. H = [j \in Jobs |-> H[j]]  BY DEF H, HistoryAfterReclaim
<1>3. H \in [Jobs -> Seq(Attempt)]  BY <1>1, <1>2
<1>4. QED BY <1>1, <1>3 DEF H

LEMMA ClaimStep ==
  ASSUME IInv, NEW w \in Workers, ClaimJob(w)
  PROVE  IInv'
<1> DEFINE e == WorkerExecutor[w]
           rows == AfterReclaim(e)
           due == Due(rows, e)
           H == HistoryAfterReclaim(e)
<1> HIDE DEF e, rows, due, H
<1>1. /\ workers[w].pc = "idle" /\ attempts' = H /\ UNCHANGED <<captures, order>>
  BY DEF ClaimJob, e, H
<1>2. /\ rows \in [Jobs -> Row]
      /\ \A j \in Jobs :
           /\ rows[j].made = jobs[j].made /\ rows[j].max = jobs[j].max
           /\ rows[j].budget = jobs[j].budget
           /\ (rows[j].state = "absent") <=> (jobs[j].state = "absent")
           /\ rows[j].state = "queued" => jobs[j].made < jobs[j].max
           /\ rows[j].state = "running" => jobs[j].state = "running"
  BY AfterReclaimFacts DEF IInv, rows
<1>3. /\ H \in [Jobs -> Seq(Attempt)]
      /\ \A j \in Jobs :
           /\ Len(H[j]) = IF rows[j].state = "running" THEN jobs[j].made - 1 ELSE jobs[j].made
           /\ \A n \in 1..Len(H[j]) : H[j][n].number = n
           /\ \A n \in 1..Len(attempts[j]) : n \in 1..Len(H[j]) /\ H[j][n] = attempts[j][n]
           /\ rows[j].state = "absent" => H[j] = attempts[j]
  BY HistoryAfterReclaimFacts DEF rows, H
<1>4. \A j \in Jobs : jobs[j] \in Row /\ jobs[j].made \in Nat /\ jobs[j].max \in Nat
  BY DEF IInv, TypeOK, Row
<1>5. EveryCaptureIsRecorded'
  <2> SUFFICES ASSUME NEW c \in captures
               PROVE  /\ c.id[2] \in 1..Len(H[c.id[1]])
                      /\ H[c.id[1]][c.id[2]].capture = c.id
    BY <1>1 DEF EveryCaptureIsRecorded
  <2>1. /\ c.id[1] \in Jobs
        /\ c.id[2] \in 1..Len(attempts[c.id[1]])
        /\ attempts[c.id[1]][c.id[2]].capture = c.id
    BY DEF IInv, EveryCaptureIsRecorded, TypeOK
  <2>2. QED BY <1>3, <2>1
<1>6. CASE due = {} /\ jobs' = rows /\ UNCHANGED workers
  <2>1. TypeOK'  BY <1>1, <1>2, <1>3, <1>6 DEF IInv, TypeOK
  <2>2. MemoryIsOfAClaim'  BY <1>2, <1>6 DEF IInv, MemoryIsOfAClaim
  <2>3. RowsAreSound'  BY <1>1, <1>2, <1>3, <1>6 DEF IInv, RowsAreSound
  <2>4. HistoryIsExact'  BY <1>1, <1>2, <1>3, <1>6 DEF HistoryIsExact
  <2>5. WithinBudget'  BY <1>2, <1>6 DEF IInv, WithinBudget
  <2>6. TryHeldOnce'  BY <1>6 DEF IInv, TryHeldOnce
  <2>7. QED BY <1>5, <2>1, <2>2, <2>3, <2>4, <2>5, <2>6 DEF IInv
<1>7. ASSUME NEW j \in due,
             jobs' = [rows EXCEPT ![j] = [rows[j] EXCEPT
               !.state = "running", !.made = @ + 1, !.owner = OwnerOf[w], !.lease = Lease]],
             workers' = [workers EXCEPT ![w] = [Idle EXCEPT
               !.pc = "fetching", !.job = j, !.attempt = rows[j].made + 1]]
      PROVE  IInv'
  <2>1. j \in Jobs /\ rows[j].state = "queued"  BY DEF due, Due
  <2>2. PICK old : old = rows[j]  OBVIOUS
  <2>3. old \in Row /\ old.made \in Nat  BY <1>2, <2>1, <2>2 DEF Row
  <2>4. OwnerOf[w] \in Owners /\ Lease \in Int  BY PoolAssumption, TimeAssumption
  <2>5. PICK row : row = [old EXCEPT !.state = "running", !.made = @ + 1,
                                     !.owner = OwnerOf[w], !.lease = Lease]
    OBVIOUS
  <2>6. row = RowOf("running", old.seen, old.budget, old.made + 1, old.max, old.wait,
                    OwnerOf[w], Lease, old.result, old.provenance)
    BY <2>3, <2>5 DEF Row, RowOf
  <2>7. row \in Row  BY <2>3, <2>4, <2>6 DEF Row, RowOf, JobStates
  <2>8. /\ row.state = "running" /\ row.made = jobs[j].made + 1
        /\ row.max = jobs[j].max /\ row.budget = jobs[j].budget
    BY <1>2, <2>1, <2>2, <2>6 DEF RowOf
  <2>9. jobs' = [rows EXCEPT ![j] = row]  BY <1>7, <2>2, <2>5
  <2>10. /\ jobs' \in [Jobs -> Row] /\ jobs'[j] = row
         /\ \A k \in Jobs \ {j} : jobs'[k] = rows[k]
    BY <1>2, <2>1, <2>7, <2>9
  <2>11. PICK n \in Nat : n = jobs[j].made + 1  BY <1>4, <2>1
  <2>12. PICK memory : memory = [Idle EXCEPT !.pc = "fetching", !.job = j, !.attempt = n]
    OBVIOUS
  <2>13. memory = [pc |-> "fetching", job |-> j, attempt |-> n, object |-> None,
                   outcome |-> "none", capture |-> None]
    BY <2>12 DEF Idle
  <2>14. memory \in Memory  BY <2>1, <2>11, <2>13 DEF Memory
  <2>15. workers' = [workers EXCEPT ![w] = memory]  BY <1>2, <1>7, <2>1, <2>11, <2>12
  <2>16. /\ workers' \in [Workers -> Memory] /\ workers'[w] = memory
         /\ \A v \in Workers \ {w} : workers'[v] = workers[v]
    BY <2>14, <2>15 DEF IInv, TypeOK
  <2>17. /\ memory.pc = "fetching" /\ memory.job = j /\ memory.attempt = jobs[j].made + 1
    BY <2>11, <2>13
  <2>18. TypeOK'  BY <1>1, <1>3, <2>10, <2>16 DEF IInv, TypeOK
  <2>19. MemoryIsOfAClaim'
    <3> SUFFICES ASSUME NEW v \in Workers, workers'[v].pc # "idle"
                 PROVE  /\ workers'[v].job \in Jobs
                        /\ workers'[v].attempt \in 1..jobs'[workers'[v].job].made
                        /\ workers'[v].pc = "storing" => workers'[v].object \in Objects
                        /\ workers'[v].pc = "reporting" =>
                             workers'[v].outcome \in Outcomes \ {"lease_expired"}
      BY DEF MemoryIsOfAClaim
    <3>1. CASE v = w  BY <1>4, <2>1, <2>8, <2>10, <2>16, <2>17, <3>1
    <3>2. CASE v # w
      <4>1. /\ workers[v].job \in Jobs
            /\ workers[v].attempt \in 1..jobs[workers[v].job].made
            /\ workers[v].pc = "storing" => workers[v].object \in Objects
            /\ workers[v].pc = "reporting" => workers[v].outcome \in Outcomes \ {"lease_expired"}
        BY <2>16, <3>2 DEF IInv, MemoryIsOfAClaim
      <4>2. jobs'[workers[v].job].made \in {jobs[workers[v].job].made, jobs[workers[v].job].made + 1}
        BY <1>2, <2>8, <2>10, <4>1
      <4>3. workers[v].attempt \in 1..jobs'[workers[v].job].made  BY <1>4, <4>1, <4>2
      <4>4. QED BY <2>16, <3>2, <4>1, <4>3
    <3>3. QED BY <3>1, <3>2
  <2>20. RowsAreSound'
    <3>1. jobs[j].state # "absent" /\ jobs[j].budget >= 1 /\ jobs[j].made \in Nat
      BY <1>2, <1>4, <2>1 DEF IInv, RowsAreSound
    <3>2. \A k \in Jobs \ {j} :
            /\ rows[k].state = "absent" => rows[k].made = 0 /\ rows[k].max = 0 /\ H[k] = <<>>
            /\ rows[k].state = "running" => rows[k].made >= 1
            /\ rows[k].state # "absent" => rows[k].budget >= 1
      BY <1>2, <1>3 DEF IInv, RowsAreSound
    <3>3. attempts' = H  BY <1>1
    <3>4. QED BY <2>8, <2>10, <3>1, <3>2, <3>3 DEF RowsAreSound
  <2>21. HistoryIsExact'
    <3> SUFFICES ASSUME NEW k \in Jobs
                 PROVE  /\ Len(H[k]) = (IF jobs'[k].state = "running" THEN jobs'[k].made - 1
                                         ELSE jobs'[k].made)
                        /\ \A m \in 1..Len(H[k]) : H[k][m].number = m
      BY <1>1 DEF HistoryIsExact
    <3>1. CASE k = j  BY <1>2, <1>3, <1>4, <2>1, <2>8, <2>10, <3>1
    <3>2. CASE k # j  BY <1>2, <1>3, <2>10, <3>2
    <3>3. QED BY <3>1, <3>2
  <2>22. WithinBudget'
    BY <1>2, <1>4, <2>1, <2>8, <2>10 DEF IInv, WithinBudget
  <2>23. TryHeldOnce'
    <3> SUFFICES ASSUME NEW u \in Workers, NEW v \in Workers, u # v,
                        workers'[u].pc # "idle", workers'[v].pc # "idle",
                      workers'[u].job = workers'[v].job
                 PROVE  workers'[u].attempt # workers'[v].attempt
      BY DEF TryHeldOnce
    <3>1. ASSUME NEW x \in Workers, x # w, workers'[x].job = j, workers'[x].pc # "idle"
          PROVE  workers'[x].attempt # jobs[j].made + 1
      <4>1. workers'[x] = workers[x]  BY <2>16, <3>1
      <4>2. workers[x].attempt \in 1..jobs[j].made
        BY <3>1, <4>1 DEF IInv, MemoryIsOfAClaim
      <4>3. QED BY <1>4, <2>1, <4>1, <4>2
    <3>2. CASE u = w  BY <2>16, <2>17, <3>1, <3>2
    <3>3. CASE v = w  BY <2>16, <2>17, <3>1, <3>3
    <3>4. CASE u # w /\ v # w  BY <2>16, <3>4 DEF IInv, TryHeldOnce
    <3>5. QED BY <3>2, <3>3, <3>4
  <2>24. QED BY <1>5, <2>18, <2>19, <2>20, <2>21, <2>22, <2>23 DEF IInv
<1>8. QED BY <1>6, <1>7 DEF ClaimJob, e, rows, due


-----------------------------------------------------------------------------
(* The theorems.                                                            *)

LEMMA NextIInv == IInv /\ [Next]_vars => IInv'
<1> SUFFICES ASSUME IInv, [Next]_vars PROVE IInv'  OBVIOUS
<1>1. ASSUME NEW j \in Jobs, NEW seen \in Objects \cup {None}, NEW budget \in Budgets,
             SubmitJob(j, seen, budget)
      PROVE  IInv'
  BY <1>1, SubmitJobStep
<1>2. ASSUME NEW j \in Jobs, RetryJob(j) PROVE IInv'  BY <1>2, RetryStep
<1>3. ASSUME NEW w \in Workers, ClaimJob(w) PROVE IInv'  BY <1>3, ClaimStep
<1>4. ASSUME NEW w \in Workers, FetchEnds(w) PROVE IInv'  BY <1>4, FetchStep
<1>5. ASSUME NEW w \in Workers, StoreCapture(w) PROVE IInv'  BY <1>5, StoreStep
<1>6. ASSUME NEW w \in Workers, CompleteJob(w) PROVE IInv'  BY <1>6, CompleteStep
<1>7. ASSUME NEW w \in Workers, WorkerStops(w) PROVE IInv'
  BY <1>7, ForgetStep DEF WorkerStops
<1>8. ASSUME Tick PROVE IInv'  BY <1>8, TickStep
<1>9. ASSUME UNCHANGED vars PROVE IInv'
  BY <1>9 DEF vars, IInv, TypeOK, MemoryIsOfAClaim, RowsAreSound, HistoryIsExact, WithinBudget,
     TryHeldOnce, EveryCaptureIsRecorded
<1>10. QED BY <1>1, <1>2, <1>3, <1>4, <1>5, <1>6, <1>7, <1>8, <1>9 DEF Next

(* The inductive invariant holds in every reachable state.                  *)
THEOREM InvariantHolds == Spec => []IInv
BY InitIInv, NextIInv, PTL DEF Spec

(* Every row, attempt and memory of a worker keeps its type.                 *)
THEOREM TypeCorrect == Spec => []TypeOK
<1>1. IInv => TypeOK  BY DEF IInv
<1>2. QED BY <1>1, InvariantHolds, PTL

(* The attempt history of a job has one row for each claim, in order, less    *)
(* the try that is running: no try is settled twice, none is forgotten.     *)
THEOREM HistoryExact == Spec => []HistoryIsExact
<1>1. IInv => HistoryIsExact  BY DEF IInv
<1>2. QED BY <1>1, InvariantHolds, PTL

(* A capture stored by a try is named by that try's own attempt row, however  *)
(* late the worker was and whoever reclaimed its lease.                     *)
THEOREM CapturesRecorded == Spec => []EveryCaptureIsRecorded
<1>1. IInv => EveryCaptureIsRecorded  BY DEF IInv
<1>2. QED BY <1>1, InvariantHolds, PTL

(* No two workers run the same try, whatever names they claim under.         *)
THEOREM TriesExclusive == Spec => []TryHeldOnce
<1>1. IInv => TryHeldOnce  BY DEF IInv
<1>2. QED BY <1>1, InvariantHolds, PTL

(* No job is tried beyond its budget and every queued job has a try left.     *)
THEOREM BudgetKept == Spec => []WithinBudget
<1>1. IInv => WithinBudget  BY DEF IInv
<1>2. QED BY <1>1, InvariantHolds, PTL


-----------------------------------------------------------------------------
(* Action properties. What each kind of step does to the tables is stated     *)
(* once: it leaves the job, or is one of three steps that may move it.      *)

LEMMA SettlingStep ==
  ASSUME IInv, NEW w \in Workers, StoreCapture(w) \/ CompleteJob(w)
  PROVE  \/ UNCHANGED <<jobs, attempts>>
         \/ /\ workers[w].pc \in {"storing", "reporting"}
            /\ workers[w].job \in Jobs
            /\ HoldsLease(w)
            /\ \E outcome, capture : TryEnds(workers[w].job, outcome, capture)
<1>1. CASE StoreCapture(w)
  <2>1. /\ workers[w].pc = "storing" /\ workers[w].job \in Jobs /\ workers[w].attempt \in Nat
    BY <1>1 DEF StoreCapture, IInv, TypeOK, Memory, MemoryIsOfAClaim
  <2>2. "held" \in Outcomes \ {"lease_expired"}  BY DEF Outcomes, Settled
  <2>3. PICK id : id = <<workers[w].job, workers[w].attempt>>  OBVIOUS
  <2>4. id \in CaptureIds \cup {None}  BY <2>1, <2>3 DEF CaptureIds
  <2>5. \/ UNCHANGED <<jobs, attempts>>
        \/ HoldsLease(w) /\ CompleteJobTx(workers[w].job, "held", id, workers[w].object)
    BY <1>1, <2>3 DEF StoreCapture
  <2>6. QED BY <2>1, <2>2, <2>4, <2>5, CompleteJobTxEndsTry DEF IInv
<1>2. CASE CompleteJob(w)
  <2>1. /\ workers[w].pc = "reporting" /\ workers[w].job \in Jobs
        /\ workers[w].outcome \in Outcomes \ {"lease_expired"}
        /\ workers[w].capture \in CaptureIds \cup {None}
    BY <1>2 DEF CompleteJob, IInv, TypeOK, Memory, MemoryIsOfAClaim
  <2>2. \/ UNCHANGED <<jobs, attempts>>
        \/ HoldsLease(w) /\ CompleteJobTx(workers[w].job, workers[w].outcome,
                                          workers[w].capture, workers[w].object)
    BY <1>2 DEF CompleteJob
  <2>3. QED BY <2>1, <2>2, CompleteJobTxEndsTry DEF IInv
<1>3. QED BY <1>1, <1>2

LEMMA TryEndsExtendsHistory ==
  ASSUME TypeOK, NEW j \in Jobs, NEW outcome, NEW capture, TryEnds(j, outcome, capture)
  PROVE  HistoryGrows
<1>1. PICK entry : entry = [number |-> jobs[j].made, outcome |-> outcome, capture |-> capture]
  OBVIOUS
<1>2. attempts'[j] = Append(attempts[j], entry)  BY <1>1 DEF TryEnds
<1>3. \A k \in Jobs : attempts[k] \in Seq(Attempt)  BY DEF TypeOK
<1>4. \A n \in 1..Len(attempts[j]) :
        n \in 1..Len(attempts'[j]) /\ attempts'[j][n] = attempts[j][n]
  BY <1>2, <1>3
<1>5. \A k \in Jobs \ {j} : attempts'[k] = attempts[k]  BY DEF TryEnds
<1>6. QED BY <1>4, <1>5 DEF HistoryGrows

(* Attempt rows are only ever appended, for every number of workers that      *)
(* claim, reclaim, stop and report late.                                    *)
THEOREM HistoryAppendOnly == Spec => HistoryOnlyGrows
<1>1. IInv /\ [Next]_vars => [HistoryGrows]_vars
  <2> SUFFICES ASSUME IInv, Next PROVE HistoryGrows  OBVIOUS
  <2>1. CASE UNCHANGED attempts  BY <2>1 DEF HistoryGrows
  <2>2. ASSUME NEW w \in Workers, ClaimJob(w) PROVE HistoryGrows
    <3>1. attempts' = HistoryAfterReclaim(WorkerExecutor[w])  BY <2>2 DEF ClaimJob
    <3>2. QED BY <3>1, HistoryAfterReclaimFacts DEF HistoryGrows
  <2>3. ASSUME NEW w \in Workers, StoreCapture(w) \/ CompleteJob(w) PROVE HistoryGrows
    BY <2>1, <2>3, SettlingStep, TryEndsExtendsHistory DEF IInv
  <2>4. QED BY <2>1, <2>2, <2>3 DEF Next, SubmitJob, RetryJob, FetchEnds, WorkerStops, Tick
<1>2. QED BY <1>1, InvariantHolds, PTL DEF Spec, HistoryOnlyGrows

LEMMA ClaimKeepsOthers ==
  ASSUME IInv, NEW w \in Workers, ClaimJob(w), NEW j \in Jobs,
         j \notin Expired(WorkerExecutor[w]), jobs[j].state # "queued"
  PROVE  jobs'[j] = jobs[j]
<1> DEFINE rows == AfterReclaim(WorkerExecutor[w])
           due == Due(rows, WorkerExecutor[w])
<1> HIDE DEF rows, due
<1>1. rows \in [Jobs -> Row] /\ rows[j] = jobs[j]  BY AfterReclaimFacts DEF rows, IInv
<1>2. CASE jobs' = rows  BY <1>1, <1>2
<1>3. ASSUME NEW k \in due, NEW row, jobs' = [rows EXCEPT ![k] = row] PROVE jobs'[j] = jobs[j]
  <2>1. k # j  BY <1>1 DEF due, Due
  <2>2. QED BY <1>1, <1>3, <2>1
<1>4. QED BY <1>2, <1>3 DEF ClaimJob, rows, due

LEMMA TickKeepsState ==
  ASSUME Tick, NEW j \in Jobs, jobs[j] \in Row
  PROVE  jobs'[j].state = jobs[j].state /\ jobs'[j].made = jobs[j].made
<1>1. PICK row : row = jobs[j]  OBVIOUS
<1>2. PICK wait : wait = IF row.wait > 0 THEN row.wait - 1 ELSE 0  OBVIOUS
<1>3. PICK lease : lease = IF row.state = "running" /\ row.lease >= 0 THEN row.lease - 1
                           ELSE row.lease
  OBVIOUS
<1>4. jobs'[j] = [row EXCEPT !.wait = wait, !.lease = lease]
  BY <1>1, <1>2, <1>3 DEF Tick
<1>5. QED BY <1>1, <1>4 DEF Row

(* A settled job is moved only by a retry that gives it a fresh budget; no     *)
(* late store, report or reclaim reaches it, and nothing leaves acquired.   *)
THEOREM SettledJobsStay == Spec => SettledStays
<1>1. IInv /\ [Next]_vars => [OnlyRetryMovesSettled]_vars
  <2> SUFFICES ASSUME IInv, Next, NEW j \in Jobs, jobs[j].state \in Settled,
                      jobs'[j].state # jobs[j].state \/ jobs'[j].made # jobs[j].made
               PROVE  /\ jobs[j].state # "acquired"
                      /\ jobs'[j].state = "queued"
                      /\ jobs'[j].max = jobs'[j].made + jobs'[j].budget
                      /\ attempts'[j] = attempts[j]
    BY DEF OnlyRetryMovesSettled
  <2>1. jobs \in [Jobs -> Row] /\ jobs[j] \in Row  BY DEF IInv, TypeOK
  <2>2. jobs[j].state \notin {"absent", "queued", "running"}  BY DEF Settled
  <2>3. ASSUME NEW k \in Jobs, NEW seen, NEW budget, SubmitJob(k, seen, budget) PROVE FALSE
    <3>1. k # j  BY <2>2, <2>3 DEF SubmitJob
    <3>2. QED BY <2>1, <2>3, <3>1 DEF SubmitJob
  <2>4. ASSUME NEW k \in Jobs, RetryJob(k)
        PROVE  /\ jobs[j].state # "acquired"
               /\ jobs'[j].state = "queued"
               /\ jobs'[j].max = jobs'[j].made + jobs'[j].budget
               /\ attempts'[j] = attempts[j]
    <3>1. k = j  BY <2>1, <2>4 DEF RetryJob
    <3>2. PICK row : row = jobs[j]  OBVIOUS
    <3>3. PICK new : new = [row EXCEPT !.state = "queued", !.wait = 0, !.max = row.made + row.budget]
      OBVIOUS
    <3>4. jobs'[j] = new  BY <2>1, <2>4, <3>1, <3>2, <3>3 DEF RetryJob
    <3>5. new.state = "queued" /\ new.max = new.made + new.budget
      BY <2>1, <3>2, <3>3 DEF Row
    <3>6. QED BY <2>4, <3>1, <3>4, <3>5 DEF RetryJob
  <2>5. ASSUME NEW w \in Workers, ClaimJob(w) PROVE FALSE
    <3>1. j \notin Expired(WorkerExecutor[w])  BY <2>2 DEF Expired
    <3>2. QED BY <2>2, <2>5, <3>1, ClaimKeepsOthers
  <2>6. ASSUME NEW w \in Workers, StoreCapture(w) \/ CompleteJob(w) PROVE FALSE
    <3>1. CASE UNCHANGED <<jobs, attempts>>  BY <3>1
    <3>2. CASE /\ HoldsLease(w)
               /\ \E outcome, capture : TryEnds(workers[w].job, outcome, capture)
      <4>1. workers[w].job # j  BY <2>2, <3>2 DEF HoldsLease
      <4>2. QED BY <3>2, <4>1 DEF TryEnds
    <3>3. QED BY <2>6, <3>1, <3>2, SettlingStep
  <2>7. ASSUME Tick PROVE FALSE  BY <2>1, <2>7, TickKeepsState
  <2>8. QED BY <2>3, <2>4, <2>5, <2>6, <2>7 DEF Next, FetchEnds, WorkerStops
<1>2. QED BY <1>1, InvariantHolds, PTL DEF Spec, SettledStays

(* A lease that lasts keeps every other worker off the try: only the worker    *)
(* that holds it takes the job out of running.                              *)
THEOREM LeaseProtects == Spec => LiveLeaseIsKept
<1>1. IInv /\ [Next]_vars => [OnlyHolderEndsLiveTry]_vars
  <2> SUFFICES ASSUME IInv, Next, NEW j \in Jobs, jobs[j].state = "running",
                      jobs[j].lease >= 0, jobs'[j].state # "running"
               PROVE  \E w \in Workers : /\ workers[w].pc \in {"storing", "reporting"}
                                         /\ workers[w].job = j
                                         /\ workers[w].attempt = jobs[j].made
    BY DEF OnlyHolderEndsLiveTry
  <2>1. jobs \in [Jobs -> Row] /\ jobs[j] \in Row  BY DEF IInv, TypeOK
  <2>2. ASSUME NEW k \in Jobs, NEW seen, NEW budget, SubmitJob(k, seen, budget) PROVE FALSE
    <3>1. k # j  BY <2>2 DEF SubmitJob
    <3>2. QED BY <2>1, <2>2, <3>1 DEF SubmitJob
  <2>3. ASSUME NEW k \in Jobs, RetryJob(k) PROVE FALSE
    <3>1. k # j  BY <2>3 DEF RetryJob
    <3>2. QED BY <2>1, <2>3, <3>1 DEF RetryJob
  <2>4. ASSUME NEW w \in Workers, ClaimJob(w) PROVE FALSE
    <3>1. j \notin Expired(WorkerExecutor[w])  BY <2>1 DEF Expired, Row
    <3>2. QED BY <2>4, <3>1, ClaimKeepsOthers
  <2>5. ASSUME NEW w \in Workers, StoreCapture(w) \/ CompleteJob(w)
        PROVE  /\ workers[w].pc \in {"storing", "reporting"}
               /\ workers[w].job = j
               /\ workers[w].attempt = jobs[j].made
    <3>1. CASE UNCHANGED <<jobs, attempts>>  BY <3>1
    <3>2. CASE /\ workers[w].pc \in {"storing", "reporting"}
               /\ HoldsLease(w)
               /\ \E outcome, capture : TryEnds(workers[w].job, outcome, capture)
      <4>1. workers[w].job = j  BY <3>2 DEF TryEnds
      <4>2. QED BY <3>2, <4>1 DEF HoldsLease
    <3>3. QED BY <2>5, <3>1, <3>2, SettlingStep
  <2>6. ASSUME Tick PROVE FALSE  BY <2>1, <2>6, TickKeepsState
  <2>7. QED BY <2>2, <2>3, <2>4, <2>5, <2>6 DEF Next, FetchEnds, WorkerStops
<1>2. QED BY <1>1, InvariantHolds, PTL DEF Spec, LiveLeaseIsKept

-----------------------------------------------------------------------------
(* What a step does to one job, column by column. The evidence for a claim     *)
(* and the refinement below both read a step this way.                      *)

(* A power of two counts the subsets of a set, so it is at least one.        *)
LEMMA PowerPositive == ASSUME NEW n \in Nat PROVE 2^n \in Nat /\ 2^n > 0
<1>1. IsFiniteSet(1..n) /\ Cardinality(1..n) = n  BY FS_Interval
<1>2. IsFiniteSet(SUBSET (1..n)) /\ Cardinality(SUBSET (1..n)) = 2^n
  BY <1>1, FS_SUBSET
<1>3. SUBSET (1..n) # {}  OBVIOUS
<1>4. Cardinality(SUBSET (1..n)) \in Nat /\ Cardinality(SUBSET (1..n)) # 0
  BY <1>2, <1>3, FS_EmptySet, FS_CardinalityType
<1>5. QED BY <1>2, <1>4

(* A job sent back to the queue waits at least one tick, so the claim that     *)
(* took it back does not also lease it.                                     *)
LEMMA BackoffPositive == ASSUME NEW n \in Nat, n >= 1 PROVE jobBackoff(n) > 0
<1>1. PICK p : p = 2^(n - 1)  OBVIOUS
<1>2. p \in Nat /\ p > 0  BY <1>1, PowerPositive
<1>3. PICK b \in Nat \ {0} : b = BackoffBase  BY TimeAssumption
<1>4. b * p > 0 /\ b * p \in Nat  BY <1>2, <1>3
<1>5. jobBackoff(n) = IF b * p < BackoffCap THEN b * p ELSE BackoffCap
  BY <1>1, <1>3 DEF jobBackoff
<1>6. QED BY <1>4, <1>5, TimeAssumption

SameEvidence(new, row) ==
  new.seen = row.seen /\ new.result = row.result /\ new.provenance = row.provenance

LEMMA ReclaimedColumns ==
  ASSUME NEW row \in Row, row.made >= 1, NEW new, new = Reclaimed(row)
  PROVE  /\ SameEvidence(new, row)
         /\ new.state \in {"failed", "queued"}
         /\ new.state = "queued" => new.wait # 0
<1>1. PICK r : r = Released(row)  OBVIOUS
<1>2. r = RowOf(row.state, row.seen, row.budget, row.made, row.max, row.wait, None, 0,
                row.result, row.provenance)
  BY <1>1, ReleasedRow
<1>3. CASE row.made >= row.max
  <2>1. new = [r EXCEPT !.state = "failed", !.wait = 0]  BY <1>1, <1>3 DEF Reclaimed
  <2>2. QED BY <1>2, <2>1 DEF RowOf, SameEvidence
<1>4. CASE ~(row.made >= row.max)
  <2>1. PICK wait : wait = jobBackoff(row.made)  OBVIOUS
  <2>2. wait > 0  BY <2>1, BackoffPositive DEF Row
  <2>3. wait # 0  BY <2>2
  <2>4. new = [r EXCEPT !.state = "queued", !.wait = wait]  BY <1>1, <1>4, <2>1 DEF Reclaimed
  <2>5. QED BY <1>2, <2>3, <2>4 DEF RowOf, SameEvidence
<1>5. QED BY <1>3, <1>4

LEMMA CompletedColumns ==
  ASSUME NEW row \in Row, NEW outcome, NEW capture, NEW object,
         NEW new, new = Completed(row, outcome, capture, object)
  PROVE  /\ new.state = StateAfter(row, outcome)
         /\ new.seen = row.seen
         /\ new.result = IF capture = None THEN row.result ELSE capture
         /\ new.provenance = ProvenanceOf(row, capture, object)
<1>1. PICK r : r = Released(row)  OBVIOUS
<1>2. r = RowOf(row.state, row.seen, row.budget, row.made, row.max, row.wait, None, 0,
                row.result, row.provenance)
  BY <1>1, ReleasedRow
<1>3. PICK state : state = StateAfter(row, outcome)  OBVIOUS
<1>4. PICK wait : wait = IF state = "queued" THEN jobBackoff(row.made) ELSE 0  OBVIOUS
<1>5. PICK provenance : provenance = ProvenanceOf(row, capture, object)  OBVIOUS
<1>6. PICK result : result = IF capture = None THEN row.result ELSE capture  OBVIOUS
<1>7. new = [r EXCEPT !.state = state, !.wait = wait,
                      !.result = IF capture = None THEN @ ELSE capture,
                      !.provenance = provenance]
  BY <1>1, <1>3, <1>4, <1>5 DEF Completed
<1>8. new = RowOf(state, row.seen, row.budget, row.made, row.max, wait, None, 0, result, provenance)
  BY <1>2, <1>6, <1>7 DEF RowOf
<1>9. QED BY <1>3, <1>5, <1>6, <1>8 DEF RowOf

LEMMA ClaimMoves ==
  ASSUME IInv, NEW w \in Workers, ClaimJob(w), NEW j \in Jobs
  PROVE  /\ SameEvidence(jobs'[j], jobs[j])
         /\ \/ jobs'[j].state = jobs[j].state /\ attempts'[j] = attempts[j]
            \/ /\ jobs[j].state = "queued" /\ jobs'[j].state = "running"
               /\ attempts'[j] = attempts[j]
            \/ /\ jobs[j].state = "running" /\ jobs'[j].state \in {"failed", "queued"}
               /\ attempts'[j] = Append(attempts[j],
                    [number |-> jobs[j].made, outcome |-> "lease_expired", capture |-> None])
<1> DEFINE e == WorkerExecutor[w]
           rows == AfterReclaim(e)
           due == Due(rows, e)
<1> HIDE DEF e, rows, due
<1>1. rows \in [Jobs -> Row] /\ jobs[j] \in Row  BY AfterReclaimFacts DEF rows, IInv, TypeOK
<1>2. attempts' = HistoryAfterReclaim(e)  BY DEF ClaimJob, e
<1>3. CASE j \in Expired(e)
  <2>1. jobs[j].state = "running" /\ jobs[j].made >= 1
    BY <1>3 DEF Expired, IInv, RowsAreSound
  <2>2. rows[j] = Reclaimed(jobs[j])  BY <1>3 DEF rows, AfterReclaim
  <2>3. /\ SameEvidence(rows[j], jobs[j])
        /\ rows[j].state \in {"failed", "queued"}
        /\ rows[j].state = "queued" => rows[j].wait # 0
    BY <1>1, <2>1, <2>2, ReclaimedColumns
  <2>4. j \notin due  BY <2>3 DEF due, Due
  <2>5. jobs'[j] = rows[j]
    <3>1. CASE jobs' = rows  BY <3>1
    <3>2. ASSUME NEW k \in due, NEW row, jobs' = [rows EXCEPT ![k] = row]
          PROVE  jobs'[j] = rows[j]
      BY <1>1, <2>4, <3>2
    <3>3. QED BY <3>1, <3>2 DEF ClaimJob, e, rows, due
  <2>6. attempts'[j] = Append(attempts[j], [number |-> jobs[j].made,
                         outcome |-> "lease_expired", capture |-> None])
    BY <1>2, <1>3 DEF HistoryAfterReclaim
  <2>7. QED BY <2>1, <2>3, <2>5, <2>6
<1>4. CASE j \notin Expired(e)
  <2>1. rows[j] = jobs[j]  BY <1>4 DEF rows, AfterReclaim
  <2>2. attempts'[j] = attempts[j]  BY <1>2, <1>4 DEF HistoryAfterReclaim
  <2>3. CASE jobs' = rows  BY <2>1, <2>2, <2>3 DEF SameEvidence
  <2>4. ASSUME NEW k \in due,
               jobs' = [rows EXCEPT ![k] = [rows[k] EXCEPT
                 !.state = "running", !.made = @ + 1, !.owner = OwnerOf[w], !.lease = Lease]]
        PROVE  /\ SameEvidence(jobs'[j], jobs[j])
               /\ \/ jobs'[j].state = jobs[j].state
                  \/ jobs[j].state = "queued" /\ jobs'[j].state = "running"
    <3>1. CASE k # j  BY <1>1, <2>1, <2>4, <3>1 DEF SameEvidence
    <3>2. CASE k = j
      <4>1. jobs[j].state = "queued"  BY <2>1, <3>2 DEF due, Due
      <4>2. PICK row : row = jobs[j]  OBVIOUS
      <4>3. PICK new : new = [row EXCEPT !.state = "running", !.made = @ + 1,
                                         !.owner = OwnerOf[w], !.lease = Lease]
        OBVIOUS
      <4>4. jobs'[j] = new  BY <1>1, <2>1, <2>4, <3>2, <4>2, <4>3
      <4>5. new.state = "running" /\ SameEvidence(new, row)
        BY <1>1, <4>2, <4>3 DEF SameEvidence, Row
      <4>6. QED BY <4>1, <4>2, <4>4, <4>5
    <3>3. QED BY <3>1, <3>2
  <2>5. QED BY <2>2, <2>3, <2>4 DEF ClaimJob, e, rows, due
<1>5. QED BY <1>3, <1>4

LEMMA RetryMoves ==
  ASSUME IInv, NEW k \in Jobs, RetryJob(k), NEW j \in Jobs
  PROVE  /\ SameEvidence(jobs'[j], jobs[j])
         /\ \/ jobs'[j].state = jobs[j].state
            \/ /\ jobs[j].state \in {"failed", "human_action_required", "held"}
               /\ jobs'[j].state = "queued"
<1>1. jobs \in [Jobs -> Row]  BY DEF IInv, TypeOK
<1>2. CASE k # j  BY <1>1, <1>2 DEF RetryJob, SameEvidence
<1>3. CASE k = j
  <2>1. PICK row : row = jobs[j]  OBVIOUS
  <2>2. PICK max : max = row.made + row.budget  OBVIOUS
  <2>3. PICK new : new = [row EXCEPT !.state = "queued", !.wait = 0, !.max = max]  OBVIOUS
  <2>4. jobs'[j] = new  BY <1>1, <1>3, <2>1, <2>2, <2>3 DEF RetryJob
  <2>5. new.state = "queued" /\ SameEvidence(new, row)
    BY <1>1, <2>1, <2>3 DEF Row, SameEvidence
  <2>6. QED BY <1>3, <2>1, <2>4, <2>5 DEF RetryJob
<1>4. QED BY <1>2, <1>3

LEMMA TickMoves ==
  ASSUME IInv, Tick, NEW j \in Jobs
  PROVE  SameEvidence(jobs'[j], jobs[j]) /\ jobs'[j].state = jobs[j].state
<1>1. jobs[j] \in Row  BY DEF IInv, TypeOK
<1>2. PICK row : row = jobs[j]  OBVIOUS
<1>3. PICK wait : wait = IF row.wait > 0 THEN row.wait - 1 ELSE 0  OBVIOUS
<1>4. PICK lease : lease = IF row.state = "running" /\ row.lease >= 0 THEN row.lease - 1
                           ELSE row.lease
  OBVIOUS
<1>5. jobs'[j] = [row EXCEPT !.wait = wait, !.lease = lease]
  BY <1>2, <1>3, <1>4 DEF Tick
<1>6. QED BY <1>1, <1>2, <1>5 DEF Row, SameEvidence

LEMMA SubmitMoves ==
  ASSUME IInv, NEW k \in Jobs, NEW seen, NEW budget, SubmitJob(k, seen, budget), NEW j \in Jobs
  PROVE  \/ jobs'[j] = jobs[j]
         \/ /\ jobs[j].state = "absent"
            /\ jobs'[j].state = "queued" /\ jobs'[j].provenance = "none"
<1>1. jobs \in [Jobs -> Row]  BY DEF IInv, TypeOK
<1>2. CASE k # j  BY <1>1, <1>2 DEF SubmitJob
<1>3. CASE k = j
  <2>1. PICK new : new = [NoRow EXCEPT !.state = "queued", !.seen = seen, !.budget = budget,
                                       !.max = budget]
    OBVIOUS
  <2>2. jobs'[j] = new  BY <1>1, <1>3, <2>1 DEF SubmitJob
  <2>3. new.state = "queued" /\ new.provenance = "none"  BY <2>1 DEF NoRow
  <2>4. QED BY <1>3, <2>2, <2>3 DEF SubmitJob
<1>4. QED BY <1>2, <1>3

-----------------------------------------------------------------------------
(* What the queue claims about a result. A worker that reports a stored       *)
(* outcome without storing remembers the object of the capture it names.    *)
ReportsKnownCapture ==
  \A w \in Workers :
    /\ workers[w].pc \in {"fetching", "storing"} => workers[w].capture = None
    /\ workers[w].pc = "reporting" /\ workers[w].capture # None =>
         /\ workers[w].capture \in DOMAIN KnownCaptures
         /\ workers[w].object = KnownCaptures[workers[w].capture].object

EvidenceInv == IInv /\ ReportsKnownCapture /\ ClaimsAreEvidenced

LEMMA ReportsKnownStep == IInv /\ ReportsKnownCapture /\ [Next]_vars => ReportsKnownCapture'
<1> SUFFICES ASSUME IInv, ReportsKnownCapture, [Next]_vars, NEW w \in Workers
             PROVE  /\ workers'[w].pc \in {"fetching", "storing"} => workers'[w].capture = None
                    /\ workers'[w].pc = "reporting" /\ workers'[w].capture # None =>
                         /\ workers'[w].capture \in DOMAIN KnownCaptures
                         /\ workers'[w].object = KnownCaptures[workers'[w].capture].object
  BY DEF ReportsKnownCapture
<1>1. workers \in [Workers -> Memory] /\ workers[w] \in Memory  BY DEF IInv, TypeOK
<1>2. Idle.pc = "idle"  BY DEF Idle
<1>3. CASE workers'[w] = workers[w]  BY <1>3 DEF ReportsKnownCapture
<1>4. CASE workers'[w] = Idle  BY <1>2, <1>4
<1>5. ASSUME NEW v \in Workers, ClaimJob(v) PROVE workers'[w] = workers[w] \/
             (workers'[w].pc = "fetching" /\ workers'[w].capture = None)
  <2>1. CASE UNCHANGED workers  BY <2>1
  <2>2. ASSUME NEW j, NEW n, workers' = [workers EXCEPT ![v] = [Idle EXCEPT
                 !.pc = "fetching", !.job = j, !.attempt = n]]
        PROVE  workers'[w] = workers[w] \/
               (workers'[w].pc = "fetching" /\ workers'[w].capture = None)
    BY <1>1, <2>2 DEF Idle
  <2>3. QED BY <1>5, <2>1, <2>2 DEF ClaimJob
<1>6. ASSUME NEW v \in Workers, FetchEnds(v), v = w
      PROVE  \/ workers'[w].pc = "storing" /\ workers'[w].capture = None
             \/ workers'[w].pc = "reporting" /\ workers'[w].capture = None
             \/ /\ workers'[w].pc = "reporting"
                /\ workers'[w].capture \in DOMAIN KnownCaptures
                /\ workers'[w].object = KnownCaptures[workers'[w].capture].object
  <2>1. PICK m : m = workers[w]  OBVIOUS
  <2>2. m \in Memory /\ m.capture = None
    BY <1>1, <1>6, <2>1 DEF FetchEnds, ReportsKnownCapture
  <2>3. ASSUME NEW object, workers' = [workers EXCEPT ![v].pc = "storing", ![v].object = object]
        PROVE  workers'[w].pc = "storing" /\ workers'[w].capture = None
    <3>1. workers'[w] = [m EXCEPT !.pc = "storing", !.object = object]
      BY <1>1, <1>6, <2>1, <2>3
    <3>2. QED BY <2>2, <3>1 DEF Memory
  <2>4. ASSUME NEW outcome,
               workers' = [workers EXCEPT ![v].pc = "reporting", ![v].outcome = outcome]
        PROVE  workers'[w].pc = "reporting" /\ workers'[w].capture = None
    <3>1. workers'[w] = [m EXCEPT !.pc = "reporting", !.outcome = outcome]
      BY <1>1, <1>6, <2>1, <2>4
    <3>2. QED BY <2>2, <3>1 DEF Memory
  <2>5. ASSUME NEW outcome, NEW capture \in DOMAIN KnownCaptures,
               workers' = [workers EXCEPT ![v].pc = "reporting", ![v].outcome = outcome,
                             ![v].capture = capture, ![v].object = KnownCaptures[capture].object]
        PROVE  /\ workers'[w].pc = "reporting"
               /\ workers'[w].capture \in DOMAIN KnownCaptures
               /\ workers'[w].object = KnownCaptures[workers'[w].capture].object
    <3>1. PICK object : object = KnownCaptures[capture].object  OBVIOUS
    <3>2. workers'[w] = [m EXCEPT !.pc = "reporting", !.outcome = outcome,
                                  !.capture = capture, !.object = object]
      BY <1>1, <1>6, <2>1, <2>5, <3>1
    <3>3. workers'[w].pc = "reporting" /\ workers'[w].capture = capture
          /\ workers'[w].object = object
      BY <2>2, <3>2 DEF Memory
    <3>4. QED BY <3>1, <3>3
  <2>6. QED BY <1>6, <2>3, <2>4, <2>5 DEF FetchEnds
<1>7. ASSUME NEW v \in Workers, StoreCapture(v)
      PROVE  \/ workers'[w] = workers[w] \/ workers'[w] = Idle
             \/ workers'[w].pc = "reporting" /\ workers'[w].capture = None
  <2>1. CASE workers' = [workers EXCEPT ![v] = Idle]  BY <1>1, <2>1
  <2>2. CASE workers' = [workers EXCEPT ![v].pc = "reporting", ![v].outcome = "failed",
                                        ![v].object = None]
    <3>1. CASE v # w  BY <1>1, <2>2, <3>1
    <3>2. CASE v = w
      <4>1. PICK m : m = workers[w]  OBVIOUS
      <4>2. m.capture = None /\ m \in Memory
        BY <1>1, <1>7, <3>2, <4>1 DEF StoreCapture, ReportsKnownCapture
      <4>3. workers'[w] = [m EXCEPT !.pc = "reporting", !.outcome = "failed", !.object = None]
        BY <1>1, <2>2, <3>2, <4>1
      <4>4. QED BY <4>2, <4>3 DEF Memory
    <3>3. QED BY <3>1, <3>2
  <2>3. QED BY <1>7, <2>1, <2>2 DEF StoreCapture
<1>8. ASSUME NEW v \in Workers, CompleteJob(v) \/ WorkerStops(v)
      PROVE  workers'[w] = workers[w] \/ workers'[w] = Idle
  BY <1>1, <1>8 DEF CompleteJob, WorkerStops
<1>9. ASSUME NEW v \in Workers, FetchEnds(v), v # w PROVE workers'[w] = workers[w]
  BY <1>1, <1>9 DEF FetchEnds
<1>10. CASE UNCHANGED workers  BY <1>3, <1>10
<1>11. QED
  BY <1>2, <1>3, <1>4, <1>5, <1>6, <1>7, <1>8, <1>9, <1>10
  DEF Next, vars, SubmitJob, RetryJob, Tick

(* A store or a report that passes the lease check ends the current try; only  *)
(* a store adds a capture, under the number of that try.                    *)
LEMMA SettlingMoves ==
  ASSUME IInv, NEW w \in Workers, StoreCapture(w) \/ CompleteJob(w)
  PROVE  \/ UNCHANGED <<jobs, attempts, captures>>
         \/ \E outcome \in Outcomes \ {"lease_expired"}, capture \in CaptureIds \cup {None} : \E object :
              /\ HoldsLease(w) /\ workers[w].job \in Jobs
              /\ CompleteJobTx(workers[w].job, outcome, capture, object)
              /\ \/ /\ workers[w].pc = "reporting"
                    /\ outcome = workers[w].outcome /\ capture = workers[w].capture
                    /\ object = workers[w].object
                    /\ Admissible(outcome, capture)
                    /\ captures' = captures
                 \/ /\ outcome = "held" /\ object \in Objects
                    /\ capture = <<workers[w].job, jobs[workers[w].job].made>>
                    /\ captures' = captures \cup {[id |-> capture, object |-> object]}
<1>1. CASE StoreCapture(w)
  <2>1. /\ workers[w].job \in Jobs /\ workers[w].attempt \in Nat /\ workers[w].object \in Objects
    BY <1>1 DEF StoreCapture, IInv, TypeOK, Memory, MemoryIsOfAClaim
  <2>2. "held" \in Outcomes \ {"lease_expired"}  BY DEF Outcomes, Settled
  <2>3. PICK id : id = <<workers[w].job, workers[w].attempt>>  OBVIOUS
  <2>4. id \in CaptureIds \cup {None}  BY <2>1, <2>3 DEF CaptureIds
  <2>5. PICK object \in Objects : object = workers[w].object  BY <2>1
  <2>6. \/ UNCHANGED <<jobs, attempts, captures>>
        \/ /\ HoldsLease(w) /\ CompleteJobTx(workers[w].job, "held", id, object)
           /\ captures' = captures \cup {[id |-> id, object |-> object]}
    BY <1>1, <2>3, <2>5 DEF StoreCapture
  <2>7. HoldsLease(w) => id = <<workers[w].job, jobs[workers[w].job].made>>
    BY <2>3 DEF HoldsLease
  <2>8. QED BY <2>1, <2>2, <2>4, <2>6, <2>7
<1>2. CASE CompleteJob(w)
  <2>1. /\ workers[w].pc = "reporting" /\ workers[w].job \in Jobs
        /\ workers[w].outcome \in Outcomes \ {"lease_expired"}
        /\ workers[w].capture \in CaptureIds \cup {None}
    BY <1>2 DEF CompleteJob, IInv, TypeOK, Memory, MemoryIsOfAClaim
  <2>2. captures' = captures  BY <1>2 DEF CompleteJob
  <2>3. \/ UNCHANGED <<jobs, attempts>>
        \/ /\ HoldsLease(w) /\ Admissible(workers[w].outcome, workers[w].capture)
           /\ CompleteJobTx(workers[w].job, workers[w].outcome, workers[w].capture,
                            workers[w].object)
    BY <1>2 DEF CompleteJob
  <2>4. QED BY <2>1, <2>2, <2>3
<1>3. QED BY <1>1, <1>2

(* The id of the running try is not yet taken by any capture.                *)
LEMMA RunningTryStoredNothing ==
  ASSUME IInv, NEW j \in Jobs, jobs[j].state = "running", NEW c \in captures
  PROVE  c.id # <<j, jobs[j].made>>
<1>1. jobs[j].made \in Nat /\ Len(attempts[j]) = jobs[j].made - 1
  BY DEF IInv, TypeOK, Row, HistoryIsExact
<1>2. c.id = <<j, jobs[j].made>> => jobs[j].made \in 1..Len(attempts[j])
  BY DEF IInv, EveryCaptureIsRecorded
<1>3. QED BY <1>1, <1>2

(* What one job's row claims is evidenced.                                  *)
RowEvidenced(row) ==
  /\ row.provenance = "seen_during_research" => ObjectsOf(row.result) = {row.seen}
  /\ row.state = "acquired" =>
       row.result \in DOMAIN KnownCaptures /\ KnownCaptures[row.result].verified

LEMMA ObjectsKept ==
  ASSUME NEW id, NEW new, NEW x, new.id # id \/ id \in DOMAIN KnownCaptures,
         captures' = captures \cup {new}, ObjectsOf(id) = {x}
  PROVE  ObjectsOf(id)' = {x}
BY DEF ObjectsOf

LEMMA EvidenceStep == EvidenceInv /\ [Next]_vars => ClaimsAreEvidenced'
<1> SUFFICES ASSUME EvidenceInv, [Next]_vars, NEW j \in Jobs
             PROVE  RowEvidenced(jobs[j])'
  BY DEF ClaimsAreEvidenced, RowEvidenced
<1>1. IInv /\ jobs \in [Jobs -> Row] /\ jobs[j] \in Row  BY DEF EvidenceInv, IInv, TypeOK
<1>2. RowEvidenced(jobs[j])  BY DEF EvidenceInv, ClaimsAreEvidenced, RowEvidenced
<1>3. ASSUME SameEvidence(jobs'[j], jobs[j]), jobs'[j].state = "acquired" => jobs[j].state = "acquired",
             UNCHANGED captures
      PROVE  RowEvidenced(jobs[j])'
  BY <1>2, <1>3 DEF RowEvidenced, ObjectsOf, SameEvidence
<1>4. ASSUME jobs'[j] = jobs[j], UNCHANGED captures PROVE RowEvidenced(jobs[j])'
  BY <1>3, <1>4 DEF SameEvidence
<1>5. ASSUME NEW w \in Workers, StoreCapture(w) \/ CompleteJob(w) PROVE RowEvidenced(jobs[j])'
  <2>1. CASE UNCHANGED <<jobs, attempts, captures>>  BY <1>4, <2>1
  <2>2. ASSUME NEW outcome \in Outcomes \ {"lease_expired"},
               NEW capture \in CaptureIds \cup {None}, NEW object,
               HoldsLease(w), workers[w].job \in Jobs,
               CompleteJobTx(workers[w].job, outcome, capture, object),
               \/ /\ workers[w].pc = "reporting"
                  /\ outcome = workers[w].outcome /\ capture = workers[w].capture
                  /\ object = workers[w].object
                  /\ Admissible(outcome, capture)
                  /\ captures' = captures
               \/ /\ outcome = "held" /\ object \in Objects
                  /\ capture = <<workers[w].job, jobs[workers[w].job].made>>
                  /\ captures' = captures \cup {[id |-> capture, object |-> object]}
        PROVE  RowEvidenced(jobs[j])'
    <3> DEFINE k == workers[w].job
    <3>1. jobs[k].state = "running"  BY <2>2 DEF HoldsLease
    <3>2. CASE k # j
      <4>1. jobs'[j] = jobs[j]  BY <1>1, <2>2, <3>2 DEF CompleteJobTx
      <4>2. CASE captures' = captures  BY <1>4, <4>1, <4>2
      <4>3. CASE /\ capture = <<k, jobs[k].made>>
                 /\ captures' = captures \cup {[id |-> capture, object |-> object]}
        <5>1. ASSUME jobs[j].provenance = "seen_during_research"
              PROVE  ObjectsOf(jobs[j].result)' = {jobs[j].seen}
          <6>1. ObjectsOf(jobs[j].result) = {jobs[j].seen}  BY <1>2, <5>1 DEF RowEvidenced
          <6>2. jobs[j].result # capture \/ jobs[j].result \in DOMAIN KnownCaptures
            <7>1. SUFFICES ASSUME jobs[j].result = capture,
                                  jobs[j].result \notin DOMAIN KnownCaptures
                           PROVE  FALSE
              OBVIOUS
            <7>2. PICK c \in captures : c.id = capture
              BY <6>1, <7>1 DEF ObjectsOf
            <7>3. QED BY <1>1, <2>2, <3>1, <4>3, <7>2, RunningTryStoredNothing
          <6>3. PICK new : new = [id |-> capture, object |-> object]  OBVIOUS
          <6>4. captures' = captures \cup {new} /\ new.id = capture  BY <4>3, <6>3
          <6>5. PICK id : id = jobs[j].result  OBVIOUS
          <6>6. PICK x : x = jobs[j].seen  OBVIOUS
          <6>7. ObjectsOf(id)' = {x}  BY <6>1, <6>2, <6>4, <6>5, <6>6, ObjectsKept
          <6>8. jobs'[j].result = id  BY <4>1, <6>5
          <6>9. QED BY <4>1, <6>5, <6>6, <6>7, <6>8 DEF ObjectsOf
        <5>2. QED BY <1>2, <4>1, <5>1 DEF RowEvidenced
      <4>4. QED BY <2>2, <4>2, <4>3
    <3>3. CASE k = j
      <4>1. jobs'[j] = Completed(jobs[j], outcome, capture, object)
        BY <1>1, <2>2, <3>3 DEF CompleteJobTx
      <4>2. PICK new : new = jobs'[j]  OBVIOUS
      <4>3. /\ new.state = StateAfter(jobs[j], outcome)
            /\ new.seen = jobs[j].seen
            /\ new.result = IF capture = None THEN jobs[j].result ELSE capture
            /\ new.provenance = ProvenanceOf(jobs[j], capture, object)
        BY <1>1, <4>1, <4>2, CompletedColumns
      <4>4. ASSUME new.provenance = "seen_during_research"
            PROVE  capture # None /\ object = jobs[j].seen
        BY <4>3, <4>4 DEF ProvenanceOf
      <4>5. new.state = "acquired" => outcome = "acquired"
        BY <4>3 DEF StateAfter
      <4>6. CASE /\ workers[w].pc = "reporting" /\ capture = workers[w].capture
                 /\ object = workers[w].object /\ Admissible(outcome, capture)
                 /\ captures' = captures
        <5>1. ASSUME capture # None
              PROVE  capture \in DOMAIN KnownCaptures /\ object = KnownCaptures[capture].object
          BY <4>6, <5>1 DEF EvidenceInv, ReportsKnownCapture
        <5>2. new.provenance = "seen_during_research" => ObjectsOf(new.result)' = {new.seen}
          <6>1. SUFFICES ASSUME new.provenance = "seen_during_research"
                         PROVE  ObjectsOf(new.result)' = {new.seen}
            OBVIOUS
          <6>2. new.result = capture /\ capture \in DOMAIN KnownCaptures
                /\ KnownCaptures[capture].object = new.seen
            BY <4>3, <4>4, <5>1, <6>1
          <6>3. QED BY <6>2 DEF ObjectsOf
        <5>3. new.state = "acquired" =>
                new.result \in DOMAIN KnownCaptures /\ KnownCaptures[new.result].verified
          BY <4>3, <4>5, <4>6, <5>1 DEF Admissible, Stored
        <5>4. QED BY <4>2, <5>2, <5>3 DEF RowEvidenced, ObjectsOf
      <4>7. CASE /\ outcome = "held"
                 /\ capture = <<k, jobs[k].made>>
                 /\ captures' = captures \cup {[id |-> capture, object |-> object]}
        <5>1. capture # None /\ capture \notin DOMAIN KnownCaptures
          BY <1>1, <3>3, <4>7, CaptureAssumption DEF Row
        <5>2. {c.object : c \in {d \in captures' : d.id = capture}} = {object}
          <6>1. \A c \in captures : c.id # capture
            BY <1>1, <2>2, <3>1, <4>7, RunningTryStoredNothing
          <6>2. PICK added : added = [id |-> capture, object |-> object]  OBVIOUS
          <6>3. added.id = capture /\ added.object = object  BY <6>2
          <6>4. {d \in captures' : d.id = capture} = {added}  BY <4>7, <6>1, <6>2, <6>3
          <6>5. QED BY <6>3, <6>4
        <5>3. new.result = capture /\ new.state # "acquired"  BY <4>3, <4>5, <4>7, <5>1
        <5>4. new.provenance = "seen_during_research" => object = new.seen
          BY <4>3, <4>4
        <5>5. QED BY <4>2, <5>1, <5>2, <5>3, <5>4 DEF RowEvidenced, ObjectsOf
      <4>8. QED BY <2>2, <4>6, <4>7
    <3>4. QED BY <3>2, <3>3
  <2>3. QED BY <1>1, <1>5, <2>1, <2>2, SettlingMoves
<1>6. ASSUME NEW w \in Workers, ClaimJob(w) PROVE RowEvidenced(jobs[j])'
  BY <1>1, <1>3, <1>6, ClaimMoves DEF ClaimJob
<1>7. ASSUME NEW k \in Jobs, RetryJob(k) PROVE RowEvidenced(jobs[j])'
  BY <1>1, <1>3, <1>7, RetryMoves DEF RetryJob
<1>8. ASSUME NEW k \in Jobs, NEW seen, NEW budget, SubmitJob(k, seen, budget)
      PROVE  RowEvidenced(jobs[j])'
  <2>1. UNCHANGED captures  BY <1>8 DEF SubmitJob
  <2>2. CASE jobs'[j] = jobs[j]  BY <1>4, <2>1, <2>2
  <2>3. CASE jobs'[j].state = "queued" /\ jobs'[j].provenance = "none"
    BY <2>3 DEF RowEvidenced
  <2>4. QED BY <1>1, <1>8, <2>2, <2>3, SubmitMoves
<1>9. CASE Tick  BY <1>1, <1>3, <1>9, TickMoves DEF Tick
<1>10. CASE UNCHANGED <<jobs, captures>>  BY <1>4, <1>10
<1>11. QED BY <1>5, <1>6, <1>7, <1>8, <1>9, <1>10 DEF Next, FetchEnds, WorkerStops, vars

(* seen_during_research is claimed only where the result holds exactly the     *)
(* bytes the submitter saw, and acquired only for a verified capture: of     *)
(* every job, whichever worker reported it and however late.                *)
THEOREM ClaimsHold == Spec => []ClaimsAreEvidenced
<1>1. Init => EvidenceInv
  <2> SUFFICES ASSUME Init PROVE EvidenceInv  OBVIOUS
  <2>1. NoRow.provenance = "none" /\ NoRow.state = "absent"  BY DEF NoRow
  <2>2. ClaimsAreEvidenced  BY <2>1 DEF Init, ClaimsAreEvidenced
  <2>3. Idle.pc = "idle"  BY DEF Idle
  <2>4. ReportsKnownCapture  BY <2>3 DEF Init, ReportsKnownCapture
  <2>5. QED BY <2>2, <2>4, InitIInv DEF EvidenceInv
<1>2. EvidenceInv /\ [Next]_vars => EvidenceInv'
  BY NextIInv, ReportsKnownStep, EvidenceStep DEF EvidenceInv
<1>3. EvidenceInv => ClaimsAreEvidenced  BY DEF EvidenceInv
<1>4. QED BY <1>1, <1>2, <1>3, PTL DEF Spec

-----------------------------------------------------------------------------
(* What a job returns to its readers.                                       *)

StoredIn(history) == {n \in 1..Len(history) : history[n].capture # None}

IsLastStored(history, result) ==
  IF StoredIn(history) = {} THEN result = None
  ELSE \E n \in StoredIn(history) : /\ \A k \in StoredIn(history) : k <= n
                                    /\ result = history[n].capture

LEMMA LastOfAppended ==
  ASSUME NEW history \in Seq(Attempt), NEW entry \in Attempt, NEW result,
         IsLastStored(history, result)
  PROVE  IsLastStored(Append(history, entry),
                      IF entry.capture = None THEN result ELSE entry.capture)
<1> DEFINE longer == Append(history, entry)
           last   == Len(history) + 1
<1>1. /\ Len(history) \in Nat /\ Len(longer) = last
      /\ longer[last] = entry
      /\ \A n \in 1..Len(history) : longer[n] = history[n]
  OBVIOUS
<1> HIDE DEF longer
<1>2. CASE entry.capture = None
  <2>1. StoredIn(longer) = StoredIn(history)  BY <1>1, <1>2 DEF StoredIn
  <2>2. \A n \in StoredIn(history) : longer[n] = history[n]  BY <1>1 DEF StoredIn
  <2>3. IsLastStored(longer, result)  BY <2>1, <2>2 DEF IsLastStored
  <2>4. QED BY <1>2, <2>3 DEF longer
<1>3. CASE entry.capture # None
  <2>1. last \in StoredIn(longer) /\ \A k \in StoredIn(longer) : k <= last
    BY <1>1, <1>3 DEF StoredIn
  <2>2. IsLastStored(longer, entry.capture)  BY <1>1, <2>1 DEF IsLastStored
  <2>3. QED BY <1>3, <2>2 DEF longer
<1>4. QED BY <1>2, <1>3

ResultInv ==
  \A j \in Jobs : /\ IsLastStored(attempts[j], jobs[j].result)
                  /\ jobs[j].state = "absent" => jobs[j].result = None

LEMMA ResultStep == IInv /\ ResultInv /\ [Next]_vars => ResultInv'
<1> SUFFICES ASSUME IInv, ResultInv, [Next]_vars, NEW j \in Jobs
             PROVE  /\ IsLastStored(attempts'[j], jobs'[j].result)
                    /\ jobs'[j].state = "absent" => jobs'[j].result = None
  BY DEF ResultInv, IsLastStored, StoredIn
<1>1. /\ jobs \in [Jobs -> Row] /\ jobs[j] \in Row /\ attempts[j] \in Seq(Attempt)
      /\ attempts \in [Jobs -> Seq(Attempt)]
  BY DEF IInv, TypeOK
<1>2. /\ IsLastStored(attempts[j], jobs[j].result)
      /\ jobs[j].state = "absent" => jobs[j].result = None
  BY DEF ResultInv
<1>3. CASE jobs'[j] = jobs[j] /\ attempts'[j] = attempts[j]  BY <1>2, <1>3
<1>4. ASSUME NEW w \in Workers, StoreCapture(w) \/ CompleteJob(w)
      PROVE  /\ IsLastStored(attempts'[j], jobs'[j].result)
             /\ jobs'[j].state = "absent" => jobs'[j].result = None
  <2>1. CASE UNCHANGED <<jobs, attempts>>  BY <1>3, <2>1
  <2>2. ASSUME NEW outcome \in Outcomes \ {"lease_expired"},
               NEW capture \in CaptureIds \cup {None}, NEW object,
               workers[w].job \in Jobs, CompleteJobTx(workers[w].job, outcome, capture, object)
        PROVE  /\ IsLastStored(attempts'[j], jobs'[j].result)
               /\ jobs'[j].state = "absent" => jobs'[j].result = None
    <3>1. PICK k \in Jobs : k = workers[w].job  BY <2>2
    <3>2. TryEnds(k, outcome, capture) /\ CompleteJobTx(k, outcome, capture, object)
      BY <2>2, <3>1, CompleteJobTxEndsTry DEF IInv
    <3>3. CASE k # j  BY <1>3, <3>2, <3>3 DEF TryEnds
    <3>4. CASE k = j
      <4>1. PICK entry : entry = [number |-> jobs[j].made, outcome |-> outcome, capture |-> capture]
        OBVIOUS
      <4>2. entry \in Attempt /\ entry.capture = capture
        BY <1>1, <4>1 DEF Attempt, Row
      <4>3. attempts'[j] = Append(attempts[j], entry)  BY <3>2, <3>4, <4>1 DEF TryEnds
      <4>4. PICK new : new = jobs'[j]  OBVIOUS
      <4>5. new = Completed(jobs[j], outcome, capture, object)
        BY <1>1, <3>2, <3>4, <4>4 DEF CompleteJobTx
      <4>6. new.result = IF capture = None THEN jobs[j].result ELSE capture
        BY <1>1, <4>5, CompletedColumns
      <4>7. IsLastStored(attempts'[j], new.result)
        BY <1>1, <1>2, <4>2, <4>3, <4>6, LastOfAppended
      <4>8. new.state # "absent"  BY <3>2, <3>4, <4>4 DEF TryEnds, Settled
      <4>9. QED BY <4>4, <4>7, <4>8
    <3>5. QED BY <3>3, <3>4
  <2>3. QED BY <1>4, <2>1, <2>2, SettlingMoves
<1>5. ASSUME NEW w \in Workers, ClaimJob(w)
      PROVE  /\ IsLastStored(attempts'[j], jobs'[j].result)
             /\ jobs'[j].state = "absent" => jobs'[j].result = None
  <2>1. jobs'[j].result = jobs[j].result  BY <1>5, ClaimMoves DEF SameEvidence
  <2>2. CASE jobs'[j].state \in {jobs[j].state, "running"} /\ attempts'[j] = attempts[j]
    BY <1>2, <2>1, <2>2
  <2>3. CASE /\ jobs'[j].state \in {"failed", "queued"}
             /\ attempts'[j] = Append(attempts[j],
                  [number |-> jobs[j].made, outcome |-> "lease_expired", capture |-> None])
    <3>1. PICK entry : entry = [number |-> jobs[j].made, outcome |-> "lease_expired",
                                capture |-> None]
      OBVIOUS
    <3>2. entry \in Attempt /\ entry.capture = None
      BY <1>1, <3>1 DEF Attempt, Row, Outcomes
    <3>3. IsLastStored(Append(attempts[j], entry), jobs[j].result)
      BY <1>1, <1>2, <3>2, LastOfAppended
    <3>4. QED BY <2>1, <2>3, <3>1, <3>3
  <2>4. QED BY <1>5, <2>2, <2>3, ClaimMoves
<1>6. ASSUME NEW k \in Jobs, RetryJob(k)
      PROVE  /\ IsLastStored(attempts'[j], jobs'[j].result)
             /\ jobs'[j].state = "absent" => jobs'[j].result = None
  <2>1. /\ jobs'[j].result = jobs[j].result /\ attempts'[j] = attempts[j]
        /\ jobs'[j].state \in {jobs[j].state, "queued"}
    BY <1>6, RetryMoves DEF SameEvidence, RetryJob
  <2>2. QED BY <1>2, <2>1
<1>7. ASSUME NEW k \in Jobs, NEW seen, NEW budget, SubmitJob(k, seen, budget)
      PROVE  /\ IsLastStored(attempts'[j], jobs'[j].result)
             /\ jobs'[j].state = "absent" => jobs'[j].result = None
  <2>1. attempts'[j] = attempts[j]  BY <1>7 DEF SubmitJob
  <2>2. CASE k # j
    <3>1. jobs'[j] = jobs[j]  BY <1>1, <1>7, <2>2 DEF SubmitJob
    <3>2. QED BY <1>3, <2>1, <3>1
  <2>3. CASE k = j
    <3>1. PICK new : new = [NoRow EXCEPT !.state = "queued", !.seen = seen, !.budget = budget,
                                         !.max = budget]
      OBVIOUS
    <3>2. jobs'[j] = new /\ jobs[j].state = "absent"  BY <1>1, <1>7, <2>3, <3>1 DEF SubmitJob
    <3>3. new.result = None  BY <3>1 DEF NoRow
    <3>4. QED BY <1>2, <2>1, <3>2, <3>3
  <2>4. QED BY <2>2, <2>3
<1>8. CASE Tick
  <2>1. /\ jobs'[j].result = jobs[j].result /\ jobs'[j].state = jobs[j].state
        /\ attempts'[j] = attempts[j]
    BY <1>8, TickMoves DEF SameEvidence, Tick
  <2>2. QED BY <1>2, <2>1
<1>9. QED
  BY <1>3, <1>4, <1>5, <1>6, <1>7, <1>8 DEF Next, FetchEnds, WorkerStops, vars

(* Readers of a job get the bytes of its last try that stored any: retries,      *)
(* lost leases and later failures neither lose nor replace them.             *)
THEOREM ResultIsKept == Spec => []ResultIsLastStored
<1>1. Init => ResultInv
  <2> SUFFICES ASSUME Init, NEW j \in Jobs
               PROVE  /\ IsLastStored(attempts[j], jobs[j].result)
                      /\ jobs[j].state = "absent" => jobs[j].result = None
    BY DEF ResultInv
  <2>1. jobs[j].result = None /\ attempts[j] = <<>>  BY DEF Init, NoRow
  <2>2. StoredIn(<<>>) = {}  BY DEF StoredIn
  <2>3. QED BY <2>1, <2>2 DEF IsLastStored
<1>2. IInv /\ ResultInv /\ [Next]_vars => ResultInv'  BY ResultStep
<1>3. ResultInv => ResultIsLastStored
  BY DEF ResultInv, ResultIsLastStored, IsLastStored, StoredIn
<1>4. QED BY <1>1, <1>2, <1>3, InvariantHolds, PTL DEF Spec

-----------------------------------------------------------------------------
(* The queue implements the ledger of tries.                                *)

TriesOf(history) == [n \in DOMAIN history |-> history[n].outcome]

PublishedOf(j, stored) == {c.id[2] : c \in {d \in stored : d.id[1] = j}}

(* What a reader of the ledger sees of job j.                                *)
EntryOf(j) ==
  [phase |-> LedgerPhase(jobs[j].state),
   tries |-> TriesOf(attempts[j]),
   published |-> PublishedOf(j, captures)]

LEMMA TriesOfFacts ==
  ASSUME NEW history \in Seq(Attempt)
  PROVE  /\ TriesOf(history) \in Seq(Outcomes)
         /\ Len(TriesOf(history)) = Len(history)
         /\ \A entry \in Attempt :
              TriesOf(Append(history, entry)) = Append(TriesOf(history), entry.outcome)
<1>1. ASSUME NEW n \in 1..Len(history) PROVE history[n].outcome \in Outcomes
  <2>1. history[n] \in Attempt  OBVIOUS
  <2>2. QED BY <2>1 DEF Attempt
<1>2. TriesOf(history) = [n \in 1..Len(history) |-> history[n].outcome]  BY DEF TriesOf
<1>3. TriesOf(history) \in Seq(Outcomes) /\ Len(TriesOf(history)) = Len(history)
  BY <1>1, <1>2
<1>4. ASSUME NEW entry \in Attempt
      PROVE  TriesOf(Append(history, entry)) = Append(TriesOf(history), entry.outcome)
  <2>1. entry.outcome \in Outcomes  BY DEF Attempt
  <2>2. Append(history, entry) \in Seq(Attempt) /\ Len(Append(history, entry)) = Len(history) + 1
    OBVIOUS
  <2>3. TriesOf(Append(history, entry)) =
          [n \in 1..(Len(history) + 1) |-> Append(history, entry)[n].outcome]
    BY <2>2 DEF TriesOf
  <2>4. Append(TriesOf(history), entry.outcome) \in Seq(Outcomes)
        /\ Len(Append(TriesOf(history), entry.outcome)) = Len(history) + 1
    BY <1>3, <2>1
  <2>5. ASSUME NEW n \in 1..(Len(history) + 1)
        PROVE  Append(history, entry)[n].outcome = Append(TriesOf(history), entry.outcome)[n]
    <3>1. CASE n = Len(history) + 1  BY <1>3, <3>1
    <3>2. CASE n \in 1..Len(history)
      <4>1. Append(history, entry)[n] = history[n]  BY <3>2
      <4>2. Append(TriesOf(history), entry.outcome)[n] = TriesOf(history)[n]
        BY <1>3, <2>1, <3>2
      <4>3. TriesOf(history)[n] = history[n].outcome  BY <1>2, <3>2
      <4>4. QED BY <4>1, <4>2, <4>3
    <3>3. Len(history) \in Nat  OBVIOUS
    <3>4. n = Len(history) + 1 \/ n \in 1..Len(history)  BY <3>3
    <3>5. QED BY <3>1, <3>2, <3>4
  <2>6. Append(TriesOf(history), entry.outcome) =
          [n \in 1..(Len(history) + 1) |-> Append(TriesOf(history), entry.outcome)[n]]
    BY <2>4
  <2>7. QED BY <2>3, <2>5, <2>6
<1>5. QED BY <1>3, <1>4

LEMMA PhaseType == ASSUME NEW state \in JobStates PROVE LedgerPhase(state) \in Ledger!Phases
BY DEF JobStates, Settled, LedgerPhase, Ledger!Phases

LEMMA SameOutcomes == Ledger!Outcomes = Outcomes
BY DEF Ledger!Outcomes, Outcomes, Settled

LEMMA EntryType ==
  ASSUME NEW j \in Jobs
  PROVE  /\ TypeOK => EntryOf(j) \in Ledger!Entry
         /\ TypeOK' => EntryOf(j)' \in Ledger!Entry
<1>1. ASSUME NEW row \in Row, NEW history \in Seq(Attempt),
             NEW stored \in SUBSET [id : Jobs \X Nat, object : Objects]
      PROVE  [phase |-> LedgerPhase(row.state), tries |-> TriesOf(history),
              published |-> PublishedOf(j, stored)] \in Ledger!Entry
  <2>1. PICK phase : phase = LedgerPhase(row.state)  OBVIOUS
  <2>2. phase \in Ledger!Phases  BY <2>1, PhaseType DEF Row
  <2>3. TriesOf(history) \in Seq(Ledger!Outcomes)  BY TriesOfFacts, SameOutcomes
  <2>4. PublishedOf(j, stored) \in SUBSET Nat  BY DEF PublishedOf
  <2>5. QED BY <2>1, <2>2, <2>3, <2>4 DEF Ledger!Entry
<1>2. TypeOK => EntryOf(j) \in Ledger!Entry  BY <1>1 DEF EntryOf, TypeOK
<1>3. TypeOK' => EntryOf(j)' \in Ledger!Entry  BY <1>1 DEF EntryOf, TypeOK
<1>4. QED BY <1>2, <1>3

(* A try that ends moves its job by one Settles step of the ledger.           *)
LEMMA SettlesStep ==
  ASSUME NEW l \in Ledger!Entry, NEW m \in Ledger!Entry, l.phase = "open",
         NEW outcome \in Outcomes,
         m.tries = Append(l.tries, outcome), m.phase \in Ledger!PhasesAfter(outcome),
         \/ m.published = l.published
         \/ outcome = "held" /\ m.published = l.published \cup {Len(m.tries)}
  PROVE  Ledger!JobStep(l, m)
BY SameOutcomes DEF Ledger!JobStep, Ledger!Settles

LEMMA PhaseAfterCompletion ==
  ASSUME NEW row, NEW outcome \in Outcomes \ {"lease_expired"}
  PROVE  LedgerPhase(StateAfter(row, outcome)) \in Ledger!PhasesAfter(outcome)
BY DEF Outcomes, Settled, StateAfter, LedgerPhase, Ledger!PhasesAfter

(* A step that moves only the phase.                                        *)
LEMMA PhaseOnly ==
  ASSUME NEW j \in Jobs, attempts'[j] = attempts[j], UNCHANGED captures
  PROVE  EntryOf(j)' = [EntryOf(j) EXCEPT !.phase = LedgerPhase(jobs'[j].state)]
BY DEF EntryOf

LEMMA EntryStep ==
  ASSUME IInv, IInv', [Next]_vars, NEW j \in Jobs
  PROVE  EntryOf(j)' = EntryOf(j) \/ Ledger!JobStep(EntryOf(j), EntryOf(j)')
<1> USE DEF EntryOf
<1>1. EntryOf(j) \in Ledger!Entry /\ EntryOf(j)' \in Ledger!Entry
  BY EntryType DEF IInv
<1>2. ASSUME jobs'[j].state = jobs[j].state, attempts'[j] = attempts[j], UNCHANGED captures
      PROVE  EntryOf(j)' = EntryOf(j)
  BY <1>2
<1>3. ASSUME NEW w \in Workers, ClaimJob(w)
      PROVE  EntryOf(j)' = EntryOf(j) \/ Ledger!JobStep(EntryOf(j), EntryOf(j)')
  <2>1. UNCHANGED captures  BY <1>3 DEF ClaimJob
  <2>2. CASE jobs'[j].state = jobs[j].state /\ attempts'[j] = attempts[j]
    BY <1>2, <2>1, <2>2
  <2>3. CASE /\ jobs[j].state = "queued" /\ jobs'[j].state = "running"
             /\ attempts'[j] = attempts[j]
    <3>1. EntryOf(j).phase = "waiting"  BY <2>3 DEF LedgerPhase
    <3>2. EntryOf(j)' = [EntryOf(j) EXCEPT !.phase = "open"]
      BY <2>1, <2>3, PhaseOnly DEF LedgerPhase
    <3>3. QED BY <3>1, <3>2 DEF Ledger!JobStep, Ledger!Opens
  <2>4. CASE /\ jobs[j].state = "running" /\ jobs'[j].state \in {"failed", "queued"}
             /\ attempts'[j] = Append(attempts[j], [number |-> jobs[j].made,
                                  outcome |-> "lease_expired", capture |-> None])
    <3>1. PICK entry : entry = [number |-> jobs[j].made, outcome |-> "lease_expired",
                                capture |-> None]
      OBVIOUS
    <3>2. entry \in Attempt /\ entry.outcome = "lease_expired"
      BY <3>1 DEF Attempt, Outcomes, IInv, TypeOK, Row
    <3>3. attempts[j] \in Seq(Attempt)  BY DEF IInv, TypeOK
    <3>4. EntryOf(j)'.tries = Append(EntryOf(j).tries, "lease_expired")
      BY <2>4, <3>1, <3>2, <3>3, TriesOfFacts
    <3>5. EntryOf(j).phase = "open"  BY <2>4 DEF LedgerPhase
    <3>6. EntryOf(j)'.phase \in Ledger!PhasesAfter("lease_expired")
      BY <2>4 DEF LedgerPhase, Ledger!PhasesAfter
    <3>7. EntryOf(j)'.published = EntryOf(j).published  BY <2>1
    <3>8. "lease_expired" \in Outcomes  BY DEF Outcomes
    <3>9. QED BY <1>1, <3>4, <3>5, <3>6, <3>7, <3>8, SettlesStep
  <2>5. QED BY <1>3, <2>2, <2>3, <2>4, ClaimMoves
<1>4. ASSUME NEW w \in Workers, StoreCapture(w) \/ CompleteJob(w)
      PROVE  EntryOf(j)' = EntryOf(j) \/ Ledger!JobStep(EntryOf(j), EntryOf(j)')
  <2>1. CASE UNCHANGED <<jobs, attempts, captures>>  BY <1>2, <2>1
  <2>2. ASSUME NEW outcome \in Outcomes \ {"lease_expired"},
               NEW capture \in CaptureIds \cup {None}, NEW object, NEW k \in Jobs,
               jobs[k].state = "running",
               CompleteJobTx(k, outcome, capture, object),
               \/ captures' = captures
               \/ /\ outcome = "held"
                  /\ capture = <<k, jobs[k].made>>
                  /\ captures' = captures \cup {[id |-> capture, object |-> object]}
        PROVE  EntryOf(j)' = EntryOf(j) \/ Ledger!JobStep(EntryOf(j), EntryOf(j)')
    <3>1. /\ jobs[k] \in Row /\ jobs[k].made \in Nat /\ jobs \in [Jobs -> Row]
          /\ attempts[k] \in Seq(Attempt) /\ attempts \in [Jobs -> Seq(Attempt)]
          /\ Len(attempts[k]) = jobs[k].made - 1
      BY <2>2 DEF IInv, TypeOK, Row, HistoryIsExact
    <3>2. PICK new : new = [id |-> capture, object |-> object]  OBVIOUS
    <3>3. capture = <<k, jobs[k].made>> => new.id[1] = k /\ new.id[2] = jobs[k].made
      BY <3>2
    <3>4. CASE k # j
      <4>1. jobs'[j] = jobs[j] /\ attempts'[j] = attempts[j]
        BY <2>2, <3>1, <3>4 DEF CompleteJobTx
      <4>2. PublishedOf(j, captures') = PublishedOf(j, captures)
        BY <2>2, <3>2, <3>3, <3>4 DEF PublishedOf
      <4>3. QED BY <4>1, <4>2
    <3>5. CASE k = j
      <4>1. PICK entry : entry = [number |-> jobs[j].made, outcome |-> outcome,
                                  capture |-> capture]
        OBVIOUS
      <4>2. entry \in Attempt /\ entry.outcome = outcome
        BY <3>1, <3>5, <4>1 DEF Attempt
      <4>3. attempts'[j] = Append(attempts[j], entry)
        BY <2>2, <3>1, <3>5, <4>1 DEF CompleteJobTx
      <4>4. EntryOf(j)'.tries = Append(EntryOf(j).tries, outcome)
        BY <3>1, <3>5, <4>2, <4>3, TriesOfFacts
      <4>5. Len(EntryOf(j)'.tries) = jobs[j].made
        <5>1. attempts'[j] \in Seq(Attempt) /\ Len(attempts'[j]) = jobs[j].made
          BY <3>1, <3>5, <4>2, <4>3
        <5>2. QED BY <5>1, TriesOfFacts
      <4>6. EntryOf(j).phase = "open"  BY <2>2, <3>5 DEF LedgerPhase
      <4>7. EntryOf(j)'.phase \in Ledger!PhasesAfter(outcome)
        <5>1. jobs'[j] = Completed(jobs[j], outcome, capture, object)
          BY <2>2, <3>1, <3>5 DEF CompleteJobTx
        <5>2. jobs'[j].state = StateAfter(jobs[j], outcome)
          BY <3>1, <3>5, <5>1, CompletedColumns
        <5>3. QED BY <5>2, PhaseAfterCompletion
      <4>8. \/ EntryOf(j)'.published = EntryOf(j).published
            \/ /\ outcome = "held"
               /\ EntryOf(j)'.published = EntryOf(j).published \cup {Len(EntryOf(j)'.tries)}
        <5>1. CASE captures' = captures  BY <5>1
        <5>2. CASE /\ outcome = "held" /\ capture = <<k, jobs[k].made>>
                   /\ captures' = captures \cup {new}
          <6>1. PublishedOf(j, captures') = PublishedOf(j, captures) \cup {jobs[j].made}
            BY <3>3, <3>5, <5>2 DEF PublishedOf
          <6>2. QED BY <4>5, <5>2, <6>1
        <5>3. QED BY <2>2, <3>2, <5>1, <5>2
      <4>9. QED BY <1>1, <4>4, <4>6, <4>7, <4>8, SettlesStep
    <3>6. QED BY <3>4, <3>5
  <2>3. HoldsLease(w) => jobs[workers[w].job].state = "running"  BY DEF HoldsLease
  <2>4. QED BY <1>4, <2>1, <2>2, <2>3, SettlingMoves
<1>5. ASSUME NEW k \in Jobs, RetryJob(k)
      PROVE  EntryOf(j)' = EntryOf(j) \/ Ledger!JobStep(EntryOf(j), EntryOf(j)')
  <2>1. UNCHANGED <<attempts, captures>>  BY <1>5 DEF RetryJob
  <2>2. CASE jobs'[j].state = jobs[j].state  BY <1>2, <2>1, <2>2
  <2>3. CASE /\ jobs[j].state \in {"failed", "human_action_required", "held"}
             /\ jobs'[j].state = "queued"
    <3>1. EntryOf(j).phase = "finished"  BY <2>3 DEF LedgerPhase
    <3>2. EntryOf(j)' = [EntryOf(j) EXCEPT !.phase = "waiting"]
      BY <2>1, <2>3, PhaseOnly DEF LedgerPhase
    <3>3. QED BY <3>1, <3>2 DEF Ledger!JobStep, Ledger!Reopens
  <2>4. QED BY <1>5, <2>2, <2>3, RetryMoves
<1>6. ASSUME NEW k \in Jobs, NEW seen, NEW budget, SubmitJob(k, seen, budget)
      PROVE  EntryOf(j)' = EntryOf(j) \/ Ledger!JobStep(EntryOf(j), EntryOf(j)')
  <2>1. UNCHANGED <<attempts, captures>>  BY <1>6 DEF SubmitJob
  <2>2. CASE jobs'[j] = jobs[j]  BY <1>2, <2>1, <2>2
  <2>3. CASE jobs[j].state = "absent" /\ jobs'[j].state = "queued"
    <3>1. EntryOf(j).phase = "none"  BY <2>3 DEF LedgerPhase
    <3>2. EntryOf(j)' = [EntryOf(j) EXCEPT !.phase = "waiting"]
      BY <2>1, <2>3, PhaseOnly DEF LedgerPhase
    <3>3. QED BY <3>1, <3>2 DEF Ledger!JobStep, Ledger!Submits
  <2>4. QED BY <1>6, <2>2, <2>3, SubmitMoves
<1>7. CASE Tick  BY <1>2, <1>7, TickMoves DEF Tick
<1>8. CASE UNCHANGED <<jobs, attempts, captures>>  BY <1>2, <1>8
<1>9. QED BY <1>3, <1>4, <1>5, <1>6, <1>7, <1>8 DEF Next, FetchEnds, WorkerStops, vars

(* The queue implements TryLedger: leases, clocks, stale and stopped workers   *)
(* never show, each job moves by one step of its own, and every try that was *)
(* opened is settled once, in order, with its bytes published in that step. *)
THEOREM QueueRefinesLedger == Spec => RefinesTryLedger
<1> DEFINE shown == [j \in Jobs |->
             [phase |-> LedgerPhase(jobs[j].state),
              tries |-> [n \in DOMAIN attempts[j] |-> attempts[j][n].outcome],
              published |-> {c.id[2] : c \in {d \in captures : d.id[1] = j}}]]
<1>1. shown = [j \in Jobs |-> EntryOf(j)]  BY DEF EntryOf, TriesOf, PublishedOf
<1>2. Init => Ledger!Init
  <2> SUFFICES ASSUME Init, NEW j \in Jobs PROVE shown[j] = Ledger!Empty
    BY DEF Ledger!Init
  <2>1. jobs[j].state = "absent" /\ attempts[j] = <<>> /\ captures = {}
    BY DEF Init, NoRow
  <2>2. LedgerPhase(jobs[j].state) = "none"  BY <2>1 DEF LedgerPhase
  <2>3. TriesOf(attempts[j]) = <<>>  BY <2>1 DEF TriesOf
  <2>4. PublishedOf(j, captures) = {}  BY <2>1 DEF PublishedOf
  <2>5. QED BY <1>1, <2>2, <2>3, <2>4 DEF EntryOf, Ledger!Empty
<1>3. IInv /\ IInv' /\ [Next]_vars => [Ledger!Next]_shown
  <2> SUFFICES ASSUME IInv, IInv', [Next]_vars PROVE Ledger!Next
    OBVIOUS
  <2>1. shown' = [j \in Jobs |-> EntryOf(j)']  BY <1>1 DEF EntryOf, TriesOf, PublishedOf
  <2>2. \A j \in Jobs : EntryOf(j)' \in Ledger!Entry  BY EntryType DEF IInv
  <2>3. shown' \in [Jobs -> Ledger!Entry]  BY <2>1, <2>2
  <2>4. \A j \in Jobs : shown'[j] = shown[j] \/ Ledger!JobStep(shown[j], shown'[j])
    BY <1>1, <2>1, EntryStep
  <2>5. QED BY <2>3, <2>4 DEF Ledger!Next
<1>4. QED BY <1>2, <1>3, InvariantHolds, PTL DEF Spec, RefinesTryLedger, Ledger!Spec
-----------------------------------------------------------------------------
(* The trial service. Its queue is a JobQueue, so what was proved holds of it  *)
(* too; the limits follow from the claim lock.                               *)

TrialSafety == TrialInit /\ [][TrialNext]_trialVars

CountType ==
  LET tries == SUBSET (Jobs \X Nat)
  IN  [hour : tries, day : tries, soon : tries, hourFound : tries, dayFound : tries]

(* The variables of the service have their types; every try has its start.   *)
TrialShape ==
  /\ created \in [Jobs -> 0..(Day + 1)]
  /\ started \in [Jobs -> Seq(0..(Day + 1))]
  /\ \A j \in Jobs : Len(started[j]) = jobs[j].made
  /\ paused \in BOOLEAN
  /\ lock \in Processes \cup {None}
  /\ at \in [Processes -> Places]
  /\ count \in CountType
  /\ late \in Nat

(* A process is past ClaimLock exactly while it holds the lock.              *)
LockIsExclusive == \A p \in Processes : at[p] \in UnderLock <=> lock = p

(* A worker in a pass of the loop has no try in its hands.                   *)
PassingIsIdle == \A w \in Workers : at[w] # "out" => workers[w].pc = "idle"

(* One more request keeps the limits and the overshoot.                      *)
HasSlot ==
  /\ Cardinality(Fetches(Hour)) < MaxFetchesHour + Overshoot
  /\ Cardinality(Fetches(Day)) < MaxFetchesDay + Overshoot
  /\ Cardinality(Fetches(MinInterval - 1)) < 1 + Overshoot

(* Tries that neither query of a count finds, if the second one runs now.    *)
Overlooked(tries, found) == tries \ (found \cup Running)

Busy == {w \in Workers : workers[w].pc # "idle"}

(* Each try that was overlooked has been ended by a worker that was busy and  *)
(* is not any more, and it cannot claim another: the lock is held.          *)
FewOverlooked(tries, found) ==
  Cardinality(Overlooked(tries, found)) + Cardinality(Busy) <= Overshoot

(* A count holds the tries of its windows and misses few of them.            *)
CountIsSound(place) ==
  /\ Fetches(Hour) \subseteq count.hour /\ Fetches(Day) \subseteq count.day
  /\ Fetches(MinInterval - 1) \subseteq count.soon
  /\ count.hour \subseteq Tries /\ count.hourFound \subseteq count.hour
  /\ count.day \subseteq Tries /\ count.dayFound \subseteq count.day
  /\ count.soon \subseteq count.day
  /\ place = "hourRunning" => FewOverlooked(count.hour, count.hourFound)
  /\ place # "hourRunning" => Cardinality(count.hour \ count.hourFound) <= Overshoot
  /\ place = "dayRunning" => FewOverlooked(count.day, count.dayFound)

CountsAreSound == \A w \in Workers : at[w] \in Counting => CountIsSound(at[w])

(* What a process under the lock was allowed is still within the limits.     *)
AllowedIsWithin ==
  /\ \A w \in Workers : at[w] = "allowed" => HasSlot
  /\ \A s \in Submitters : at[s] = "allowed" => WithinQuota

(* Past the check for the pause file.                                        *)
Passed == Counting \cup {"allowed"}

(* After the one late claim nobody is left that looked before the pause.     *)
LatePause ==
  /\ late \in {0, 1}
  /\ late = 1 => paused /\ \A w \in Workers : at[w] \notin Passed

TrialInv ==
  /\ TrialShape
  /\ LockIsExclusive
  /\ PassingIsIdle
  /\ CountsAreSound
  /\ AllowedIsWithin
  /\ LatePause
  /\ RequestsWithinBudget
  /\ SubmissionsWithinQuota

-----------------------------------------------------------------------------
(* The trial runs a JobQueue.                                               *)

LEMMA StepsOfTheQueue == [TrialNext]_trialVars => [Next]_vars
<1> SUFFICES ASSUME [TrialNext]_trialVars PROVE [Next]_vars  OBVIOUS
<1>1. ASSUME NEW w \in Workers, LoopStep(w) PROVE [Next]_vars
  <2>1. CASE Refuse(w)
    <3>1. FetchEnds(w)
      <4>1. \E outcome \in {"retry", "failed", "human_action_required"} :
              workers' = [workers EXCEPT ![w].pc = "reporting", ![w].outcome = outcome]
        BY <2>1 DEF Refuse
      <4>2. QED BY <2>1, <4>1 DEF Refuse, FetchEnds
    <3>2. QED BY <3>1 DEF Next
  <2>2. CASE Fetch(w)  BY <2>2 DEF Fetch, Next
  <2>3. CASE ClaimWithinBudget(w)  BY <2>3 DEF ClaimWithinBudget, Next
  <2>4. QED BY <1>1, <2>1, <2>2, <2>3 
     DEF LoopStep, Pass, ClaimLock, BudgetStep, BeginBudget, CountHour, BeginDay, CountDay
<1>2. ASSUME NEW s \in Submitters, BeginSubmit(s) \/ SubmitStep(s) PROVE [Next]_vars
  <2>1. CASE Submit(s)
    <3>1. \/ \E j \in Jobs, budget \in Budgets : SubmitJob(j, None, budget)
          \/ UNCHANGED vars
      BY <2>1 DEF Submit
    <3>2. QED BY <3>1 DEF Next
  <2>2. QED BY <1>2, <2>1 DEF BeginSubmit, SubmitStep, ClaimLock, CheckQuota
<1>3. ASSUME NEW w \in Workers, KillInDownload(w) PROVE [Next]_vars
  BY <1>3 DEF KillInDownload, Next
<1>4. CASE TrialTick  BY <1>4 DEF TrialTick, Next
<1>5. CASE SetPaused \/ \E p \in Processes : KillUnderLock(p)
  BY <1>5 DEF SetPaused, KillUnderLock
<1>6. CASE UNCHANGED trialVars  BY <1>6 DEF trialVars
<1>7. QED BY <1>1, <1>2, <1>3, <1>4, <1>5, <1>6 DEF TrialNext

(* Whatever the service does, its table of jobs behaves as the queue: refusing *)
(* a claimed job is a download that fails, all else is a step of it or none. *)
THEOREM TrialIsQueue == TrialSafety => Spec
<1>1. TrialInit => Init  BY DEF TrialInit
<1>2. QED BY <1>1, StepsOfTheQueue, PTL DEF TrialSafety, Spec

(* So the history of a trial is exact, no try is held twice and no job is      *)
(* tried beyond its budget, with two processes under one name too.          *)
THEOREM TrialQueueSound == TrialSafety => [](HistoryIsExact /\ TryHeldOnce /\ WithinBudget)
<1>1. IInv => HistoryIsExact /\ TryHeldOnce /\ WithinBudget  BY DEF IInv
<1>2. QED BY <1>1, TrialIsQueue, InvariantHolds, PTL

-----------------------------------------------------------------------------
(* What the steps of the queue do to the columns the limits count.          *)

(* No step but a submission makes a job active or known.                     *)
NothingAdded ==
  \A j \in Jobs : /\ jobs'[j].state \in {"queued", "running"} => jobs[j].state \in {"queued", "running"}
                  /\ jobs'[j].state # "absent" => jobs[j].state # "absent"

MadeKept == \A j \in Jobs : jobs'[j].made = jobs[j].made

LEMMA ClaimAddsNothing ==
  ASSUME IInv, NEW w \in Workers, ClaimJob(w)
  PROVE  NothingAdded
BY ClaimMoves DEF NothingAdded

LEMMA TickAddsNothing ==
  ASSUME IInv, Tick
  PROVE  NothingAdded /\ MadeKept
<1>1. \A j \in Jobs : jobs[j] \in Row  BY DEF IInv, TypeOK
<1>2. QED BY <1>1, TickKeepsState DEF NothingAdded, MadeKept

(* A claim counts one try of the job it leases, or of none.                  *)
LEMMA ClaimCounts ==
  ASSUME IInv, NEW w \in Workers, ClaimJob(w)
  PROVE  \/ ~Claims(w) /\ MadeKept
         \/ /\ Claims(w) /\ workers'[w].job \in Jobs
            /\ \A j \in Jobs : jobs'[j].made = IF j = workers'[w].job THEN jobs[j].made + 1
                                               ELSE jobs[j].made
<1> DEFINE rows == AfterReclaim(WorkerExecutor[w])
           due == Due(rows, WorkerExecutor[w])
<1> HIDE DEF rows, due
<1>1. rows \in [Jobs -> Row] /\ \A j \in Jobs : rows[j].made = jobs[j].made
  BY AfterReclaimFacts DEF IInv, rows
<1>2. workers[w].pc = "idle"  BY DEF ClaimJob
<1>3. CASE jobs' = rows /\ UNCHANGED workers
  BY <1>1, <1>2, <1>3 DEF Claims, MadeKept
<1>4. ASSUME NEW k \in due,
             jobs' = [rows EXCEPT ![k] = [rows[k] EXCEPT
               !.state = "running", !.made = @ + 1, !.owner = OwnerOf[w], !.lease = Lease]],
             workers' = [workers EXCEPT ![w] = [Idle EXCEPT
               !.pc = "fetching", !.job = k, !.attempt = rows[k].made + 1]]
      PROVE  /\ Claims(w) /\ workers'[w].job = k /\ k \in Jobs
             /\ \A j \in Jobs : jobs'[j].made = IF j = k THEN jobs[j].made + 1 ELSE jobs[j].made
  <2>1. k \in Jobs  BY DEF due, Due
  <2>2. PICK row : row = rows[k]  OBVIOUS
  <2>3. PICK new : new = [row EXCEPT !.state = "running", !.made = row.made + 1,
                                     !.owner = OwnerOf[w], !.lease = Lease]
    OBVIOUS
  <2>4. row \in Row /\ row.made = jobs[k].made  BY <1>1, <2>1, <2>2
  <2>5. new.made = jobs[k].made + 1  BY <2>3, <2>4 DEF Row
  <2>6. jobs' = [rows EXCEPT ![k] = new]  BY <1>4, <2>2, <2>3
  <2>7. \A j \in Jobs : jobs'[j].made = IF j = k THEN jobs[j].made + 1 ELSE jobs[j].made
    BY <1>1, <2>1, <2>5, <2>6
  <2>8. PICK a : a = rows[k].made + 1  OBVIOUS
  <2>9. PICK memory : memory = [Idle EXCEPT !.pc = "fetching", !.job = k, !.attempt = a]
    OBVIOUS
  <2>10. memory.pc = "fetching" /\ memory.job = k  BY <2>9 DEF Idle
  <2>11. workers'[w] = memory  BY <1>4, <2>8, <2>9 DEF IInv, TypeOK
  <2>12. QED BY <2>1, <2>7, <2>10, <2>11 DEF Claims
<1>5. QED BY <1>3, <1>4 DEF ClaimJob, rows, due

-----------------------------------------------------------------------------
(* Counting.                                                                *)

LEMMA Sizes ==
  ASSUME NEW S, IsFiniteSet(S), NEW T
  PROVE  /\ Cardinality(S) \in Nat
         /\ T \subseteq S => IsFiniteSet(T) /\ Cardinality(T) \in Nat
                             /\ Cardinality(T) <= Cardinality(S)
         /\ \A x : T \subseteq S \cup {x} => /\ IsFiniteSet(T) /\ Cardinality(T) \in Nat
                                             /\ Cardinality(T) <= Cardinality(S) + 1
<1>1. Cardinality(S) \in Nat  BY FS_CardinalityType
<1>2. ASSUME T \subseteq S
      PROVE  IsFiniteSet(T) /\ Cardinality(T) \in Nat /\ Cardinality(T) <= Cardinality(S)
  BY <1>2, FS_Subset, FS_CardinalityType
<1>3. ASSUME NEW x, T \subseteq S \cup {x}
      PROVE  /\ IsFiniteSet(T) /\ Cardinality(T) \in Nat
             /\ Cardinality(T) <= Cardinality(S) + 1
  <2>1. IsFiniteSet(S \cup {x}) /\ Cardinality(S \cup {x}) <= Cardinality(S) + 1
    BY <1>1, FS_AddElement
  <2>2. Cardinality(S \cup {x}) \in Nat  BY <2>1, FS_CardinalityType
  <2>3. IsFiniteSet(T) /\ Cardinality(T) <= Cardinality(S \cup {x})
    BY <1>3, <2>1, FS_Subset
  <2>4. Cardinality(T) \in Nat  BY <2>3, FS_CardinalityType
  <2>5. QED BY <1>1, <2>1, <2>2, <2>3, <2>4
<1>4. QED BY <1>1, <1>2, <1>3

LEMMA LimitsAreNumbers ==
  /\ MaxQueued \in Nat \ {0} /\ MaxSubmitsPerDay \in Nat \ {0}
  /\ MaxFetchesHour \in Nat \ {0} /\ MaxFetchesDay \in Nat \ {0}
  /\ MinInterval \in Nat \ {0} /\ Hour \in Nat \ {0} /\ Day \in Nat \ {0} /\ Hour <= Day
<1>1. DOMAIN Limits = 1..7  BY DEF Limits
<1>2. \A i \in 1..7 : Limits[i] \in Nat \ {0}  BY <1>1, TrialAssumption
<1>3. /\ Limits[1] \in Nat \ {0} /\ Limits[2] \in Nat \ {0} /\ Limits[3] \in Nat \ {0}
      /\ Limits[4] \in Nat \ {0} /\ Limits[5] \in Nat \ {0} /\ Limits[6] \in Nat \ {0}
      /\ Limits[7] \in Nat \ {0}
  BY <1>2
<1>4. QED BY <1>3, TrialAssumption DEF Limits

LEMMA AgesOf ==
  ASSUME NEW S, NEW s \in Seq(S)
  PROVE  /\ Len(s) \in Nat /\ DOMAIN s = 1..Len(s)
         /\ \A n \in DOMAIN s : s[n] \in S
OBVIOUS

LEMMA AsSequence ==
  ASSUME NEW S, NEW n \in Nat, NEW s \in [1..n -> S]
  PROVE  s \in Seq(S) /\ Len(s) = n
OBVIOUS

LEMMA FiniteTables ==
  /\ \A window : Created(window) \subseteq Jobs /\ IsFiniteSet(Created(window))
  /\ Active \subseteq Jobs /\ IsFiniteSet(Active)
<1>1. IsFiniteSet(Jobs)  BY TrialAssumption
<1>2. Active \subseteq Jobs /\ \A window : Created(window) \subseteq Jobs  BY DEF Active, Created
<1>3. QED BY <1>1, <1>2, FS_Subset

LEMMA FiniteTries ==
  ASSUME TrialShape
  PROVE  /\ IsFiniteSet(Tries) /\ Tries \subseteq Jobs \X Nat
         /\ \A window : Fetches(window) \subseteq Tries /\ IsFiniteSet(Fetches(window))
<1> DEFINE of == [j \in Jobs |-> {j} \X DOMAIN started[j]]
           pairs == {{j} \X DOMAIN started[j] : j \in Jobs}
<1>1. ASSUME NEW j \in Jobs
      PROVE  IsFiniteSet({j} \X DOMAIN started[j]) /\ DOMAIN started[j] \subseteq Nat
  <2>0. started[j] \in Seq(0..(Day + 1))  BY <1>1 DEF TrialShape
  <2>1. PICK len \in Nat : DOMAIN started[j] = 1..len  BY <2>0, AgesOf
  <2>2. IsFiniteSet(DOMAIN started[j])
    <3>1. IsFiniteSet(1..len)  BY FS_Interval
    <3>2. QED BY <2>1, <3>1, Zenon
  <2>3. IsFiniteSet({j})  BY FS_Singleton
  <2>4. IsFiniteSet({j} \X DOMAIN started[j])  BY <2>2, <2>3, FS_Product
  <2>5. DOMAIN started[j] \subseteq Nat  BY <2>1
  <2>6. QED BY <2>4, <2>5
<1>2. of \in Surjection(Jobs, pairs)  BY DEF Surjection
<1>3. IsFiniteSet(Jobs)  BY TrialAssumption
<1>4. IsFiniteSet(pairs)  BY <1>2, <1>3, FS_Surjection
<1>5. IsFiniteSet(UNION pairs)  BY <1>1, <1>4, FS_UNION
<1>6. IsFiniteSet(Tries) /\ Tries \subseteq Jobs \X Nat
  <2>1. Tries = UNION pairs  BY DEF Tries
  <2>2. \A j \in Jobs : DOMAIN started[j] \subseteq Nat  BY <1>1
  <2>3. Tries \subseteq Jobs \X Nat  BY <2>2 DEF Tries
  <2>4. QED BY <1>5, <2>1, <2>3
<1>7. \A window : Fetches(window) \subseteq Tries  BY DEF Fetches
<1>8. QED BY <1>6, <1>7, FS_Subset

LEMMA Cover ==
  ASSUME NEW A, NEW B, IsFiniteSet(A), IsFiniteSet(B), NEW S, S \subseteq A \cup B
  PROVE  Cardinality(S) \in Nat /\ Cardinality(S) <= Cardinality(A) + Cardinality(B)
<1>1. /\ IsFiniteSet(A \cup B)
      /\ Cardinality(A \cup B) = Cardinality(A) + Cardinality(B) - Cardinality(A \cap B)
  BY FS_Union
<1>2. IsFiniteSet(A \cap B)  BY FS_Subset
<1>3. /\ Cardinality(A) \in Nat /\ Cardinality(B) \in Nat /\ Cardinality(A \cap B) \in Nat
      /\ Cardinality(A \cup B) \in Nat
  BY <1>1, <1>2, FS_CardinalityType
<1>4. Cardinality(S) \in Nat /\ Cardinality(S) <= Cardinality(A \cup B)  BY <1>1, Sizes
<1>5. QED BY <1>1, <1>3, <1>4

LEMMA Workforce ==
  /\ Overshoot \in Int /\ Overshoot >= 0 - 1
  /\ IsFiniteSet(Busy) /\ Busy \subseteq Workers /\ Cardinality(Busy) \in Nat
  /\ \A w \in Workers : w \notin Busy => Cardinality(Busy) <= Overshoot
<1>1. IsFiniteSet(Workers)  BY TrialAssumption
<1>2. Cardinality(Workers) \in Nat  BY <1>1, FS_CardinalityType
<1>3. Busy \subseteq Workers  BY DEF Busy
<1>4. IsFiniteSet(Busy) /\ Cardinality(Busy) \in Nat  BY <1>1, <1>3, Sizes
<1>5. ASSUME NEW w \in Workers, w \notin Busy PROVE Cardinality(Busy) <= Overshoot
  <2>1. IsFiniteSet(Workers \ {w}) /\ Cardinality(Workers \ {w}) = Cardinality(Workers) - 1
    BY <1>1, FS_RemoveElement
  <2>2. Busy \subseteq Workers \ {w}  BY <1>3, <1>5
  <2>3. Cardinality(Busy) <= Cardinality(Workers \ {w})  BY <2>1, <2>2, Sizes
  <2>4. QED BY <2>1, <2>3 DEF Overshoot
<1>6. QED BY <1>2, <1>3, <1>4, <1>5 DEF Overshoot

-----------------------------------------------------------------------------
(* What a count may overlook.                                               *)

(* Every try is recorded or runs.                                            *)
LEMMA TriesAreKnown ==
  ASSUME IInv, TrialShape
  PROVE  Tries \subseteq Recorded \cup Running
<1> SUFFICES ASSUME NEW t \in Tries PROVE t \in Recorded \cup Running  OBVIOUS
<1>1. t[1] \in Jobs /\ t[2] \in DOMAIN started[t[1]]  BY DEF Tries
<1>2. PICK j, n : j \in Jobs /\ j = t[1] /\ n = t[2] /\ n \in DOMAIN started[j]  BY <1>1
<1>3. /\ Len(started[j]) = jobs[j].made /\ Len(started[j]) \in Nat
      /\ DOMAIN started[j] = 1..Len(started[j])
  <2>1. started[j] \in Seq(0..(Day + 1)) /\ Len(started[j]) = jobs[j].made
    BY <1>2 DEF TrialShape
  <2>2. QED BY <2>1, AgesOf
<1>4. n \in Nat /\ n <= jobs[j].made /\ jobs[j].made \in Nat  BY <1>2, <1>3
<1>5. Len(attempts[j]) = IF jobs[j].state = "running" THEN jobs[j].made - 1 ELSE jobs[j].made
  BY <1>2 DEF IInv, HistoryIsExact
<1>6. n <= Len(attempts[j]) \/ (jobs[j].state = "running" /\ n = jobs[j].made)
  BY <1>4, <1>5
<1>7. QED BY <1>2, <1>6 DEF Recorded, Running

(* No worker gets a try, and a count that overlooked few still does.         *)
NobodyBusier == \A w \in Workers : workers'[w].pc # "idle" => workers[w].pc # "idle"

KeepsOverlooked ==
  \A tries, found : tries \subseteq Tries /\ FewOverlooked(tries, found)
                     => FewOverlooked(tries, found)'

LEMMA OverlookedAreTries ==
  ASSUME TrialShape, NEW tries, NEW found, tries \subseteq Tries
  PROVE  /\ IsFiniteSet(Overlooked(tries, found))
         /\ Cardinality(Overlooked(tries, found)) \in Nat
<1>1. Overlooked(tries, found) \subseteq Tries  BY DEF Overlooked
<1>2. QED BY <1>1, FiniteTries, Sizes

LEMMA NothingOverlooked ==
  ASSUME TrialShape, NobodyBusier, Running \subseteq Running'
  PROVE  KeepsOverlooked
<1> SUFFICES ASSUME NEW tries, NEW found, tries \subseteq Tries, FewOverlooked(tries, found)
             PROVE  FewOverlooked(tries, found)'
  BY DEF KeepsOverlooked
<1>1. Overlooked(tries, found)' \subseteq Overlooked(tries, found) /\ Busy' \subseteq Busy
  BY DEF Overlooked, NobodyBusier, Busy
<1>2. /\ Cardinality(Overlooked(tries, found)') \in Nat
      /\ Cardinality(Overlooked(tries, found)) \in Nat
      /\ Cardinality(Overlooked(tries, found)') <= Cardinality(Overlooked(tries, found))
  BY <1>1, OverlookedAreTries, Sizes
<1>3. Cardinality(Busy') \in Nat /\ Cardinality(Busy) \in Nat
      /\ Cardinality(Busy') <= Cardinality(Busy)
  BY <1>1, Workforce, Sizes
<1>4. QED BY <1>2, <1>3, Workforce DEF FewOverlooked, Overshoot

(* A worker that ends its try makes it one that may be overlooked, and is not  *)
(* busy any more.                                                           *)
LEMMA EndedIsOverlooked ==
  ASSUME TrialShape, NEW v \in Workers, NEW k \in Jobs, workers[v].pc # "idle",
         workers'[v].pc = "idle", NobodyBusier, MadeKept, UNCHANGED started,
         \A j \in Jobs \ {k} : jobs'[j] = jobs[j]
  PROVE  KeepsOverlooked
<1> SUFFICES ASSUME NEW tries, NEW found, tries \subseteq Tries, FewOverlooked(tries, found)
             PROVE  FewOverlooked(tries, found)'
  BY DEF KeepsOverlooked
<1>1. PICK ended : ended = <<k, jobs[k].made>>  OBVIOUS
<1>2. Running \ {ended} \subseteq Running'
  <2> SUFFICES ASSUME NEW t \in Running, t # ended PROVE t \in Running'  OBVIOUS
  <2>1. t \in Tries /\ jobs[t[1]].state = "running" /\ t[2] = jobs[t[1]].made  BY DEF Running
  <2>2. t[1] \in Jobs /\ t = <<t[1], t[2]>>  BY <2>1 DEF Tries
  <2>3. t[1] # k  BY <1>1, <2>1, <2>2
  <2>4. jobs'[t[1]] = jobs[t[1]]  BY <2>2, <2>3
  <2>5. Tries' = Tries  BY DEF Tries
  <2>6. QED BY <2>1, <2>4, <2>5 DEF Running
<1>3. Overlooked(tries, found)' \subseteq Overlooked(tries, found) \cup {ended}
  BY <1>2 DEF Overlooked
<1>4. /\ Cardinality(Overlooked(tries, found)') \in Nat
      /\ Cardinality(Overlooked(tries, found)) \in Nat
      /\ Cardinality(Overlooked(tries, found)') <= Cardinality(Overlooked(tries, found)) + 1
  BY <1>3, OverlookedAreTries, Sizes
<1>5. v \in Busy /\ Busy' \subseteq Busy \ {v}  BY DEF Busy, NobodyBusier
<1>6. /\ IsFiniteSet(Busy \ {v}) /\ Cardinality(Busy \ {v}) = Cardinality(Busy) - 1
  BY <1>5, Workforce, FS_RemoveElement
<1>7. /\ Cardinality(Busy') \in Nat /\ Cardinality(Busy) \in Nat
      /\ Cardinality(Busy') <= Cardinality(Busy) - 1
  BY <1>5, <1>6, Workforce, Sizes
<1>8. QED BY <1>4, <1>7, Workforce DEF FewOverlooked, Overshoot

LEMMA TryMoves ==
  ASSUME IInv, TrialShape, NEW w \in Workers, FetchEnds(w) \/ StoreCapture(w) \/ CompleteJob(w),
         UNCHANGED started
  PROVE  NothingAdded /\ MadeKept /\ NobodyBusier /\ KeepsOverlooked
<1>1. workers[w].pc # "idle"  BY DEF FetchEnds, StoreCapture, CompleteJob
<1>2. workers \in [Workers -> Memory]  BY DEF IInv, TypeOK
<1>3. \A v \in Workers \ {w} : workers'[v] = workers[v]
  BY <1>2 DEF FetchEnds, StoreCapture, CompleteJob
<1>4. NobodyBusier  BY <1>1, <1>3 DEF NobodyBusier
<1>5. CASE UNCHANGED jobs
  <2>1. NothingAdded /\ MadeKept  BY <1>5 DEF NothingAdded, MadeKept
  <2>2. Running' = Running  BY <1>5 DEF Running, Tries
  <2>3. QED BY <1>4, <2>1, <2>2, NothingOverlooked
<1>6. CASE FetchEnds(w)  BY <1>5, <1>6 DEF FetchEnds
<1>7. CASE (StoreCapture(w) \/ CompleteJob(w)) /\ ~UNCHANGED jobs
  <2>1. workers'[w].pc = "idle"
    <3>1. workers' = [workers EXCEPT ![w] = Idle]  BY <1>7 DEF StoreCapture, CompleteJob
    <3>2. workers'[w] = Idle  BY <1>2, <3>1
    <3>3. QED BY <3>2 DEF Idle
  <2>2. ASSUME HoldsLease(w), workers[w].job \in Jobs, NEW outcome, NEW capture,
               TryEnds(workers[w].job, outcome, capture)
        PROVE  NothingAdded /\ MadeKept /\ KeepsOverlooked
    <3>1. PICK k \in Jobs : k = workers[w].job  BY <2>2
    <3>2. jobs[k].state = "running" /\ jobs'[k].made = jobs[k].made
      BY <2>2, <3>1 DEF HoldsLease, TryEnds
    <3>3. \A j \in Jobs \ {k} : jobs'[j] = jobs[j]  BY <2>2, <3>1 DEF TryEnds
    <3>4. NothingAdded /\ MadeKept  BY <3>2, <3>3 DEF NothingAdded, MadeKept
    <3>5. KeepsOverlooked  BY <1>1, <1>4, <2>1, <3>3, <3>4, EndedIsOverlooked
    <3>6. QED BY <3>4, <3>5
  <2>3. QED BY <1>4, <1>7, <2>2, SettlingStep
<1>8. QED BY <1>5, <1>6, <1>7


(* A step that starts nothing keeps the limits of the requests, and one that   *)
(* submits nothing those of the submissions.                                *)
FewerFetches ==
  \A window \in {Hour, Day, MinInterval - 1} : Fetches(window)' \subseteq Fetches(window)

LEMMA RequestsKeptStep ==
  ASSUME TrialShape, FewerFetches
  PROVE  /\ HasSlot => HasSlot'
         /\ RequestsWithinBudget => RequestsWithinBudget'
<1>1. \A window \in {Hour, Day, MinInterval - 1} :
        /\ Cardinality(Fetches(window))' \in Nat /\ Cardinality(Fetches(window)) \in Nat
        /\ Cardinality(Fetches(window))' <= Cardinality(Fetches(window))
  BY FiniteTries, Sizes DEF FewerFetches
<1>2. /\ Cardinality(Fetches(Hour))' \in Nat /\ Cardinality(Fetches(Hour)) \in Nat
      /\ Cardinality(Fetches(Hour))' <= Cardinality(Fetches(Hour))
      /\ Cardinality(Fetches(Day))' \in Nat /\ Cardinality(Fetches(Day)) \in Nat
      /\ Cardinality(Fetches(Day))' <= Cardinality(Fetches(Day))
      /\ Cardinality(Fetches(MinInterval - 1))' \in Nat
      /\ Cardinality(Fetches(MinInterval - 1)) \in Nat
      /\ Cardinality(Fetches(MinInterval - 1))' <= Cardinality(Fetches(MinInterval - 1))
  BY <1>1
<1>3. /\ Overshoot \in Int /\ MaxFetchesHour \in Nat /\ MaxFetchesDay \in Nat
  BY Workforce, LimitsAreNumbers
<1>4. HasSlot => HasSlot'  BY <1>2, <1>3 DEF HasSlot, Overshoot
<1>5. RequestsWithinBudget => RequestsWithinBudget'
  BY <1>2, <1>3 DEF RequestsWithinBudget, Overshoot
<1>6. QED BY <1>4, <1>5

LEMMA SameFetches ==
  ASSUME UNCHANGED started
  PROVE  FewerFetches /\ Tries' = Tries /\ \A window : Fetches(window)' = Fetches(window)
BY DEF FewerFetches, Fetches, Tries

LEMMA SubmissionsKeptStep ==
  ASSUME NothingAdded, UNCHANGED created
  PROVE  /\ WithinQuota => WithinQuota'
         /\ SubmissionsWithinQuota => SubmissionsWithinQuota'
<1>1. Active' \subseteq Active /\ Created(Day)' \subseteq Created(Day)
  BY DEF Active, Created, NothingAdded
<1>2. /\ Cardinality(Active)' \in Nat /\ Cardinality(Active) \in Nat
      /\ Cardinality(Active)' <= Cardinality(Active)
  BY <1>1, Sizes, FiniteTables
<1>3. /\ Cardinality(Created(Day))' \in Nat /\ Cardinality(Created(Day)) \in Nat
      /\ Cardinality(Created(Day))' <= Cardinality(Created(Day))
  BY <1>1, Sizes, FiniteTables
<1>4. QED BY <1>2, <1>3, LimitsAreNumbers DEF WithinQuota, SubmissionsWithinQuota

LEMMA QuietStep ==
  ASSUME TrialShape, NothingAdded, UNCHANGED <<created, started>>
  PROVE  /\ HasSlot => HasSlot'
         /\ RequestsWithinBudget => RequestsWithinBudget'
         /\ WithinQuota => WithinQuota'
         /\ SubmissionsWithinQuota => SubmissionsWithinQuota'
BY RequestsKeptStep, SubmissionsKeptStep, SameFetches


(* When time passes, starts and submissions leave the windows.               *)
LEMMA AgeingStep ==
  ASSUME TrialShape, NothingAdded,
         created' = [j \in Jobs |-> IF jobs[j].state = "absent" THEN created[j]
                                    ELSE Older(created[j])],
         started' = [j \in Jobs |-> [n \in DOMAIN started[j] |-> Older(started[j][n])]]
  PROVE  /\ created' \in [Jobs -> 0..(Day + 1)]
         /\ started' \in [Jobs -> Seq(0..(Day + 1))]
         /\ \A j \in Jobs : Len(started'[j]) = Len(started[j])
         /\ FewerFetches /\ Tries' = Tries
         /\ WithinQuota => WithinQuota'
         /\ SubmissionsWithinQuota => SubmissionsWithinQuota'
<1>1. Day \in Nat /\ Hour \in Nat /\ Hour <= Day /\ MinInterval \in Nat \ {0}
      /\ MinInterval <= Day
  BY LimitsAreNumbers, TrialAssumption
<1>2. \A age \in 0..(Day + 1) :
        /\ Older(age) \in 0..(Day + 1)
        /\ Older(age) <= Day => Older(age) = age + 1
        /\ age <= Older(age)
  BY <1>1 DEF Older
<1>3. created' \in [Jobs -> 0..(Day + 1)]  BY <1>2 DEF TrialShape
<1>4. \A j \in Jobs : started[j] \in Seq(0..(Day + 1))  BY DEF TrialShape
<1>5. \A j \in Jobs : \A n \in DOMAIN started[j] : started[j][n] \in 0..(Day + 1)
  BY <1>4, AgesOf
<1>6. \A j \in Jobs : /\ DOMAIN started'[j] = DOMAIN started[j]
                      /\ \A n \in DOMAIN started[j] : started'[j][n] = Older(started[j][n])
  OBVIOUS
<1>7. \A j \in Jobs : started'[j] \in Seq(0..(Day + 1)) /\ Len(started'[j]) = Len(started[j])
  <2> SUFFICES ASSUME NEW j \in Jobs
               PROVE  started'[j] \in Seq(0..(Day + 1)) /\ Len(started'[j]) = Len(started[j])
    OBVIOUS
  <2>1. PICK len \in Nat : Len(started[j]) = len /\ DOMAIN started[j] = 1..len
    BY <1>4, AgesOf
  <2>2. started'[j] = [n \in 1..len |-> Older(started[j][n])]  BY <2>1
  <2>3. \A n \in 1..len : Older(started[j][n]) \in 0..(Day + 1)  BY <1>2, <1>5, <2>1
  <2>4. started'[j] \in [1..len -> 0..(Day + 1)]  BY <2>2, <2>3
  <2>5. \A ages : started'[j] \in [1..len -> ages] => started'[j] \in Seq(ages) /\ Len(started'[j]) = len
    BY AsSequence
  <2>6. QED BY <2>1, <2>4, <2>5, Zenon
<1>8. started' \in [Jobs -> Seq(0..(Day + 1))]  BY <1>7
<1>9. Tries' = Tries
  <2>1. {{j} \X DOMAIN started'[j] : j \in Jobs} = {{j} \X DOMAIN started[j] : j \in Jobs}
    BY <1>6
  <2>2. QED BY <2>1 DEF Tries
<1>10. \A t \in Tries : /\ started[t[1]][t[2]] \in 0..(Day + 1)
                        /\ started'[t[1]][t[2]] = Older(started[t[1]][t[2]])
  BY <1>5, <1>6 DEF Tries
<1>11. ASSUME NEW window \in Int, window <= Day
       PROVE  Fetches(window)' \subseteq Fetches(window)
  <2> SUFFICES ASSUME NEW t \in Fetches(window)' PROVE t \in Fetches(window)  OBVIOUS
  <2>1. t \in Tries /\ started'[t[1]][t[2]] <= window  BY <1>9 DEF Fetches
  <2>2. PICK age \in 0..(Day + 1) : age = started[t[1]][t[2]] /\ started'[t[1]][t[2]] = Older(age)
    BY <1>10, <2>1
  <2>3. age <= window  BY <1>1, <1>2, <1>11, <2>1, <2>2
  <2>4. QED BY <2>1, <2>2, <2>3 DEF Fetches
<1>12. FewerFetches
  <2>1. \A window \in {Hour, Day, MinInterval - 1} : window \in Int /\ window <= Day  BY <1>1
  <2>2. QED BY <1>11, <2>1 DEF FewerFetches
<1>13. Active' \subseteq Active /\ Created(Day)' \subseteq Created(Day)
  <2>1. Active' \subseteq Active  BY DEF Active, NothingAdded
  <2>2. ASSUME NEW j \in Created(Day)' PROVE j \in Created(Day)
    <3>1. j \in Jobs /\ jobs'[j].state # "absent" /\ created'[j] <= Day  BY <2>2 DEF Created
    <3>2. jobs[j].state # "absent"  BY <3>1 DEF NothingAdded
    <3>3. created'[j] = Older(created[j]) /\ created[j] \in 0..(Day + 1)
      BY <3>1, <3>2 DEF TrialShape
    <3>4. created[j] <= Day  BY <1>1, <1>2, <3>1, <3>3
    <3>5. QED BY <3>1, <3>2, <3>4 DEF Created
  <2>3. QED BY <2>1, <2>2
<1>14. /\ Cardinality(Active)' \in Nat /\ Cardinality(Active) \in Nat
       /\ Cardinality(Active)' <= Cardinality(Active)
  BY <1>13, Sizes, FiniteTables
<1>15. /\ Cardinality(Created(Day))' \in Nat /\ Cardinality(Created(Day)) \in Nat
       /\ Cardinality(Created(Day))' <= Cardinality(Created(Day))
  BY <1>13, Sizes, FiniteTables
<1>16. QED
  BY <1>3, <1>7, <1>8, <1>9, <1>12, <1>14, <1>15, LimitsAreNumbers
     DEF WithinQuota, SubmissionsWithinQuota

(* A request that starts while there is a slot keeps the limits.             *)
LEMMA StartStep ==
  ASSUME TrialShape, HasSlot, NEW j \in Jobs,
         started' = [started EXCEPT ![j] = Append(started[j], 0)]
  PROVE  RequestsWithinBudget' /\ started' \in [Jobs -> Seq(0..(Day + 1))]
         /\ Len(started'[j]) = Len(started[j]) + 1
         /\ \A k \in Jobs \ {j} : started'[k] = started[k]
<1>1. Day \in Nat /\ Hour \in Nat /\ Hour <= Day /\ MinInterval \in Nat
      /\ MaxFetchesHour \in Nat /\ MaxFetchesDay \in Nat
  BY LimitsAreNumbers
<1>2. /\ started[j] \in Seq(0..(Day + 1)) /\ started \in [Jobs -> Seq(0..(Day + 1))]
      /\ 0 \in 0..(Day + 1)
  BY <1>1 DEF TrialShape
<1>3. PICK len : len = Len(started[j]) + 1  OBVIOUS
<1>4. /\ started'[j] \in Seq(0..(Day + 1)) /\ Len(started'[j]) = len
      /\ started'[j][len] = 0 /\ DOMAIN started'[j] = 1..len
      /\ \A n \in DOMAIN started[j] : n \in DOMAIN started'[j] /\ started'[j][n] = started[j][n]
      /\ \A n \in DOMAIN started'[j] : n \in DOMAIN started[j] \/ n = len
  BY <1>2, <1>3
<1>5. \A k \in Jobs \ {j} : started'[k] = started[k]  OBVIOUS
<1>6. started' \in [Jobs -> Seq(0..(Day + 1))]  BY <1>2, <1>4
<1>7. PICK new : new = <<j, len>>  OBVIOUS
<1>8. new[1] = j /\ new[2] = len  BY <1>7
<1>9. ASSUME NEW window
      PROVE  Fetches(window)' \subseteq Fetches(window) \cup {new}
  <2> SUFFICES ASSUME NEW t \in Fetches(window)', t # new PROVE t \in Fetches(window)  OBVIOUS
  <2>1. /\ t = <<t[1], t[2]>> /\ t[1] \in Jobs /\ t[2] \in DOMAIN started'[t[1]]
        /\ started'[t[1]][t[2]] <= window
    BY DEF Fetches, Tries
  <2>2. t[1] # j \/ t[2] # len  BY <1>7, <2>1
  <2>3. t[2] \in DOMAIN started[t[1]] /\ started'[t[1]][t[2]] = started[t[1]][t[2]]
    BY <1>4, <1>5, <2>1, <2>2
  <2>4. QED BY <2>1, <2>3 DEF Fetches, Tries
<1>10. \A window : /\ Cardinality(Fetches(window))' \in Nat /\ Cardinality(Fetches(window)) \in Nat
                   /\ Cardinality(Fetches(window))' <= Cardinality(Fetches(window)) + 1
  BY <1>9, Sizes, FiniteTries
<1>11. /\ Cardinality(Fetches(Hour))' <= MaxFetchesHour + Overshoot
       /\ Cardinality(Fetches(Day))' <= MaxFetchesDay + Overshoot
       /\ Cardinality(Fetches(MinInterval - 1))' <= 1 + Overshoot
  BY <1>1, <1>10, Workforce DEF HasSlot
<1>12. RequestsWithinBudget'  BY <1>11 DEF RequestsWithinBudget, Overshoot
<1>13. QED BY <1>3, <1>4, <1>5, <1>6, <1>12


(* A submission that finds room in the queue and in the day's quota keeps both. *)
LEMMA EnterStep ==
  ASSUME TrialShape, WithinQuota, IInv, NEW j \in Jobs, NEW budget, SubmitJob(j, None, budget),
         created' = [created EXCEPT ![j] = 0]
  PROVE  SubmissionsWithinQuota' /\ created' \in [Jobs -> 0..(Day + 1)] /\ MadeKept
<1>1. jobs \in [Jobs -> Row]  BY DEF IInv, TypeOK
<1>2. Day \in Nat /\ MaxQueued \in Nat /\ MaxSubmitsPerDay \in Nat  BY LimitsAreNumbers
<1>3. \A k \in Jobs \ {j} : jobs'[k] = jobs[k] /\ created'[k] = created[k]
  BY <1>1 DEF SubmitJob, TrialShape
<1>4. created' \in [Jobs -> 0..(Day + 1)]  BY <1>2 DEF TrialShape
<1>5. Active' \subseteq Active \cup {j} /\ Created(Day)' \subseteq Created(Day) \cup {j}
  BY <1>3 DEF Active, Created
<1>6. /\ Cardinality(Active)' \in Nat /\ Cardinality(Active) \in Nat
      /\ Cardinality(Active)' <= Cardinality(Active) + 1
  BY <1>5, Sizes, FiniteTables
<1>7. /\ Cardinality(Created(Day))' \in Nat /\ Cardinality(Created(Day)) \in Nat
      /\ Cardinality(Created(Day))' <= Cardinality(Created(Day)) + 1
  BY <1>5, Sizes, FiniteTables
<1>8. SubmissionsWithinQuota'  BY <1>2, <1>6, <1>7 DEF WithinQuota, SubmissionsWithinQuota
<1>9. MadeKept
  <2>1. jobs[j].made = 0  BY DEF SubmitJob, IInv, RowsAreSound
  <2>2. PICK new : new = [NoRow EXCEPT !.state = "queued", !.seen = None, !.budget = budget,
                                       !.max = budget]
    OBVIOUS
  <2>3. jobs'[j] = new  BY <1>1, <2>2 DEF SubmitJob
  <2>4. new.made = 0  BY <2>2 DEF NoRow
  <2>5. QED BY <1>3, <2>1, <2>3, <2>4 DEF MadeKept
<1>10. QED BY <1>4, <1>8, <1>9

-----------------------------------------------------------------------------
(* Every step keeps the invariant.                                          *)

LEMMA TrialInitInv == TrialInit => TrialInv
<1> SUFFICES ASSUME TrialInit PROVE TrialInv  OBVIOUS
<1>1. Day \in Nat /\ MaxQueued \in Nat /\ MaxSubmitsPerDay \in Nat
      /\ MaxFetchesHour \in Nat \ {0} /\ MaxFetchesDay \in Nat \ {0}
  BY LimitsAreNumbers
<1>2. \A j \in Jobs : jobs[j].state = "absent" /\ jobs[j].made = 0
  BY DEF TrialInit, Init, NoRow
<1>3. \A j \in Jobs : started[j] = <<>> /\ Len(started[j]) = 0 /\ DOMAIN started[j] = {}
  <2>1. \A j \in Jobs : started[j] = <<>>  BY DEF TrialInit
  <2>2. Len(<<>>) = 0 /\ DOMAIN <<>> = {}  OBVIOUS
  <2>3. QED BY <2>1, <2>2, Zenon
<1>4. None \notin Processes  BY TrialAssumption DEF Processes
<1>5. \A p \in Processes : at[p] = "out"  BY DEF TrialInit
<1>6. TrialShape
  <2>1. created \in [Jobs -> 0..(Day + 1)]  BY <1>1 DEF TrialInit
  <2>2. started \in [Jobs -> Seq(0..(Day + 1))]  BY DEF TrialInit
  <2>3. at \in [Processes -> Places] /\ late \in Nat  BY DEF TrialInit, Places
  <2>4. count \in CountType  BY DEF TrialInit, NoCount, CountType
  <2>5. QED BY <1>2, <1>3, <2>1, <2>2, <2>3, <2>4 DEF TrialShape, TrialInit
<1>7. LockIsExclusive  BY <1>4, <1>5 DEF TrialInit, LockIsExclusive, UnderLock, Counting
<1>8. PassingIsIdle /\ CountsAreSound /\ AllowedIsWithin /\ LatePause
  BY <1>5 DEF TrialInit, PassingIsIdle, CountsAreSound, AllowedIsWithin, LatePause, Processes,
              Counting, Passed
<1>9. Active = {} /\ Created(Day) = {} /\ Fetches(Hour) = {} /\ Fetches(Day) = {}
      /\ Fetches(MinInterval - 1) = {}
  BY <1>2, <1>3 DEF Active, Created, Fetches, Tries
<1>10. Cardinality({}) = 0  BY FS_EmptySet
<1>11. RequestsWithinBudget
  <2>1. MaxFetchesHour + Overshoot >= 0 /\ MaxFetchesDay + Overshoot >= 0 /\ 1 + Overshoot >= 0
    BY <1>1, Workforce
  <2>2. QED BY <1>9, <1>10, <2>1 DEF RequestsWithinBudget
<1>12. SubmissionsWithinQuota  BY <1>1, <1>9, <1>10 DEF SubmissionsWithinQuota
<1>13. QED BY <1>6, <1>7, <1>8, <1>11, <1>12 DEF TrialInv

(* What the columns and ages of the tables alone decide.                     *)
Limited == RequestsWithinBudget /\ SubmissionsWithinQuota

Tabled ==
  /\ created \in [Jobs -> 0..(Day + 1)]
  /\ started \in [Jobs -> Seq(0..(Day + 1))]
  /\ \A j \in Jobs : Len(started[j]) = jobs[j].made

Allowances == (HasSlot => HasSlot') /\ (WithinQuota => WithinQuota')

(* A count that goes on stays sound when no try is added and few go unseen.  *)
LEMMA CountsKept ==
  ASSUME TrialInv, KeepsOverlooked, FewerFetches, Tries' = Tries, UNCHANGED count,
         \A w \in Workers : at'[w] \in Counting => at'[w] = at[w]
  PROVE  CountsAreSound'
<1> SUFFICES ASSUME NEW w \in Workers, at'[w] \in Counting
             PROVE  CountIsSound(at[w])' /\ at'[w] = at[w]
  BY DEF CountsAreSound
<1>1. at'[w] = at[w] /\ CountIsSound(at[w])  BY DEF TrialInv, CountsAreSound
<1>2. PICK c, place : c = count /\ count' = c /\ place = at[w] /\ at'[w] = place  BY <1>1
<1>3. CountIsSound(place)  BY <1>1, <1>2
<1>4. /\ Fetches(Hour)' \subseteq c.hour /\ Fetches(Day)' \subseteq c.day
      /\ Fetches(MinInterval - 1)' \subseteq c.soon
  BY <1>2, <1>3 DEF CountIsSound, FewerFetches
<1>5. /\ c.hour \subseteq Tries' /\ c.hourFound \subseteq c.hour
      /\ c.day \subseteq Tries' /\ c.dayFound \subseteq c.day /\ c.soon \subseteq c.day
  BY <1>2, <1>3 DEF CountIsSound
<1>6. place = "hourRunning" => FewOverlooked(c.hour, c.hourFound)'
  BY <1>2, <1>3, <1>5 DEF CountIsSound, KeepsOverlooked
<1>7. place # "hourRunning" => Cardinality(c.hour \ c.hourFound) <= Overshoot
  BY <1>2, <1>3 DEF CountIsSound
<1>8. place = "dayRunning" => FewOverlooked(c.day, c.dayFound)'
  BY <1>2, <1>3, <1>5 DEF CountIsSound, KeepsOverlooked
<1>9. QED BY <1>2, <1>4, <1>5, <1>6, <1>7, <1>8 DEF CountIsSound, FewOverlooked, Overlooked, Overshoot

(* A step of the queue alone, other than a claim, a submission and time.     *)
LEMMA QueueMovesStep ==
  ASSUME TrialInv, NothingAdded, MadeKept, NobodyBusier, KeepsOverlooked, UNCHANGED trial
  PROVE  TrialInv'
<1>1. UNCHANGED <<created, started, paused, lock, at, count, late>>  BY DEF trial
<1>2. TrialShape  BY DEF TrialInv
<1>3. Allowances /\ RequestsWithinBudget' /\ SubmissionsWithinQuota'
  BY <1>1, <1>2, QuietStep DEF TrialInv, Allowances
<1>4. TrialShape'  BY <1>1 DEF TrialInv, TrialShape, MadeKept
<1>5. LockIsExclusive' /\ LatePause'  BY <1>1 DEF TrialInv, LockIsExclusive, LatePause
<1>6. PassingIsIdle'  BY <1>1 DEF TrialInv, PassingIsIdle, NobodyBusier
<1>7. CountsAreSound'  BY <1>1, SameFetches, CountsKept
<1>8. AllowedIsWithin'  BY <1>1, <1>3 DEF TrialInv, AllowedIsWithin, Allowances
<1>9. QED BY <1>3, <1>4, <1>5, <1>6, <1>7, <1>8 DEF TrialInv

(* A step that leaves the tables alone keeps what they decide.               *)
LEMMA TablesKeptStep ==
  ASSUME TrialInv, UNCHANGED <<vars, created, started>>
  PROVE  Tabled' /\ Allowances /\ Limited' /\ UNCHANGED workers /\ KeepsOverlooked
<1>1. NothingAdded /\ jobs' = jobs /\ workers' = workers  BY DEF vars, NothingAdded
<1>2. TrialShape  BY DEF TrialInv
<1>3. Allowances /\ Limited'  BY <1>1, <1>2, QuietStep DEF TrialInv, Allowances, Limited
<1>4. Tabled'  BY <1>1 DEF TrialInv, TrialShape, Tabled
<1>5. NobodyBusier /\ Running' = Running  BY <1>1 DEF NobodyBusier, Running, Tries
<1>6. KeepsOverlooked  BY <1>2, <1>5, NothingOverlooked
<1>7. QED BY <1>1, <1>3, <1>4, <1>6

(* A process that takes the lock when it is free, goes on under it, or gives  *)
(* it up.                                                                   *)
LEMMA LockStep ==
  ASSUME TrialInv, NEW p \in Processes, NEW place \in Places, at' = [at EXCEPT ![p] = place],
         \/ lock \in {None, p} /\ lock' = p /\ place \in UnderLock
         \/ lock = p /\ lock' = None /\ place = "out"
  PROVE  /\ lock' \in Processes \cup {None} /\ at' \in [Processes -> Places]
         /\ LockIsExclusive' /\ at'[p] = place
         /\ \A q \in Processes \ {p} : at'[q] = at[q] /\ at'[q] \notin UnderLock
<1>1. None \notin Processes  BY TrialAssumption DEF Processes
<1>2. at \in [Processes -> Places]  BY DEF TrialInv, TrialShape
<1>3. at' \in [Processes -> Places] /\ at'[p] = place  BY <1>2
<1>4. \A q \in Processes : at[q] \in UnderLock <=> lock = q
  BY DEF TrialInv, LockIsExclusive
<1>5. \A q \in Processes \ {p} : at'[q] = at[q] /\ lock # q /\ lock' # q
  BY <1>1, <1>2
<1>6. "out" \notin UnderLock  BY DEF UnderLock, Counting
<1>7. at'[p] \in UnderLock <=> lock' = p  BY <1>1, <1>3, <1>6
<1>8. QED BY <1>3, <1>4, <1>5, <1>7 DEF LockIsExclusive

(* Then nobody else counts, and the others' memories are as they were.       *)
LEMMA AloneStep ==
  ASSUME TrialInv, NEW p \in Processes, UNCHANGED workers,
         at[p] # "out" \/ at'[p] = "out",
         \A q \in Processes \ {p} : at'[q] = at[q] /\ at'[q] \notin UnderLock
  PROVE  /\ PassingIsIdle'
         /\ \A w \in Workers : at'[w] \in UnderLock => w = p
         /\ at'[p] \notin Counting => CountsAreSound'
<1>1. \A w \in Workers : w \in Processes  BY DEF Processes
<1>2. PassingIsIdle'  BY <1>1 DEF TrialInv, PassingIsIdle
<1>3. \A w \in Workers : at'[w] \in UnderLock => w = p  BY <1>1
<1>4. at'[p] \notin Counting => CountsAreSound'  BY <1>3 DEF CountsAreSound, UnderLock
<1>5. QED BY <1>2, <1>3, <1>4

-----------------------------------------------------------------------------
(* The actions.                                                             *)

LEMMA WaitingStep ==
  ASSUME TrialInv, NEW p \in Processes, at[p] = "out", at' = [at EXCEPT ![p] = "wanting"],
         p \in Workers => workers[p].pc = "idle",
         UNCHANGED <<vars, created, started, paused, lock, count, late>>
  PROVE  TrialInv'
<1>1. Tabled' /\ Allowances /\ Limited' /\ UNCHANGED workers /\ KeepsOverlooked
  BY TablesKeptStep
<1>2. at \in [Processes -> Places]  BY DEF TrialInv, TrialShape
<1>3. at' \in [Processes -> Places]  BY <1>2 DEF Places
<1>4. \A q \in Processes : at'[q] = at[q] \/ (q = p /\ at'[q] = "wanting")  BY <1>2
<1>5. "wanting" \notin UnderLock /\ "out" \notin UnderLock /\ "allowed" \in UnderLock
      /\ Counting \subseteq UnderLock
  BY DEF UnderLock, Counting
<1>6. TrialShape'  BY <1>1, <1>3 DEF TrialInv, TrialShape, Tabled
<1>7. LockIsExclusive'  BY <1>2, <1>4, <1>5 DEF TrialInv, LockIsExclusive
<1>8. \A w \in Workers : w \in Processes  BY DEF Processes
<1>9. PassingIsIdle'  BY <1>1, <1>4, <1>8 DEF TrialInv, PassingIsIdle
<1>10. CountsAreSound'
  <2>1. \A w \in Workers : at'[w] \in Counting => at'[w] = at[w]  BY <1>4, <1>5, <1>8
  <2>2. QED BY <1>1, <2>1, SameFetches, CountsKept
<1>11. \A q \in Processes : at'[q] \in Passed => at[q] = at'[q]
  BY <1>4 DEF Passed, Counting
<1>12. AllowedIsWithin' /\ LatePause'
  BY <1>1, <1>11 DEF TrialInv, AllowedIsWithin, LatePause, Allowances, Processes, Passed
<1>13. QED BY <1>1, <1>6, <1>7, <1>9, <1>10, <1>12 DEF TrialInv, Limited

(* A step that only moves its process: it takes the lock, checks, or gives up. *)
LEMMA PlaceStep ==
  ASSUME TrialInv, NEW p \in Processes, NEW place \in Places, at' = [at EXCEPT ![p] = place],
         at[p] # "out",
         \/ lock \in {None, p} /\ lock' = p /\ place \in UnderLock
         \/ lock = p /\ lock' = None /\ place = "out",
         UNCHANGED <<vars, created, started, paused, late>>,
         count' \in CountType,
         p \in Workers /\ place \in Counting => CountIsSound(place)',
         p \in Workers /\ place \in Passed => late = 0,
         p \in Workers /\ place = "allowed" => HasSlot,
         p \in Submitters /\ place = "allowed" => WithinQuota
  PROVE  TrialInv'
<1>1. Tabled' /\ Allowances /\ Limited' /\ UNCHANGED workers  BY TablesKeptStep
<1>2. /\ lock' \in Processes \cup {None} /\ at' \in [Processes -> Places]
      /\ LockIsExclusive' /\ at'[p] = place
      /\ \A q \in Processes \ {p} : at'[q] = at[q] /\ at'[q] \notin UnderLock
  BY LockStep
<1>3. /\ PassingIsIdle'
      /\ \A w \in Workers : at'[w] \in UnderLock => w = p
      /\ at'[p] \notin Counting => CountsAreSound'
  BY <1>1, <1>2, AloneStep
<1>4. TrialShape'  BY <1>1, <1>2 DEF TrialInv, TrialShape, Tabled
<1>5. CountsAreSound'
  <2>1. CASE place \notin Counting  BY <1>2, <1>3, <2>1
  <2>2. CASE place \in Counting
    <3> SUFFICES ASSUME NEW w \in Workers, at'[w] \in Counting
                 PROVE  CountIsSound(at[w])'
      BY DEF CountsAreSound
    <3>1. w = p /\ at'[w] = place  BY <1>2, <1>3 DEF UnderLock
    <3>2. CountIsSound(place)'  BY <2>2, <3>1
    <3>3. QED BY <3>1, <3>2 DEF CountIsSound, FewOverlooked, Overlooked
  <2>3. QED BY <2>1, <2>2
<1>6. \A q \in Processes : at'[q] \in Passed => q = p /\ at'[q] = place
  BY <1>2 DEF UnderLock, Passed
<1>7. AllowedIsWithin'  BY <1>1, <1>6 DEF AllowedIsWithin, Allowances, Processes, Passed
<1>8. LatePause'  BY <1>6 DEF TrialInv, LatePause, Processes
<1>9. QED BY <1>1, <1>2, <1>3, <1>4, <1>5, <1>7, <1>8 DEF TrialInv, Limited

LEMMA ClaimLockStep ==
  ASSUME TrialInv, NEW p \in Processes, ClaimLock(p)
  PROVE  TrialInv'
<1>1. /\ lock = None /\ lock' = p /\ at[p] = "wanting" /\ at' = [at EXCEPT ![p] = "locked"]
      /\ UNCHANGED <<vars, created, started, paused, count, late>>
  BY DEF ClaimLock, LockFree
<1>2. "locked" \in UnderLock /\ "locked" \in Places /\ "locked" \notin Passed
      /\ Counting \subseteq Passed /\ "allowed" \in Passed
  BY DEF Places, UnderLock, Counting, Passed
<1>3. count' \in CountType  BY <1>1 DEF TrialInv, TrialShape
<1>4. QED BY <1>1, <1>2, <1>3, PlaceStep

LEMMA CheckQuotaStep ==
  ASSUME TrialInv, NEW s \in Submitters, CheckQuota(s)
  PROVE  TrialInv'
<1>1. at[s] = "locked" /\ UNCHANGED <<vars, created, started, paused, count, late>>
  BY DEF CheckQuota
<1>2. s \in Processes /\ s \notin Workers  BY TrialAssumption DEF Processes
<1>3. lock = s  BY <1>1, <1>2 DEF TrialInv, LockIsExclusive, UnderLock
<1>4. PICK place : /\ at' = [at EXCEPT ![s] = place]
                   /\ \/ place = "allowed" /\ lock' = s /\ WithinQuota
                      \/ place = "out" /\ lock' = None
  BY <1>3 DEF CheckQuota, Unlocked
<1>5. "allowed" \in UnderLock /\ place \in Places /\ place \notin Counting
  BY <1>4 DEF Places, UnderLock, Counting
<1>6. count' \in CountType  BY <1>1 DEF TrialInv, TrialShape
<1>7. QED BY <1>1, <1>2, <1>3, <1>4, <1>5, <1>6, PlaceStep

-----------------------------------------------------------------------------
(* The four queries of a budget.                                            *)

(* When a query of the attempts has just found what is recorded, only what    *)
(* runs is missing, and the counting worker runs nothing.                   *)
LEMMA NothingYetOverlooked ==
  ASSUME IInv, TrialShape, NEW w \in Workers, workers[w].pc = "idle", NEW tries,
         tries \subseteq Tries
  PROVE  FewOverlooked(tries, tries \cap Recorded)
<1>1. Overlooked(tries, tries \cap Recorded) = {}  BY TriesAreKnown DEF Overlooked
<1>2. Cardinality(Overlooked(tries, tries \cap Recorded)) = 0  BY <1>1, FS_EmptySet
<1>3. w \notin Busy  BY DEF Busy
<1>4. Cardinality(Busy) \in Nat /\ Cardinality(Busy) <= Overshoot  BY <1>3, Workforce
<1>5. QED BY <1>2, <1>4, Workforce DEF FewOverlooked

LEMMA BeginBudgetStep ==
  ASSUME IInv, TrialInv, NEW w \in Workers, BeginBudget(w)
  PROVE  TrialInv'
<1>1. at[w] = "locked" /\ UNCHANGED <<vars, created, started, paused, late>>
  BY DEF BeginBudget
<1>2. w \in Processes /\ w \notin Submitters  BY TrialAssumption DEF Processes
<1>3. lock = w  BY <1>1, <1>2 DEF TrialInv, LockIsExclusive, UnderLock
<1>4. TrialShape /\ workers[w].pc = "idle"  BY <1>1 DEF TrialInv, PassingIsIdle
<1>5. CASE ~MayClaim /\ GivesUp(w) /\ UNCHANGED count
  <2>1. "out" \in Places /\ "out" \notin Passed /\ Counting \subseteq Passed
    BY DEF Places, Counting, Passed
  <2>2. lock' = None /\ at' = [at EXCEPT ![w] = "out"] /\ count' \in CountType
    BY <1>3, <1>4, <1>5 DEF GivesUp, Unlocked, TrialShape
  <2>3. QED BY <1>1, <1>2, <1>3, <2>1, <2>2, PlaceStep
<1>6. ASSUME MayClaim, at' = [at EXCEPT ![w] = "hourRunning"], UNCHANGED lock,
             NEW hour, hour = Fetches(Hour), NEW day, day = Fetches(Day),
             NEW soon, soon = Fetches(MinInterval - 1), NEW hourFound,
             hourFound = hour \cap Recorded,
             count' = [hour |-> hour, day |-> day, soon |-> soon, hourFound |-> hourFound,
                       dayFound |-> {}]
      PROVE  TrialInv'
  <2>1. /\ hour \subseteq Tries /\ day \subseteq Tries /\ soon \subseteq Tries
        /\ Tries \subseteq Jobs \X Nat
    BY <1>4, <1>6, FiniteTries
  <2>2. count' \in CountType  BY <1>6, <2>1 DEF CountType
  <2>3. UNCHANGED <<jobs, attempts, workers>>  BY <1>1 DEF vars
  <2>4. Tries' = Tries /\ Running' = Running /\ Busy' = Busy
        /\ \A window : Fetches(window)' = Fetches(window)
    BY <1>1, <2>3 DEF Tries, Running, Busy, Fetches
  <2>5. FewOverlooked(hour, hourFound)
    <3>1. FewOverlooked(hour, hour \cap Recorded)  BY <1>4, <2>1, NothingYetOverlooked
    <3>2. QED BY <1>6, <3>1
  <2>6. soon \subseteq day
    <3>1. Day \in Nat /\ MinInterval \in Nat /\ MinInterval <= Day
      BY LimitsAreNumbers, TrialAssumption
    <3>2. ASSUME NEW t \in soon PROVE t \in day
      <4>1. t \in Tries /\ started[t[1]][t[2]] <= MinInterval - 1  BY <1>6, <3>2 DEF Fetches
      <4>2. t[1] \in Jobs /\ t[2] \in DOMAIN started[t[1]]  BY <4>1 DEF Tries
      <4>3. started[t[1]][t[2]] \in 0..(Day + 1)  BY <1>4, <4>2, AgesOf DEF TrialShape
      <4>4. started[t[1]][t[2]] <= Day  BY <3>1, <4>1, <4>3
      <4>5. QED BY <1>6, <4>1, <4>4 DEF Fetches
    <3>3. QED BY <3>2
  <2>7. CountIsSound("hourRunning")'
    BY <1>6, <2>1, <2>4, <2>5, <2>6 DEF CountIsSound, FewOverlooked, Overlooked, Overshoot
  <2>8. "hourRunning" \in Places /\ "hourRunning" \in UnderLock
    BY DEF Places, UnderLock, Counting
  <2>9. late = 0  BY <1>6 DEF TrialInv, LatePause, MayClaim
  <2>10. QED BY <1>1, <1>2, <1>3, <1>6, <2>2, <2>7, <2>8, <2>9, PlaceStep
<1>7. QED BY <1>1, <1>5, <1>6 DEF BeginBudget

LEMMA CountHourStep ==
  ASSUME TrialInv, NEW w \in Workers, CountHour(w)
  PROVE  TrialInv'
<1>1. /\ at[w] = "hourRunning" /\ at' = [at EXCEPT ![w] = "dayAttempts"]
      /\ UNCHANGED <<vars, created, started, paused, lock, late>>
  BY DEF CountHour
<1>2. w \in Processes /\ w \notin Submitters  BY TrialAssumption DEF Processes
<1>3. lock = w  BY <1>1, <1>2 DEF TrialInv, LockIsExclusive, UnderLock, Counting
<1>4. TrialShape /\ CountIsSound("hourRunning")
  BY <1>1 DEF TrialInv, CountsAreSound, Counting
<1>5. PICK c : c = count  OBVIOUS
<1>6. PICK found : found = c.hourFound \cup (c.hour \cap Running)  OBVIOUS
<1>7. c \in CountType /\ count' = [c EXCEPT !.hourFound = found]
  BY <1>4, <1>5, <1>6 DEF CountHour, TrialShape
<1>8. /\ Fetches(Hour) \subseteq c.hour /\ Fetches(Day) \subseteq c.day
      /\ Fetches(MinInterval - 1) \subseteq c.soon
      /\ c.hour \subseteq Tries /\ c.hourFound \subseteq c.hour
      /\ c.day \subseteq Tries /\ c.dayFound \subseteq c.day /\ c.soon \subseteq c.day
      /\ FewOverlooked(c.hour, c.hourFound)
  BY <1>4, <1>5 DEF CountIsSound
<1>9. found \subseteq c.hour /\ found \in SUBSET (Jobs \X Nat)
  BY <1>6, <1>7, <1>8 DEF CountType
<1>10. PICK d : d = [c EXCEPT !.hourFound = found]  OBVIOUS
<1>11. /\ d \in CountType /\ d.hour = c.hour /\ d.day = c.day /\ d.soon = c.soon
       /\ d.dayFound = c.dayFound /\ d.hourFound = found
  BY <1>7, <1>9, <1>10 DEF CountType
<1>12. c.hour \ found = Overlooked(c.hour, c.hourFound)  BY <1>6 DEF Overlooked
<1>13. Cardinality(c.hour \ found) <= Overshoot
  <2>1. Cardinality(Overlooked(c.hour, c.hourFound)) \in Nat
    BY <1>4, <1>8, OverlookedAreTries
  <2>2. Cardinality(Overlooked(c.hour, c.hourFound)) + Cardinality(Busy) <= Overshoot
    BY <1>8 DEF FewOverlooked
  <2>3. Cardinality(Overlooked(c.hour, c.hourFound)) <= Overshoot  BY <2>1, <2>2, Workforce
  <2>4. QED BY <1>12, <2>3
<1>14. count' = d /\ Tries' = Tries /\ \A window : Fetches(window)' = Fetches(window)
  BY <1>1, <1>7, <1>10 DEF Tries, Fetches
<1>15. CountIsSound("dayAttempts")'
  BY <1>8, <1>9, <1>11, <1>13, <1>14 DEF CountIsSound, Overshoot
<1>16. "dayAttempts" \in Places /\ "dayAttempts" \in UnderLock
  BY DEF Places, UnderLock, Counting
<1>17. late = 0  BY <1>1 DEF TrialInv, LatePause, Passed, Counting
<1>18. QED BY <1>1, <1>2, <1>3, <1>11, <1>14, <1>15, <1>16, <1>17, PlaceStep

LEMMA BeginDayStep ==
  ASSUME IInv, TrialInv, NEW w \in Workers, BeginDay(w)
  PROVE  TrialInv'
<1>1. /\ at[w] = "dayAttempts" /\ at' = [at EXCEPT ![w] = "dayRunning"]
      /\ UNCHANGED <<vars, created, started, paused, lock, late>>
  BY DEF BeginDay
<1>2. w \in Processes /\ w \notin Submitters  BY TrialAssumption DEF Processes
<1>3. lock = w  BY <1>1, <1>2 DEF TrialInv, LockIsExclusive, UnderLock, Counting
<1>4. TrialShape /\ CountIsSound("dayAttempts") /\ workers[w].pc = "idle"
  BY <1>1 DEF TrialInv, CountsAreSound, PassingIsIdle, Counting
<1>5. PICK c : c = count  OBVIOUS
<1>6. PICK found : found = c.day \cap Recorded  OBVIOUS
<1>7. c \in CountType /\ count' = [c EXCEPT !.dayFound = found]
  BY <1>4, <1>5, <1>6 DEF BeginDay, TrialShape
<1>8. /\ Fetches(Hour) \subseteq c.hour /\ Fetches(Day) \subseteq c.day
      /\ Fetches(MinInterval - 1) \subseteq c.soon
      /\ c.hour \subseteq Tries /\ c.hourFound \subseteq c.hour
      /\ c.day \subseteq Tries /\ c.soon \subseteq c.day
      /\ Cardinality(c.hour \ c.hourFound) <= Overshoot
  BY <1>4, <1>5 DEF CountIsSound
<1>9. found \subseteq c.day /\ found \in SUBSET (Jobs \X Nat)  BY <1>6, <1>7 DEF CountType
<1>10. PICK d : d = [c EXCEPT !.dayFound = found]  OBVIOUS
<1>11. /\ d \in CountType /\ d.hour = c.hour /\ d.day = c.day /\ d.soon = c.soon
       /\ d.hourFound = c.hourFound /\ d.dayFound = found
  BY <1>7, <1>9, <1>10 DEF CountType
<1>12. FewOverlooked(c.day, found)
  <2>1. FewOverlooked(c.day, c.day \cap Recorded)  BY <1>4, <1>8, NothingYetOverlooked
  <2>2. QED BY <1>6, <2>1
<1>13. UNCHANGED <<jobs, workers>>  BY <1>1 DEF vars
<1>14. /\ count' = d /\ Tries' = Tries /\ Running' = Running /\ Busy' = Busy
       /\ \A window : Fetches(window)' = Fetches(window)
  BY <1>1, <1>7, <1>10, <1>13 DEF Tries, Fetches, Running, Busy
<1>15. CountIsSound("dayRunning")'
  BY <1>8, <1>9, <1>11, <1>12, <1>14 DEF CountIsSound, FewOverlooked, Overlooked, Overshoot
<1>16. "dayRunning" \in Places /\ "dayRunning" \in UnderLock
  BY DEF Places, UnderLock, Counting
<1>17. late = 0  BY <1>1 DEF TrialInv, LatePause, Passed, Counting
<1>18. QED BY <1>1, <1>2, <1>3, <1>11, <1>14, <1>15, <1>16, <1>17, PlaceStep

(* What a count found and what it overlooked make up the window.             *)
LEMMA RoomIsSlot ==
  ASSUME TrialShape, CountIsSound("dayRunning"), NEW found,
         found = count.dayFound \cup (count.day \cap Running), HasRoom(count.hourFound, found)
  PROVE  HasSlot
<1>1. /\ Fetches(Hour) \subseteq count.hour /\ Fetches(Day) \subseteq count.day
      /\ Fetches(MinInterval - 1) \subseteq count.soon
      /\ count.hour \subseteq Tries /\ count.hourFound \subseteq count.hour
      /\ count.day \subseteq Tries /\ count.dayFound \subseteq count.day
      /\ count.soon \subseteq count.day
      /\ Cardinality(count.hour \ count.hourFound) <= Overshoot
      /\ FewOverlooked(count.day, count.dayFound)
  BY DEF CountIsSound
<1>2. PICK hourFound, hourMissed, dayMissed :
        /\ hourFound = count.hourFound /\ hourMissed = count.hour \ count.hourFound
        /\ dayMissed = count.day \ found
  OBVIOUS
<1>3. IsFiniteSet(Tries)  BY FiniteTries
<1>4. found \subseteq Tries /\ hourFound \subseteq Tries /\ hourMissed \subseteq Tries
      /\ dayMissed \subseteq Tries
  BY <1>1, <1>2
<1>5. /\ IsFiniteSet(found) /\ IsFiniteSet(hourFound) /\ IsFiniteSet(hourMissed)
      /\ IsFiniteSet(dayMissed)
      /\ Cardinality(found) \in Nat /\ Cardinality(hourFound) \in Nat
      /\ Cardinality(hourMissed) \in Nat /\ Cardinality(dayMissed) \in Nat
  BY <1>3, <1>4, Sizes
<1>6. Cardinality(dayMissed) <= Overshoot
  <2>1. dayMissed = Overlooked(count.day, count.dayFound)  BY <1>2 DEF Overlooked
  <2>2. Cardinality(dayMissed) + Cardinality(Busy) <= Overshoot
    BY <1>1, <2>1 DEF FewOverlooked
  <2>3. QED BY <1>5, <2>2, Workforce
<1>7. Cardinality(hourMissed) <= Overshoot  BY <1>1, <1>2
<1>8. Cardinality(hourFound) < MaxFetchesHour /\ Cardinality(found) < MaxFetchesDay
      /\ found \cap count.soon = {}
  BY <1>2 DEF HasRoom
<1>9. Cardinality(Fetches(Hour)) < MaxFetchesHour + Overshoot
  <2>1. Fetches(Hour) \subseteq hourFound \cup hourMissed  BY <1>1, <1>2
  <2>2. /\ Cardinality(Fetches(Hour)) \in Nat
        /\ Cardinality(Fetches(Hour)) <= Cardinality(hourFound) + Cardinality(hourMissed)
    BY <1>5, <2>1, Cover
  <2>3. QED BY <1>5, <1>7, <1>8, <2>2, Workforce, LimitsAreNumbers
<1>10. Cardinality(Fetches(Day)) < MaxFetchesDay + Overshoot
  <2>1. Fetches(Day) \subseteq found \cup dayMissed  BY <1>1, <1>2
  <2>2. /\ Cardinality(Fetches(Day)) \in Nat
        /\ Cardinality(Fetches(Day)) <= Cardinality(found) + Cardinality(dayMissed)
    BY <1>5, <2>1, Cover
  <2>3. QED BY <1>5, <1>6, <1>8, <2>2, Workforce, LimitsAreNumbers
<1>11. Cardinality(Fetches(MinInterval - 1)) < 1 + Overshoot
  <2>1. Fetches(MinInterval - 1) \subseteq dayMissed  BY <1>1, <1>2, <1>8
  <2>2. /\ Cardinality(Fetches(MinInterval - 1)) \in Nat
        /\ Cardinality(Fetches(MinInterval - 1)) <= Cardinality(dayMissed)
    BY <1>5, <2>1, Sizes
  <2>3. QED BY <1>5, <1>6, <2>2, Workforce
<1>12. QED BY <1>9, <1>10, <1>11 DEF HasSlot

LEMMA CountDayStep ==
  ASSUME TrialInv, NEW w \in Workers, CountDay(w)
  PROVE  TrialInv'
<1>1. at[w] = "dayRunning" /\ UNCHANGED <<vars, created, started, paused, late>>
      /\ count' = NoCount
  BY DEF CountDay
<1>2. w \in Processes /\ w \notin Submitters  BY TrialAssumption DEF Processes
<1>3. lock = w  BY <1>1, <1>2 DEF TrialInv, LockIsExclusive, UnderLock, Counting
<1>4. TrialShape /\ CountIsSound("dayRunning")
  BY <1>1 DEF TrialInv, CountsAreSound, Counting
<1>5. count' \in CountType  BY <1>1 DEF NoCount, CountType
<1>6. PICK found : found = count.dayFound \cup (count.day \cap Running)  OBVIOUS
<1>7. CASE HasRoom(count.hourFound, found) /\ at' = [at EXCEPT ![w] = "allowed"] /\ UNCHANGED lock
  <2>1. HasSlot  BY <1>4, <1>6, <1>7, RoomIsSlot
  <2>2. "allowed" \in Places /\ "allowed" \in UnderLock /\ "allowed" \notin Counting
    BY DEF Places, UnderLock, Counting
  <2>3. late = 0  BY <1>1 DEF TrialInv, LatePause, Passed, Counting
  <2>4. QED BY <1>1, <1>2, <1>3, <1>5, <1>7, <2>1, <2>2, <2>3, PlaceStep
<1>8. CASE GivesUp(w)
  <2>1. "out" \in Places /\ "out" \notin Passed /\ Counting \subseteq Passed
    BY DEF Places, Counting, Passed
  <2>2. lock' = None /\ at' = [at EXCEPT ![w] = "out"]  BY <1>3, <1>8 DEF GivesUp, Unlocked
  <2>3. QED BY <1>1, <1>2, <1>3, <1>5, <2>1, <2>2, PlaceStep
<1>9. QED BY <1>6, <1>7, <1>8 DEF CountDay

-----------------------------------------------------------------------------
(* The rows the checks allow, and the other actions.                        *)

LEMMA ClaimWithinBudgetStep ==
  ASSUME IInv, TrialInv, NEW w \in Workers, ClaimWithinBudget(w)
  PROVE  TrialInv'
<1>1. /\ at[w] = "allowed" /\ ClaimJob(w) /\ lock' = Unlocked(w)
      /\ at' = [at EXCEPT ![w] = "out"] /\ UNCHANGED <<created, paused, count>>
  BY DEF ClaimWithinBudget
<1>2. w \in Processes /\ \A v \in Workers : v \in Processes  BY DEF Processes
<1>3. lock = w /\ lock' = None
  BY <1>1, <1>2 DEF TrialInv, LockIsExclusive, Unlocked, UnderLock
<1>4. "out" \in Places  BY DEF Places
<1>5. /\ lock' \in Processes \cup {None} /\ at' \in [Processes -> Places]
      /\ LockIsExclusive' /\ at'[w] = "out"
      /\ \A q \in Processes \ {w} : at'[q] = at[q] /\ at'[q] \notin UnderLock
  BY <1>1, <1>2, <1>3, <1>4, LockStep
<1>6. \A q \in Processes : at'[q] \notin UnderLock  BY <1>5 DEF UnderLock, Counting
<1>7. AllowedIsWithin' /\ CountsAreSound'
  BY <1>2, <1>6 DEF AllowedIsWithin, CountsAreSound, Processes, UnderLock
<1>8. late = 0 /\ HasSlot /\ TrialShape
  BY <1>1 DEF TrialInv, LatePause, AllowedIsWithin, Passed
<1>9. late' = IF Claims(w) /\ paused THEN 1 ELSE 0
  BY <1>8 DEF ClaimWithinBudget
<1>10. LatePause' /\ late' \in Nat
  BY <1>1, <1>2, <1>6, <1>9 DEF LatePause, Passed, UnderLock
<1>11. NothingAdded  BY <1>1, ClaimAddsNothing
<1>12. Tabled' /\ Limited'
  <2>1. CASE ~Claims(w) /\ MadeKept
    <3>1. UNCHANGED <<created, started>>  BY <1>1, <2>1 DEF ClaimWithinBudget
    <3>2. Limited'  BY <1>8, <1>11, <3>1, QuietStep DEF TrialInv, Limited
    <3>3. Tabled'  BY <2>1, <3>1 DEF TrialInv, TrialShape, Tabled, MadeKept
    <3>4. QED BY <3>2, <3>3
  <2>2. ASSUME Claims(w), NEW j \in Jobs, j = workers'[w].job,
               \A k \in Jobs : jobs'[k].made = IF k = j THEN jobs[k].made + 1 ELSE jobs[k].made
        PROVE  Tabled' /\ Limited'
    <3>1. started' = [started EXCEPT ![j] = Append(started[j], 0)]
      BY <2>2 DEF ClaimWithinBudget
    <3>2. /\ RequestsWithinBudget' /\ started' \in [Jobs -> Seq(0..(Day + 1))]
          /\ Len(started'[j]) = Len(started[j]) + 1
          /\ \A k \in Jobs \ {j} : started'[k] = started[k]
      BY <1>8, <3>1, StartStep
    <3>3. SubmissionsWithinQuota'  BY <1>1, <1>11, SubmissionsKeptStep DEF TrialInv
    <3>4. \A k \in Jobs : Len(started'[k]) = jobs'[k].made
      BY <1>8, <2>2, <3>2 DEF TrialShape
    <3>5. QED BY <1>1, <1>8, <3>2, <3>3, <3>4 DEF TrialShape, Tabled, Limited
  <2>3. QED BY <1>1, <2>1, <2>2, ClaimCounts
<1>13. TrialShape'  BY <1>1, <1>5, <1>8, <1>10, <1>12 DEF TrialShape, Tabled
<1>14. PassingIsIdle'
  <2>1. \A v \in Workers \ {w} : workers'[v] = workers[v] /\ at'[v] = at[v]
    BY <1>1, <1>2, <1>5 DEF ClaimJob, IInv, TypeOK
  <2>2. QED BY <1>5, <2>1 DEF TrialInv, PassingIsIdle
<1>15. QED BY <1>5, <1>7, <1>10, <1>12, <1>13, <1>14 DEF TrialInv, Limited

LEMMA SubmittedStep ==
  ASSUME IInv, TrialInv, NEW s \in Submitters, Submit(s)
  PROVE  TrialInv'
<1>1. /\ at[s] = "allowed" /\ lock' = Unlocked(s) /\ at' = [at EXCEPT ![s] = "out"]
      /\ UNCHANGED <<started, paused, count, late>>
  BY DEF Submit
<1>2. s \in Processes /\ \A v \in Workers : v \in Processes  BY DEF Processes
<1>3. lock = s /\ lock' = None
  BY <1>1, <1>2 DEF TrialInv, LockIsExclusive, Unlocked, UnderLock
<1>4. "out" \in Places /\ "out" \notin Counting  BY DEF Places, Counting
<1>5. /\ lock' \in Processes \cup {None} /\ at' \in [Processes -> Places]
      /\ LockIsExclusive' /\ at'[s] = "out"
      /\ \A q \in Processes \ {s} : at'[q] = at[q] /\ at'[q] \notin UnderLock
  BY <1>1, <1>2, <1>3, <1>4, LockStep
<1>6. \A q \in Processes : at'[q] \notin UnderLock  BY <1>5 DEF UnderLock, Counting
<1>7. AllowedIsWithin' /\ LatePause'
  BY <1>1, <1>2, <1>6 DEF TrialInv, AllowedIsWithin, LatePause, Processes, UnderLock, Passed
<1>8. UNCHANGED workers  BY DEF Submit, SubmitJob, vars
<1>9. PassingIsIdle' /\ CountsAreSound'  BY <1>1, <1>2, <1>4, <1>5, <1>8, AloneStep
<1>10. Tabled' /\ Limited'
  <2>1. CASE UNCHANGED <<vars, created>>
    BY <1>1, <2>1, TablesKeptStep
  <2>2. ASSUME NEW j \in Jobs, NEW budget \in Budgets, SubmitJob(j, None, budget),
               created' = [created EXCEPT ![j] = 0]
        PROVE  Tabled' /\ Limited'
    <3>1. WithinQuota /\ TrialShape  BY <1>1 DEF TrialInv, AllowedIsWithin
    <3>2. SubmissionsWithinQuota' /\ created' \in [Jobs -> 0..(Day + 1)] /\ MadeKept
      BY <2>2, <3>1, EnterStep
    <3>3. RequestsWithinBudget'  BY <1>1, <3>1, SameFetches, RequestsKeptStep DEF TrialInv
    <3>4. QED BY <1>1, <3>1, <3>2, <3>3 DEF TrialShape, Tabled, Limited, MadeKept
  <2>3. QED BY <2>1, <2>2 DEF Submit
<1>11. TrialShape'  BY <1>1, <1>5, <1>10 DEF TrialInv, TrialShape, Tabled
<1>12. QED BY <1>5, <1>7, <1>9, <1>10, <1>11 DEF TrialInv, Limited

LEMMA SetPausedStep ==
  ASSUME TrialInv, SetPaused
  PROVE  TrialInv'
<1>1. /\ paused' \in BOOLEAN /\ late' = 0
      /\ UNCHANGED <<vars, created, started, lock, at, count>>
  BY DEF SetPaused
<1>2. Tabled' /\ Allowances /\ Limited' /\ UNCHANGED workers /\ KeepsOverlooked
  BY <1>1, TablesKeptStep
<1>3. TrialShape'  BY <1>1, <1>2 DEF TrialInv, TrialShape, Tabled
<1>4. LatePause' /\ LockIsExclusive'  BY <1>1 DEF TrialInv, LatePause, LockIsExclusive
<1>5. AllowedIsWithin'  BY <1>1, <1>2 DEF TrialInv, AllowedIsWithin, Allowances
<1>6. PassingIsIdle'  BY <1>1, <1>2 DEF TrialInv, PassingIsIdle
<1>7. CountsAreSound'  BY <1>1, <1>2, SameFetches, CountsKept
<1>8. QED BY <1>2, <1>3, <1>4, <1>5, <1>6, <1>7 DEF TrialInv, Limited

LEMMA KillStep ==
  ASSUME TrialInv, NEW p \in Processes, KillUnderLock(p)
  PROVE  TrialInv'
<1>1. /\ lock = p /\ lock' = None /\ at' = [at EXCEPT ![p] = "out"]
      /\ UNCHANGED <<vars, created, started, paused, late>> /\ count' = NoCount
  BY DEF KillUnderLock
<1>2. "out" \in Places /\ "out" \notin Passed /\ Counting \subseteq Passed /\ "out" \notin UnderLock
  BY DEF Places, Counting, Passed, UnderLock
<1>3. at[p] # "out"  BY <1>1, <1>2 DEF TrialInv, LockIsExclusive
<1>4. count' \in CountType  BY <1>1 DEF NoCount, CountType
<1>5. QED BY <1>1, <1>2, <1>3, <1>4, PlaceStep

LEMMA TrialTickStep ==
  ASSUME IInv, TrialInv, TrialTick
  PROVE  TrialInv'
<1>1. /\ Tick /\ UNCHANGED <<paused, lock, at, count, late>>
      /\ created' = [j \in Jobs |-> IF jobs[j].state = "absent" THEN created[j]
                                    ELSE Older(created[j])]
      /\ started' = [j \in Jobs |-> [n \in DOMAIN started[j] |-> Older(started[j][n])]]
  BY DEF TrialTick
<1>2. NothingAdded /\ MadeKept  BY <1>1, TickAddsNothing
<1>3. TrialShape  BY DEF TrialInv
<1>4. /\ created' \in [Jobs -> 0..(Day + 1)]
      /\ started' \in [Jobs -> Seq(0..(Day + 1))]
      /\ \A j \in Jobs : Len(started'[j]) = Len(started[j])
      /\ FewerFetches /\ Tries' = Tries
      /\ WithinQuota => WithinQuota'
      /\ SubmissionsWithinQuota => SubmissionsWithinQuota'
  BY <1>1, <1>2, <1>3, AgeingStep
<1>5. (HasSlot => HasSlot') /\ (RequestsWithinBudget => RequestsWithinBudget')
  BY <1>3, <1>4, RequestsKeptStep
<1>6. TrialShape'  BY <1>1, <1>2, <1>3, <1>4 DEF TrialShape, MadeKept
<1>7. LockIsExclusive' /\ LatePause'  BY <1>1 DEF TrialInv, LockIsExclusive, LatePause
<1>8. AllowedIsWithin'  BY <1>1, <1>4, <1>5 DEF TrialInv, AllowedIsWithin
<1>9. UNCHANGED workers  BY <1>1 DEF Tick
<1>10. PassingIsIdle' /\ NobodyBusier  BY <1>1, <1>9 DEF TrialInv, PassingIsIdle, NobodyBusier
<1>11. \A j \in Jobs : jobs'[j].state = jobs[j].state /\ jobs'[j].made = jobs[j].made
  <2>1. \A j \in Jobs : jobs[j] \in Row  BY DEF IInv, TypeOK
  <2>2. QED BY <1>1, <2>1, TickKeepsState
<1>12. Running' = Running
  <2>1. \A t \in Tries : t[1] \in Jobs  BY DEF Tries
  <2>2. QED BY <1>4, <1>11, <2>1 DEF Running
<1>13. KeepsOverlooked  BY <1>3, <1>10, <1>12, NothingOverlooked
<1>14. CountsAreSound'  BY <1>1, <1>4, <1>13, CountsKept
<1>15. QED BY <1>4, <1>5, <1>6, <1>7, <1>8, <1>10, <1>14 DEF TrialInv

(* A try that is left as it is, by a worker that reports or forgets it.      *)
LEMMA MemoryStep ==
  ASSUME IInv, TrialInv, NEW w \in Workers, workers[w].pc # "idle", UNCHANGED <<jobs, trial>>,
         \A v \in Workers \ {w} : workers'[v] = workers[v]
  PROVE  TrialInv'
<1>1. NothingAdded /\ MadeKept  BY DEF NothingAdded, MadeKept
<1>2. NobodyBusier  BY DEF NobodyBusier
<1>3. Running' = Running  BY DEF Running, Tries, trial
<1>4. KeepsOverlooked  BY <1>2, <1>3, NothingOverlooked DEF TrialInv
<1>5. QED BY <1>1, <1>2, <1>4, QueueMovesStep

LEMMA NextTrialInv == IInv /\ TrialInv /\ [TrialNext]_trialVars => TrialInv'
<1> SUFFICES ASSUME IInv, TrialInv, [TrialNext]_trialVars PROVE TrialInv'  OBVIOUS
<1>1. \A p \in Workers \cup Submitters : p \in Processes  BY DEF Processes
<1>2. workers \in [Workers -> Memory]  BY DEF IInv, TypeOK
<1>3. ASSUME NEW w \in Workers, LoopStep(w) PROVE TrialInv'
  <2>1. CASE Pass(w)  BY <1>1, <2>1, WaitingStep DEF Pass
  <2>2. CASE ClaimLock(w)  BY <1>1, <2>2, ClaimLockStep
  <2>3. CASE BudgetStep(w)
    BY <2>3, BeginBudgetStep, CountHourStep, BeginDayStep, CountDayStep DEF BudgetStep
  <2>4. CASE ClaimWithinBudget(w)  BY <2>4, ClaimWithinBudgetStep
  <2>5. CASE Refuse(w)
    <3>1. UNCHANGED <<jobs, trial>> /\ workers[w].pc # "idle"  BY <2>5 DEF Refuse
    <3>2. \A v \in Workers \ {w} : workers'[v] = workers[v]  BY <1>2, <2>5 DEF Refuse
    <3>3. QED BY <3>1, <3>2, MemoryStep
  <2>6. CASE Fetch(w)
    <3>1. UNCHANGED trial /\ (FetchEnds(w) \/ StoreCapture(w) \/ CompleteJob(w)) /\ TrialShape
      BY <2>6 DEF Fetch, TrialInv
    <3>2. UNCHANGED started  BY <3>1 DEF trial
    <3>3. NothingAdded /\ MadeKept /\ NobodyBusier /\ KeepsOverlooked  BY <3>1, <3>2, TryMoves
    <3>4. QED BY <3>1, <3>3, QueueMovesStep
  <2>7. QED BY <1>3, <2>1, <2>2, <2>3, <2>4, <2>5, <2>6 DEF LoopStep
<1>4. ASSUME NEW s \in Submitters, BeginSubmit(s) \/ SubmitStep(s) PROVE TrialInv'
  <2>1. s \notin Workers  BY TrialAssumption
  <2>2. CASE BeginSubmit(s)  BY <1>1, <2>1, <2>2, WaitingStep DEF BeginSubmit
  <2>3. CASE SubmitStep(s)
    BY <1>1, <2>3, ClaimLockStep, CheckQuotaStep, SubmittedStep DEF SubmitStep
  <2>4. QED BY <1>4, <2>2, <2>3
<1>5. CASE SetPaused  BY <1>5, SetPausedStep
<1>6. ASSUME NEW w \in Workers, KillInDownload(w) PROVE TrialInv'
  <2>1. UNCHANGED <<jobs, trial>> /\ workers[w].pc # "idle"
    BY <1>6 DEF KillInDownload, WorkerStops
  <2>2. \A v \in Workers \ {w} : workers'[v] = workers[v]
    BY <1>2, <1>6 DEF KillInDownload, WorkerStops
  <2>3. QED BY <2>1, <2>2, MemoryStep
<1>7. ASSUME NEW p \in Processes, KillUnderLock(p) PROVE TrialInv'  BY <1>7, KillStep
<1>8. CASE TrialTick  BY <1>8, TrialTickStep
<1>9. CASE UNCHANGED trialVars
  <2>1. UNCHANGED <<jobs, workers, trial>>  BY <1>9 DEF trialVars, vars
  <2>2. NothingAdded /\ MadeKept /\ NobodyBusier
    BY <2>1 DEF NothingAdded, MadeKept, NobodyBusier
  <2>3. Running' = Running  BY <2>1 DEF Running, Tries, trial
  <2>4. KeepsOverlooked  BY <2>2, <2>3, NothingOverlooked DEF TrialInv
  <2>5. QED BY <2>1, <2>2, <2>4, QueueMovesStep
<1>10. QED BY <1>3, <1>4, <1>5, <1>6, <1>7, <1>8, <1>9 DEF TrialNext

-----------------------------------------------------------------------------
(* The limits of the service, in every run of every pool.                    *)

(* The invariant of the service holds in every run: the claim lock keeps other *)
(* claims and submissions out while a limit is checked and used, and the     *)
(* queries of a budget overlook at most one try of each other worker         *)
(* (claimWithinBudget, Submit, service.go; JobActivity, jobs.go).           *)
THEOREM TrialInvariantHolds == TrialSafety => []TrialInv
BY TrialInitInv, NextTrialInv, TrialIsQueue, InvariantHolds, PTL DEF TrialSafety

(* The queue and the columns of the service keep their types, and every claim  *)
(* has its start (service.go).                                              *)
THEOREM TrialTyped == TrialSafety => []TrialTypeOK
<1>1. IInv /\ TrialInv => TrialTypeOK  BY DEF IInv, TrialInv, TrialShape, TrialTypeOK
<1>2. QED BY <1>1, TrialInvariantHolds, TrialIsQueue, InvariantHolds, PTL

(* No hour, no day and no interval sees more requests than its limit and one   *)
(* for each other worker, for any number of workers that also stop. One      *)
(* worker alone keeps the limits exactly.                                   *)
THEOREM RequestsLimited ==
  TrialSafety => [](/\ RequestsWithinBudget
                    /\ Cardinality(Workers) = 1 => NoSlotIsUsedTwice)
<1>1. TrialInv => RequestsWithinBudget  BY DEF TrialInv
<1>2. TrialInv /\ Cardinality(Workers) = 1 => NoSlotIsUsedTwice
  <2>1. Cardinality(Workers) = 1 => Overshoot = 0  BY DEF Overshoot
  <2>2. MaxFetchesHour \in Nat /\ MaxFetchesDay \in Nat  BY LimitsAreNumbers
  <2>3. QED BY <2>1, <2>2 DEF TrialInv, RequestsWithinBudget, NoSlotIsUsedTwice
<1>3. QED BY <1>1, <1>2, TrialInvariantHolds, PTL

(* The queue and the day's quota are filled exactly by submissions at once,    *)
(* never beyond.                                                            *)
THEOREM SubmissionsLimited == TrialSafety => []SubmissionsWithinQuota
<1>1. TrialInv => SubmissionsWithinQuota  BY DEF TrialInv
<1>2. QED BY <1>1, TrialInvariantHolds, PTL

(* Once the pause file exists at most one more request is claimed.            *)
THEOREM PauseStops == TrialSafety => []PauseHolds
<1>1. TrialInv => PauseHolds  BY DEF TrialInv, LatePause, PauseHolds
<1>2. QED BY <1>1, TrialInvariantHolds, PTL

(* Fairness takes no behaviour in, so the service with it keeps the limits too. *)
COROLLARY FairTrialKeepsLimits ==
  TrialSpec => [](RequestsWithinBudget /\ SubmissionsWithinQuota /\ PauseHolds)
<1>1. TrialSafety => []RequestsWithinBudget  BY RequestsLimited, PTL
<1>2. QED BY <1>1, SubmissionsLimited, PauseStops, PTL DEF TrialSpec, TrialSafety
=============================================================================
