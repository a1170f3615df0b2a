------------------------------ MODULE TryLedger ------------------------------
(****************************************************************************)
(* What the collection queue promises for each job, whatever its workers    *)
(* do: a job is worked on in numbered tries, one at a time; every try that  *)
(* was opened is settled exactly once, in order, before the next opens; the *)
(* bytes a try stores are published in the same step that settles it.       *)
(* There are no clocks, leases, owners or workers here: JobQueue refines    *)
(* this module.                                                             *)
(****************************************************************************)
EXTENDS Naturals, Sequences

CONSTANT Jobs

VARIABLE ledger   \* per job: its phase, its settled tries, its published bytes

Phases   == {"none", "waiting", "open", "finished", "acquired"}
Outcomes == {"acquired", "held", "retry", "failed", "human_action_required",
             "lease_expired"}

Entry == [phase : Phases, tries : Seq(Outcomes), published : SUBSET Nat]

Empty == [phase |-> "none", tries |-> <<>>, published |-> {}]

Submits(l, m) == l.phase = "none" /\ m = [l EXCEPT !.phase = "waiting"]

Opens(l, m) == l.phase = "waiting" /\ m = [l EXCEPT !.phase = "open"]

(* The phase a settled try leaves its job in. Only a try that stored nothing *)
(* and may be tried again sends the job back to the queue.                  *)
PhasesAfter(outcome) ==
  CASE outcome \in {"retry", "lease_expired"}          -> {"waiting", "finished"}
    [] outcome \in {"failed", "human_action_required", "held"} -> {"finished"}
    [] outcome = "acquired"                            -> {"acquired"}

Settles(l, m) ==
  /\ l.phase = "open"
  /\ \E outcome \in Outcomes :
       /\ m.tries = Append(l.tries, outcome)
       /\ m.phase \in PhasesAfter(outcome)
       /\ \/ m.published = l.published
          \/ /\ outcome = "held"
             /\ m.published = l.published \cup {Len(m.tries)}

(* An operator puts a finished job back; a job with verified bytes stays.   *)
Reopens(l, m) == l.phase = "finished" /\ m = [l EXCEPT !.phase = "waiting"]

JobStep(l, m) == Submits(l, m) \/ Opens(l, m) \/ Settles(l, m) \/ Reopens(l, m)

Init == ledger = [j \in Jobs |-> Empty]

(* One claim may settle several lost tries and open another: each job moves *)
(* by at most one step of its own.                                          *)
Next ==
  /\ ledger' \in [Jobs -> Entry]
  /\ \A j \in Jobs : ledger'[j] = ledger[j] \/ JobStep(ledger[j], ledger'[j])

Spec == Init /\ [][Next]_ledger
==============================================================================
