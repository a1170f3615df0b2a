------------------------------- MODULE MCTrial -------------------------------
(* Small instances of Trial for TLC: http jobs only, one object.             *)
EXTENDS Trial, TLC
CONSTANTS j1, j2, w1, w2, o1, s1, s2, host

OneName   == [w \in Workers |-> host]
HttpJobs  == [j \in Jobs |-> "http"]
HttpWorkers == [w \in Workers |-> "http"]
NoCaptures == [k \in {} |-> [object |-> o1, verified |-> FALSE]]
Alike == Permutations(Workers) \cup Permutations(Submitters)
==============================================================================
