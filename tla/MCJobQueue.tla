----------------------------- MODULE MCJobQueue -----------------------------
(* Small instances of JobQueue for TLC. Both workers use one name, so only   *)
(* the attempt number tells them apart.                                     *)
EXTENDS JobQueue, TLC

CONSTANTS j1, j2, w1, w2, o1, o2, k1, k2, host

MCOwnerOf        == [w \in Workers |-> host]
MCJobExecutor    == [j \in Jobs |-> "http"]
MCWorkerExecutor == [w \in Workers |-> "http"]
BrowserJobs      == [j \in Jobs |-> "browser"]
BrowserWorkers   == [w \in Workers |-> "browser"]
TwoJobExecutor   == [j \in Jobs |-> IF j = j1 THEN "http" ELSE "browser"]
TwoWorkerExecutor == [w \in Workers |-> IF w = w1 THEN "http" ELSE "browser"]
MCKnown          == k1 :> [object |-> o1, verified |-> TRUE] @@
                    k2 :> [object |-> o1, verified |-> FALSE]
NoKnown          == [k \in {} |-> [object |-> o1, verified |-> FALSE]]
==============================================================================
