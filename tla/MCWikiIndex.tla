---------------------------- MODULE MCWikiIndex ----------------------------
(* Instances of WikiIndex for TLC.                                          *)
EXTENDS WikiIndex, TLC

\* The third version has the content of the first.
Returning == [v \in 0 .. MaxVersion |-> IF v = 3 THEN 1 ELSE v]
\* Every version has a content of its own.
Distinct == [v \in 0 .. MaxVersion |-> v]

\* Calls are alike.
AlikeCalls == Permutations(Callers)
=============================================================================
