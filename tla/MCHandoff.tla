----------------------------- MODULE MCHandoff -----------------------------
EXTENDS Handoff, TLC
CONSTANTS o1, o2, pdf, md, p1, p2, h1, h2, k1, k2, w1, w2

\* Two captures of the same bytes under different names.
SameBytes == [c \in Captures |-> o1]
OtherNames == [c \in Captures |-> IF c = 1 THEN pdf ELSE md]
\* The second capture has other bytes.
OtherBytes == [c \in Captures |-> IF c = 1 THEN o1 ELSE o2]
BothTypes == {{pdf, md}}
EitherType == {{pdf}, {md}}
Processes == Permutations({k1, k2}) \cup Permutations({w1, w2})
=============================================================================
