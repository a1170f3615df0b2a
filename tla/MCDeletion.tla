----------------------------- MODULE MCDeletion -----------------------------
(* Object 2 is made from two sources, 1 and 3, or from three, with 4.         *)
EXTENDS Deletion

MCObjects == {1, 2, 3}
TwoSources == {<<2, 1>>, <<2, 3>>}

FourObjects == {1, 2, 3, 4}
ThreeSources == {<<2, 1>>, <<2, 3>>, <<2, 4>>}
==============================================================================
