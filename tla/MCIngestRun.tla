---------------------------- MODULE MCIngestRun ----------------------------
(* Instances of IngestRun for TLC.                                          *)
EXTENDS IngestRun

CONSTANTS c1, c2, slugA, slugB

\* Two files whose names give one slug: "Paper 1.pdf" and "paper-1.md".
SharedSlug == [x \in Sources \X Contents |-> slugA]

\* A file name without letters or digits: the slug is taken from the content.
ContentSlug == [x \in Sources \X Contents |-> IF x[2] = c1 THEN slugA ELSE slugB]

AnyEdit == (Contents \cup {Gone}) \X (Contents \cup {Gone})

\* Edits that do not come back to a content the file had before.
NewContents == {<<c1, c2>>, <<c1, Gone>>, <<c2, Gone>>, <<Gone, c2>>}

\* A file that is taken away and comes back as it was.
Returns == {<<c1, Gone>>, <<Gone, c1>>}

\* A file changes, is taken away, and comes back as it was at first.
Comings == {<<c1, c2>>, <<c1, Gone>>, <<c2, Gone>>, <<Gone, c1>>}

IdleOnly == {"idle"}
=============================================================================
