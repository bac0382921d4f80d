------------------------------ MODULE MCWikiRun ------------------------------
EXTENDS WikiRun, TLC

\* The Notes, then the Concepts.
NotesAndConcepts == <<"notes", "concepts">>

\* Choices are alike.
Alike == Permutations(Choices \ Unnamed)

\* How a job has ended, and what it has spent, says nothing about the next one.
Seen == <<material, store, wiki, run, portions, breaks,
          IF Pending THEN [job EXCEPT !.told = 0] ELSE NoJob>>
==============================================================================
