----------------------------- MODULE MCIngestQueue -----------------------------
\* Two requests for one material.
EXTENDS IngestQueue, TLC

CONSTANTS j1, j2, m1

OneMaterial == j1 :> m1 @@ j2 :> m1
================================================================================
