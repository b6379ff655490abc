---------------------------- MODULE MCIngestion ----------------------------
\* Instance of Ingestion: a camera with a second session, which reconnects while its
\* old session is still up.
EXTENDS Ingestion, TLC

CONSTANTS c1, s1, s2

OneCamera == [s \in Sessions |-> c1]
Symmetry == Permutations(Phys) \cup Permutations(Sessions) \cup Permutations(Names)
=============================================================================
