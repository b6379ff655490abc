---------------------------- MODULE MCObservedFs ----------------------------
\* Instances of ObservedFs: a camera with a second session (it reconnects while its
\* old session is still up), alone or beside another camera.
EXTENDS ObservedFs, TLC

CONSTANTS c1, c2, s1, s2, s3

Reconnecting == [s \in Sessions |-> IF s = s3 THEN c2 ELSE c1]
PhysSymmetry == Permutations(Phys)
Symmetry == PhysSymmetry \cup Permutations(Names) \cup Permutations({s1, s2})
=============================================================================
