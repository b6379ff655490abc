--------------------------- MODULE MCCoordinator ---------------------------
\* Instances of Coordinator: every call has a file of its own.
EXTENDS Coordinator, TLC

OwnFile == [e \in Events |-> e]
Symmetry == Permutations(Events)
=============================================================================
