--------------------------- MODULE MCApplication ---------------------------
\* Instance of Application: every call has a file of its own.
EXTENDS Application

OwnFile == [e \in Events |-> e]
=============================================================================
