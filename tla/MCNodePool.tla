----------------------------- MODULE MCNodePool -----------------------------
\* A node of a source and one of the configuration, each with an exit of its own.
EXTENDS NodePool

OwnExit == [a \in Plain |-> a]
=============================================================================
