--------------------------- MODULE MCMlinkServer ---------------------------
\* Model-checking instance of MlinkServer: the requests are the scheduler's
\* tasks and the connection's messages.
EXTENDS MlinkServer, TLC

RequestSymmetry == Permutations(Tasks)
=============================================================================
