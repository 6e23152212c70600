----------------------------- MODULE MCPidFile -----------------------------
\* Model-checking instance of PidFile.  Pids are interchangeable.
EXTENDS PidFile, TLC

PidSymmetry == Permutations(Pids)
=============================================================================
