---------------------------- MODULE MCBgSched ----------------------------
\* Model-checking instance of BgSched.
EXTENDS BgSched, TLC

\* No action tells one task from another.
TaskSymmetry == Permutations(Tasks)
=============================================================================
