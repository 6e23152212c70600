---------------------------- MODULE MCBaseMotion ----------------------------
\* Model-checking instance of BaseMotion: motions of two ticks.
EXTENDS BaseMotion
=============================================================================
