------------------------------ MODULE MCHwio ------------------------------
\* Model-checking instance of Hwio: two threads that write.
EXTENDS Hwio, TLC

HwioSymmetry == Permutations(Messages) \cup Permutations(Writers)
=============================================================================
