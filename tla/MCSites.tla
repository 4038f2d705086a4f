------------------------------ MODULE MCSites ------------------------------
EXTENDS Sites, TLC
MCSymmetry == Permutations(Procs)
=============================================================================
