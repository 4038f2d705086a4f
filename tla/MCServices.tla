----------------------------- MODULE MCServices -----------------------------
EXTENDS Services, TLC
MCSymmetry == Permutations(Procs)
=============================================================================
