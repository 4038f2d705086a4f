------------------------------ MODULE MCLogin ------------------------------
EXTENDS Login, TLC
MCSymmetry == Permutations(Addrs) \cup Permutations(Reqs)
=============================================================================
