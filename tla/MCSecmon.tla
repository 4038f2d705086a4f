----------------------------- MODULE MCSecmon ------------------------------
EXTENDS Secmon
MCSymmetry == Permutations(Addrs) \cup Permutations(Users)
=============================================================================
