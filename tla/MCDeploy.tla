------------------------------ MODULE MCDeploy ------------------------------
EXTENDS Deploy, TLC
MCSymmetry == Permutations(Procs) \cup Permutations(Projects)
=============================================================================
