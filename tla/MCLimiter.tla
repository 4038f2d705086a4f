----------------------------- MODULE MCLimiter -----------------------------
EXTENDS Limiter, TLC
MCSymmetry == Permutations(Keys) \cup Permutations(Reqs)
=============================================================================
