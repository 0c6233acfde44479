------------------------------ MODULE MCLimiter ------------------------------
EXTENDS Limiter, TLC

LimiterSymmetry == Permutations(Instances)
=============================================================================
