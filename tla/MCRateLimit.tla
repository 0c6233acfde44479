----------------------------- MODULE MCRateLimit -----------------------------
EXTENDS RateLimit, TLC

KeySymmetry == Permutations(Keys)
InstanceSymmetry == Permutations(Instances)
=============================================================================
