--------------------------- MODULE MCRateLimiter ---------------------------
EXTENDS RateLimiter, TLC

InStep == [h \in Replicas |-> 0]           \* all replicas agree on the time
RequestSymmetry == Permutations(Requests)
=============================================================================
