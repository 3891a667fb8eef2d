--------------------------- MODULE MCRateLimiter ---------------------------
EXTENDS RateLimiter, TLC

\* Requests and replicas are interchangeable: nothing tells members apart.
Symmetry == Permutations(Requests) \union Permutations(Replicas)
=============================================================================
