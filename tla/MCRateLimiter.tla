--------------------------- MODULE MCRateLimiter ---------------------------
(* Instances of RateLimiter: requests and clients are interchangeable.     *)
EXTENDS RateLimiter, TLC

Symmetry == Permutations(Requests) \cup Permutations(Keys)
=============================================================================
