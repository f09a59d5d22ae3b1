-------------------------------- MODULE Sums --------------------------------
(* Sums over finite sets.                                                  *)
EXTENDS Integers, FiniteSets, FiniteSetsExt

\* The sum of f[x] for the members x of S, a subset of the domain of f.
Total(f, S) == MapThenSumSet(LAMBDA x : f[x], S)
=============================================================================
