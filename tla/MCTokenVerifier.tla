---- MODULE MCTokenVerifier ----
EXTENDS TokenVerifier, TLC

\* Calls are interchangeable.
Symmetry == Permutations(Calls)
====
