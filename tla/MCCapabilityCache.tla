---- MODULE MCCapabilityCache ----
EXTENDS CapabilityCache, TLC

\* Requests are interchangeable; keys are not, Idle chooses one of them.
Symmetry == Permutations(Requests)
====
