---- MODULE MCDestructiveCalls ----
EXTENDS DestructiveCalls, TLC

\* Calls, credentials and destructive targets are interchangeable.
Symmetry ==
    Permutations(Calls) \cup Permutations(Credentials) \cup Permutations(Destructive)
====
