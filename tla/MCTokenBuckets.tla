---- MODULE MCTokenBuckets ----
EXTENDS TokenBuckets

CONSTANTS k1, budget

\* Two tokens of two milliseconds for a key, one of three for the budget.
MCRate == [k \in {k1, budget} |-> IF k = budget THEN 4 ELSE 3]
MCCost == [k \in {k1, budget} |-> IF k = budget THEN 12 ELSE 6]
MCCapacity == [k \in {k1, budget} |-> 12]
====
