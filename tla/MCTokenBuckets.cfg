SPECIFICATION RateSpec
CONSTANTS
    k1 = k1
    budget = budget
    RateKeys = {k1}
    Budget = budget
    Rate <- MCRate
    Cost <- MCCost
    Capacity <- MCCapacity
    IdleTtl = 5
    MaxBack = 1
    Horizon = 8
CHECK_DEADLOCK FALSE
INVARIANTS GrantsAreBounded PatienceIsRewarded
