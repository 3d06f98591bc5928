SPECIFICATION Spec
CONSTANTS
    r1 = r1
    r2 = r2
    r3 = r3
    none = none
    k1 = k1
    k2 = k2
    k3 = k3
    Requests = {r1, r2, r3}
    None = none
    Keys = {k1, k2, k3}
    Ttl = 1
    MaxEntries = 2
    VerificationCap = 1
    MaxInvalidations = 1
    Horizon = 2
SYMMETRY Symmetry
CHECK_DEADLOCK FALSE
INVARIANTS AnswersAgeOut DiscoveriesAreShared SharedIsRunning CacheIsBounded
PROPERTIES VerificationIsLimited
