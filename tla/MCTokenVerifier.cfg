SPECIFICATION Spec
CONSTANTS
    c1 = c1
    c2 = c2
    shared = shared
    k1 = k1
    Calls = {c1, c2}
    Shared = shared
    Keys = {k1}
    Timeout = 1
    MaxRetries = 1
    RetryDelay = 0
    CircuitFailures = 2
    OpenTime = 2
    Cooldown = 1
    MinTtl = 2
    MaxTtl = 2
    TokenTtl = 1
    Horizon = 5
SYMMETRY Symmetry
CHECK_DEADLOCK FALSE
INVARIANTS KeysAgeOut RotationIsSeen OutagesAreLeftAlone NobodyWaitsAlone WaitsAreBounded
