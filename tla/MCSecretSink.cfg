SPECIFICATION FairSpec
CONSTANTS
    p1 = p1
    p2 = p2
    k1 = k1
    i1 = i1
    i2 = i2
    Procs = {p1, p2}
    Keys = {k1}
    Inputs = {i1, i2}
    Requests <- AnyRequest
    MaxMints <- TwoMints
    MaxFailures = 1
    None = None
INVARIANTS AtMostOneLive LiveIsAccounted AnswersAreStored
PROPERTIES KeepsPromise CallsEnd
