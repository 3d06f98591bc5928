SPECIFICATION Spec
CONSTANTS
    d1 = d1
    d2 = d2
    f1 = f1
    old = old
    none = none
    Downloads = {d1, d2}
    Others = {f1}
    Old = old
    None = none
    MaxRemovals = 1
CHECK_DEADLOCK FALSE
INVARIANTS TargetIsWhole NothingIsLeft
PROPERTIES OthersAreKept DownloadsEnd
