SPECIFICATION Spec
CONSTANTS
    p1 = p1
    p2 = p2
    p3 = p3
    Procs = {p1, p2, p3}
    None = None
    MaxFaults = 1
SYMMETRY Symmetry
PROPERTIES AppendsInTurn LiveLockStays
