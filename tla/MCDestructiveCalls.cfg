SPECIFICATION Spec
CONSTANTS
    c1 = c1
    c2 = c2
    delete = delete
    purge = purge
    read = read
    k1 = k1
    k2 = k2
    Calls = {c1, c2}
    Targets = {delete, purge, read}
    Destructive = {delete, purge}
    Credentials = {k1, k2}
    MaxAge = 1
    MaxTime = 2
    MaxPrompts = 1
SYMMETRY Symmetry
INVARIANTS RunsArePermitted AuditNamesApprover ApprovalsAreHonoured
