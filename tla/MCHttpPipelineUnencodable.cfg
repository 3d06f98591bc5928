SPECIFICATION Spec
CONSTANTS
    r1 = r1
    r2 = r2
    r3 = r3
    client = client
    cred1 = cred1
    cred2 = cred2
    discovery = discovery
    verify = verify
    Requests = {r1, r2, r3}
    Keys = {client, cred1, cred2, discovery, verify}
    ClientKeys = {client}
    CredentialKeys = {cred1, cred2}
    DiscoveryKey = discovery
    VerificationKey = verify
    NoKey = NoKey
    NamesEncodable = FALSE
    MaxTotal = 2
    MaxPerKey = 1
INVARIANT SlotAccounting
\* The process exits: nothing follows.
CHECK_DEADLOCK FALSE
