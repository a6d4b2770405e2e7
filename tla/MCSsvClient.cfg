SPECIFICATION Spec
CONSTANTS
    g1 = g1
    g2 = g2
    p = p
    b1 = b1
    x = x
    Call <- MCCall
    Endpoint <- MCEndpoint
    Primary = p
    NoEndpoint = NoEndpoint
    Retries = 0
    TTL = 1
    Unusable <- MCUnusable
    AddressLists <- MCAddressLists
    MaxObjects = 3
    MaxSessions = 2
    MaxFaults = 1
SYMMETRY Calls
CHECK_DEADLOCK FALSE
INVARIANTS
    TypeOK
    KeptPairsShareSession
    OneOpenPerTarget
    CloseEndsKept
PROPERTIES
    FailoverSpec
