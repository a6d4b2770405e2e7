SPECIFICATION FairSpec
CONSTANTS
    g1 = g1
    g2 = g2
    Nobody = Nobody
    Caller <- MCCaller
    MaxSessions = 3
    Fault <- MCAllFaults
    DrainFirst = FALSE
INVARIANTS
    TypeOK
    CachedTokenNotClosed
PROPERTIES
    CallsReturn
    SingleFlightSpec
