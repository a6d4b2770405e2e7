SPECIFICATION Spec
CONSTANTS
    g1 = g1
    g2 = g2
    Nobody = Nobody
    Caller <- MCCaller
    MaxSessions = 3
    Fault <- MCExpiry
    DrainFirst = TRUE
INVARIANTS
    CloseEndsEverySession
