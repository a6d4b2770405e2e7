SPECIFICATION FairSpec
CONSTANTS
    g1 = g1
    g2 = g2
    p = p
    b1 = b1
    b2 = b2
    Call <- MCCall
    Endpoint <- MCEndpoint
    Primary = p
    NoEndpoint = NoEndpoint
    BackupLists <- MCBackups
    Retries = 2
    TTL = 1
CHECK_DEADLOCK FALSE
INVARIANTS
    TypeOK
    WalkIsExhaustive
    GrowthIsSafe
    OneWalkAfterDeadline
PROPERTIES
    SticksToLastGood
    CallsReturn
