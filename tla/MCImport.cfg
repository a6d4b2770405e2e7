SPECIFICATION Spec
CONSTANTS
    Files <- MCFiles
    BatchSizes <- MCBatchSizes
    Groups <- MCGroups
    NoGroup = ""
INVARIANTS
    TypeOK
    ReceivedIsPrefix
    SuccessIsComplete
    CancelHonoured
    SeriesInOrder
CHECK_DEADLOCK FALSE
