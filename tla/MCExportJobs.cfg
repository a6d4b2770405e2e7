SPECIFICATION FairSpec
CONSTANTS
    r1 = r1
    r2 = r2
    a = a
    b = b
    d1 = d1
    NoPath = NoPath
    Run <- MCRun
    Path <- MCPath
    Choice <- MCChoice
    Reader <- MCReader
    Metrics = 1
    MaxRuns = 1
    Keep = 1
    Fault <- MCFault
    MaxRestarts = 1
CHECK_DEADLOCK FALSE
INVARIANTS
    TypeOK
    RunningIsAtWork
    CancelHonoured
    SuccessIsWhole
PROPERTIES
    FinishedStaysFinished
    PruneAloneKeeps
    EveryRunEnds
