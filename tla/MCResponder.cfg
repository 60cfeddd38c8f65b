SPECIFICATION RFairSpec
CONSTANTS
    Fingerprint = {f1}
    MaxIncidents = 2
    MaxQueue = 2
    Budget = 1
    Hour = 2
    Window = 3
    MaxTime = 2
    MaxRestarts = 1
    Closable = {1}
    Resolvable = {f1}
INVARIANTS
    RTypeOK
    StormRunsOnce
    BudgetHolds
    FinishedIsRecorded
PROPERTIES
    QueuedIsHandled
CHECK_DEADLOCK FALSE
