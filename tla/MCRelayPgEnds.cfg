SPECIFICATION PgFairSpec
CONSTANTS
    Session = {s1, s2}
    Value = {v1}
    None = None
    Exhausted = Exhausted
    Free = Free
    MaxTasks = 2
    MaxAttempts = 1
    Lease = 1
    Skew = 0
    MaxTime = 1
PROPERTIES
    EveryTransactionEnds
