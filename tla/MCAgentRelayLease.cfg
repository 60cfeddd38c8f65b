SPECIFICATION FairSpec
CONSTANTS
    Agent = {a1}
    Input = {i1, i2}
    Value = {v1}
    Key = {k1}
    MaxTasks = 2
    MaxAttempts = 2
    Lease = 2
    None = None
    Exhausted = Exhausted
INVARIANTS
PROPERTIES
    LeaseNeverRevived
    GrantIsFair
    RetriedCreateFindsTask
    AbandonedIsRecovered
