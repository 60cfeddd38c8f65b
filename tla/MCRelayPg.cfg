SPECIFICATION PgSpec
CONSTANTS
    Session = {s1, s2, s3}
    Value = {v1}
    None = None
    Exhausted = Exhausted
    Free = Free
    MaxTasks = 1
    MaxAttempts = 2
    Lease = 2
    Skew = 1
    MaxTime = 2
SYMMETRY Symmetric
INVARIANTS
    PgTypeOK
    OneAnswer
PROPERTIES
    OnlyExpiredIsTaken
    PgImplementsLifecycle
