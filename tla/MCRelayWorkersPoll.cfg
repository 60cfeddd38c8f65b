SPECIFICATION WSpec
CONSTANTS
    Upper <- MCUpper
    Worker = {w1, w2}
    Tries = 2
    Agent = {a1}
    Input = {i1}
    Value = {v1}
    Key = {}
    None = None
    Exhausted = Exhausted
    MaxTasks = 1
    MaxAttempts = 2
    Lease = 1
INVARIANTS
    PollingOutlivesDisconnect
