SPECIFICATION CreateFairSpec
CONSTANTS
    Request = {r1, r2, r3}
    Key = {k1}
    Body = {b1, b2}
    None = None
    Id = {1, 2, 3}
    Page = 1
    MaxTime = 1
INVARIANTS
    CreateTypeOK
    SameKeySameTask
    WalkIsComplete
PROPERTIES
    EveryRequestIsAnswered
CHECK_DEADLOCK FALSE
