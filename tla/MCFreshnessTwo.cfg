SPECIFICATION FSpec
CONSTANTS
    Datasets = 2
    Dues = {0, 1}
    MaxLogs = 2
    MaxTime = 2
INVARIANTS
    FTypeOK
PROPERTIES
    FreshIsHonest
    BreakageIsShown
