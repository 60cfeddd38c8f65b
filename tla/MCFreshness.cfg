SPECIFICATION FSpec
CONSTANTS
    Datasets = 1
    Dues = {0, 1}
    MaxLogs = 3
    MaxTime = 2
PROPERTIES
    FreshIsHonest
    BreakageIsShown
