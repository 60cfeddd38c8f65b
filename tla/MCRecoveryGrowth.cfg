SPECIFICATION RecSpec
CONSTANTS
    Month = 3
    Delay = 1
    LogLimit = 2
    MaxOrders = 3
    MaxFailures = 2
    MaxProcesses = 3
    Settle = 2
    MaxPaths = 2
    Fix <- Versions
PROPERTIES
    GrowthIsNoticed
CHECK_DEADLOCK FALSE
