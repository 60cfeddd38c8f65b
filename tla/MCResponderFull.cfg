SPECIFICATION RFairSpec
CONSTANTS
    Fingerprint = {f1, f2}
    MaxIncidents = 3
    MaxQueue = 1
    Budget = 1
    Hour = 2
    Window = 2
    MaxTime = 1
    MaxRestarts = 0
    Closable = {}
    Resolvable = {}
PROPERTIES
    PromisedIsHandled
CHECK_DEADLOCK FALSE
