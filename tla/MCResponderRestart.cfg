SPECIFICATION RFairSpec
CONSTANTS
    Fingerprint = {f1}
    MaxIncidents = 1
    MaxQueue = 1
    Budget = 1
    Hour = 2
    Window = 2
    MaxTime = 1
    MaxRestarts = 1
    Closable = {}
    Resolvable = {}
PROPERTIES
    PromisedIsHandled
CHECK_DEADLOCK FALSE
