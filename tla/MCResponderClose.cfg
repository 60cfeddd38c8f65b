SPECIFICATION RSpec
CONSTANTS
    Fingerprint = {f1}
    MaxIncidents = 2
    MaxQueue = 2
    Budget = 1
    Hour = 2
    Window = 2
    MaxTime = 3
    MaxRestarts = 0
    Closable = {1, 2}
    Resolvable = {f1}
INVARIANTS
    ClosedStaysClosed
CHECK_DEADLOCK FALSE
