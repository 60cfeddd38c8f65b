SPECIFICATION Spec
CONSTANTS
    Agent = {a1, a2}
    Input = {i1}
    Value = {v1, v2}
    Key = {}
    MaxTasks = 2
    MaxAttempts = 3
    Lease = 1
    None = None
    Exhausted = Exhausted
SYMMETRY Symmetric
INVARIANTS
    TypeOK
    AttemptHistory
    RowsAgree
    ResultMatchesAttempt
PROPERTIES
    TerminalIsFinal
    ImplementsLifecycle
