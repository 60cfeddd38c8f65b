SPECIFICATION MSpec
CONSTANTS
    MaxIncidents = 2
    MaxCommits = 1
    Run <- AllRuns
INVARIANTS
    MTypeOK
    OnlyGatedFixesRun
    RolledBackLeavesBranch
    NoWorktreeLeft
PROPERTIES
    ResolvedRunsItsFix
