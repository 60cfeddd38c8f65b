\* Each of these is refuted; TLC stops at the first one it is given.
SPECIFICATION MSpec
CONSTANTS
    MaxIncidents = 1
    MaxCommits = 0
    Run <- Small
INVARIANTS
    ResolvedHasFix
\*  SuiteRunsWithoutFix
\*  RolledBackIsUndone
\*  WorktreeIsGone
