\* Each of these is refuted; TLC stops at the first one it is given.
SPECIFICATION MSpec
CONSTANTS
    MaxIncidents = 2
    MaxCommits = 1
    Run <- Small
INVARIANTS
    CommitsStayReachable
\*  VersionTellsCode
\* PROPERTIES
\*  RollbackTargetIsRunning
\*  VerifiedOrRolledBack
