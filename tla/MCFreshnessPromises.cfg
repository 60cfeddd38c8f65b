\* Each of these is refuted; TLC stops at the first one it is given.
SPECIFICATION FSpec
CONSTANTS
    Datasets = 1
    Dues = {0, 1}
    MaxLogs = 3
    MaxTime = 2
PROPERTIES
    FreshIsAlwaysHonest
\*  FreshDespiteWaiting
\*  FreshByTodaysSchedule
