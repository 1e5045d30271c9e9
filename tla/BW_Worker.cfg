SPECIFICATION FairSpec
CONSTANTS
    NoTask = NoTask
    MaxTasks = 4
INVARIANTS
    TypeOK
    NoLostWakeup
    JoinDrains
PROPERTIES
    ImplementsExecutor
