CONSTANTS
    MaxTasks = 4
    MaxPid = 5
SPECIFICATION FairSpec
INVARIANTS
    TypeOK
    ContextIsCurrent
    FrameIntact
    LostOnlyInAdd
PROPERTIES
    RoundRobin
    ImplementsTaskSet
    RunnableRuns
    SpawnReturns
