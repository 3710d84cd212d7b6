\* CHECK_DEADLOCK FALSE: following the undefined pointer is the end.
SPECIFICATION Spec
CONSTANTS
    Partitions = {"idle", "red", "stdio"}
    IdlePartition = "idle"
    NumSlots = 3
    Priorities = {1, 2}
    StackSizes = {16, 64}
    DataSize = 96
    DefaultStack = 16
    MainReserve = 16
    WorkersStop = TRUE
    MaxThreads = 6
    Word = 4096
    MaxTick = 3
INVARIANTS
    TypeOK
    ContextsAtHome
    StacksDisjoint
    AlwaysACandidate
PROPERTIES
    ChosenIsNotDominated
    MainsStopThemselves
    WorkersRun
CHECK_DEADLOCK FALSE
