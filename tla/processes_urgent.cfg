SPECIFICATION Spec
CONSTANTS
    Partitions = {"idle", "red"}
    IdlePartition = "idle"
    NumSlots = 3
    Priorities = {1, 2}
    StackSizes = {16, 32}
    DataSize = 64
    DefaultStack = 16
    MainReserve = 16
    WorkersStop = FALSE
    MaxThreads = 6
    Word = 4096
    MaxTick = 4
PROPERTY ChosenIsMostUrgent
CHECK_DEADLOCK FALSE
