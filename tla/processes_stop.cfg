SPECIFICATION Spec
CONSTANTS
    Partitions = {"idle", "red"}
    IdlePartition = "idle"
    NumSlots = 3
    Priorities = {1}
    StackSizes = {16, 32}
    DataSize = 64
    DefaultStack = 16
    MainReserve = 16
    WorkersStop = TRUE
    MaxThreads = 6
    Word = 4096
    MaxTick = 4
PROPERTY StopsCaller
CHECK_DEADLOCK FALSE
