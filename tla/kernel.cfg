SPECIFICATION KSpec
CONSTANTS
    Schedules <- TilingTables
    NoPartition = NULL
    MajorFrame = 3
    TickWord = 5
    Period = 2
    CyclesPerMicro = 2
    CycleWord = 5
    NanoWord = 2000
    TotalWord = 2000
    MaxSince = 6
    HalfRegister = 1
    Integers32 <- AllIntegers
    TimeOuts <- SomeTimeOuts
    BootTicks = FALSE
INVARIANTS
    KTypeOK
    RunsInItsWindow
    NeverLost
    ServedForCaller
    ArgumentsArrive
PROPERTIES
    TimeKeepsPace
    WindowsComeRound
