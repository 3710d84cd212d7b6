SPECIFICATION KSpec
CONSTANTS
    Schedules <- TilingTables
    NoPartition = NULL
    MajorFrame = 2
    TickWord = 3
    Period = 3
    CyclesPerMicro = 2
    CycleWord = 6
    NanoWord = 1500
    TotalWord = 2000
    MaxSince = 0
    HalfRegister = 1
    Integers32 <- AllIntegers
    TimeOuts <- SomeTimeOuts
    BootTicks = TRUE
PROPERTY NoTickInBoot
