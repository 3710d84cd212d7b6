\* CHECK_DEADLOCK FALSE: the builder ends, in main or in Error_Handler.
SPECIFICATION Spec
CONSTANTS
    Configurations <- OrderlyConfigurations
    PartitionIds = {1, 2, 3, 4}
    IdlePartition = 0
    NoPartition = NULL
    MaxNumWindows = 11
    Sentinel = 50
    MajorFrame = 20
    Word <- MCWord
INVARIANTS
    TypeOK
    Ordered
    IdleIsFree
    BuiltAsExpected
    CoversFrame
PROPERTY EventuallyBuiltOrPanics
CHECK_DEADLOCK FALSE
