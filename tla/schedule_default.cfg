\* CHECK_DEADLOCK FALSE: the builder ends, in main or in Error_Handler.
SPECIFICATION Spec
CONSTANTS
    Configurations <- DefaultSchema
    PartitionIds = {1, 2, 3, 4, 5}
    IdlePartition = 0
    NoPartition = NULL
    MaxNumWindows = 20
    Sentinel = 5000
    MajorFrame = 20
    Word = 1000000
INVARIANTS
    Ordered
CHECK_DEADLOCK FALSE
