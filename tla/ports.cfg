SPECIFICATION Spec
CONSTANTS
    ByteSize = 4
    HeaderSize = 1
    partitions <- MCPartitions
    ConnectionTable <- MCTable
    Message <- MCMessages
INVARIANTS
    TypeOK
    CountIsMessages
PROPERTIES
    ImplementsFifo
    ReportsDelivery
    TakesWhatFits
    Served
CHECK_DEADLOCK FALSE
