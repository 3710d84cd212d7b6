SPECIFICATION Spec
CONSTANTS
    Byte = {0, 1}
    partitions <- MCPartitions
    ConnectionTable <- MCTable
    Message <- MCMessages
INVARIANT TypeOK
PROPERTIES
    ImplementsRegister
    ReportsDelivery
    FoundUntilShrunk
