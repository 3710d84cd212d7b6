SPECIFICATION Spec
CONSTANTS
    ByteSize = 4
    HeaderSize = 1
    partitions <- MCPartitions
    ConnectionTable <- MCTable
    Message <- MCMessages
PROPERTY TakesWhileRoom
CHECK_DEADLOCK FALSE
