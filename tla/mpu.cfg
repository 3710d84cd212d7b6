SPECIFICATION Spec
CONSTANTS
    Requests <- MCRequests
    Base <- MCBase
    AddressWord = 1073741824
    PercWord = 256
INVARIANTS
    TypeOK
    BlocksDisjoint
    InAlignedRegion
