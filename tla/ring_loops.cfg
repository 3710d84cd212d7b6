SPECIFICATION Spec
CONSTANTS
    ByteSize = 2
    HeaderSize = 2
    MaxLen = 8
    Message <- ShortMessages
INVARIANTS
    PushLoopsAgree
    PopLoopsAgree
    ItemsAreFifo
PROPERTY LoopsEnd
