SPECIFICATION FairSpec
CONSTANTS
    ByteSize = 8
    SIZE_QUEUED = 32
    SIZE_HEADER = 6
    MEM_OFFSET = 2
    MEM_LEN = 4
    Chunk = 4
    Handle = 6
    Values <- ValuesDef
    MaxEvents = 3
INVARIANTS
    TypeOK
    ReadWhenGivenBack
    HandedIsWritten
    HeadersAligned
PROPERTIES
    EveryWriteHandled
