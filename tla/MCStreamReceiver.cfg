CONSTANTS
    ChunkSize <- Sizes
    WRITE_BUFFER_SIZE = 3
SPECIFICATION FairSpec
INVARIANTS
    TypeOK
    DiskIsPrefix
    CompleteIsWhole
    BufferStaysSmall
PROPERTIES
    Completes
    CancelReleases
CHECK_DEADLOCK FALSE
