CONSTANTS
    FileSize <- MCFileSize
    CHUNK_SIZE = 2
    READ_BLOCK_SIZE = 4
    BUFFER_THRESHOLD = 2
    MetaSize = 1
    NoFile = NoFile
    NoBatch = NoBatch
SPECIFICATION FairSpec
INVARIANTS TypeOK BufferBounded OneSendLoop
PROPERTIES FilesArriveWhole TransferEnds SuccessIsShared
CHECK_DEADLOCK FALSE
