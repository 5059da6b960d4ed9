CONSTANTS
    FileSize <- TinyFileSize
    CHUNK_SIZE = 2
    READ_BLOCK_SIZE = 4
    BUFFER_THRESHOLD = 2
    MetaSize = 1
    NoFile = NoFile
    NoBatch = NoBatch
SPECIFICATION Spec
INVARIANT CompleteMeansAll
CHECK_DEADLOCK FALSE
