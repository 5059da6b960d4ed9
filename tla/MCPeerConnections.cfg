CONSTANTS
    Tab = {a, b}
    First = a
    NoPC = NoPC
    MaxRooms = 2
SPECIFICATION FairSpec
INVARIANTS
    TypeOK
    IdleStartsClean
    SendersSend
PROPERTIES
    Connects
CHECK_DEADLOCK FALSE
