CONSTANTS
    Session = {s1, s2, s3}
    Code = {c1, c2}
    Room = {r1, r2}
    MAX_ROOMS = 1
    MaxAttempts = 1
    MaxHandlers = 2
    NoSession = NoSession
    NoCode = NoCode
    NoRoom = NoRoom
SPECIFICATION Spec
SYMMETRY Symmetry
INVARIANTS
    TypeOK
    WireWithinRoom
    NoMappingAfterClose
PROPERTY NoticeIsKept
