CONSTANTS
    Session = {s1, s2}
    Code = {c1}
    Room = {r1}
    MAX_ROOMS = 1
    MaxAttempts = 1
    MaxHandlers = 1
    NoSession = NoSession
    NoCode = NoCode
    NoRoom = NoRoom
SPECIFICATION FairSpec
PROPERTIES

    MappingsExpire
