CONSTANTS
    Session = {s1, s2, s3}
    Code = {c1}
    Room = {r1}
    MAX_ROOMS = 1
    MaxAttempts = 1
    MaxHandlers = 2
    NoSession = NoSession
    NoCode = NoCode
    NoRoom = NoRoom
SPECIFICATION Spec
INVARIANT OneReceiverPerRoom
