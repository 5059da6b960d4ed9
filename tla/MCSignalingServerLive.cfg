CONSTANTS
    Session = {s1, s2}
    Code = {c1}
    Room = {r1, r2, r3}
    MAX_ROOMS = 1
    MaxAttempts = 0
    MaxHandlers = 2
    NoSession = NoSession
    NoCode = NoCode
    NoRoom = NoRoom
SPECIFICATION SweepSpec
INVARIANT RoomCountBound
PROPERTY ExpiredRoomsGo
