CONSTANTS
    File = {f1, f2}
    CodeLength = 2
    Socket = {1, 2}
    NoSocket = NoSocket
    maxReconnectAttempts = 2
    MaxClicks = 2
SPECIFICATION FairSpec
INVARIANTS
    TypeOK
    NoReconnectStorm
    ListIsTrue
    NoDeadButton
PROPERTIES
    OnlyUsersReconnect
    ComesBack
    ClickIsAnswered
CHECK_DEADLOCK FALSE
