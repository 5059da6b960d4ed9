-------------------------- MODULE SignalingClient --------------------------
(***************************************************************************)
(* The signaling client of one tab (signaling.js) under the page of        *)
(* SharePage: its WebSockets, the reconnection with its timers, the        *)
(* handlers of app.js that connect and that hear of the result, and the    *)
(* part of the server that answers.                                        *)
(*                                                                         *)
(* Every socket's handlers are bound to the one client, so that an event   *)
(* of a socket that has been replaced acts on its replacement.             *)
(***************************************************************************)
EXTENDS SharePage, FiniteSets

CONSTANTS
    Socket,                 \* WebSocket objects; one that is closed for good
                            \* serves as a new one
    NoSocket,               \* null
    maxReconnectAttempts,
    MaxClicks               \* bound of the model: clicks on the two buttons

ASSUME ClientAssumption ==
    /\ IsFiniteSet(Socket) /\ Cardinality(Socket) >= MaxClicks
    /\ NoSocket \notin Socket
    /\ maxReconnectAttempts \in Nat /\ MaxClicks \in Nat

VARIABLES
    ws,
    currentRoomCode,    \* the socket over which the code was received, or null
    intentionalClose,
    reconnectAttempts,
    reconnectTimer,     \* whether the timer in _reconnectTimer is pending
    strayTimers,        \* pending timers that _reconnectTimer no longer holds
    readyState,         \* of each socket; "closed" once its close event is over
    awaits,             \* the click that awaits the promise of connect(), if any
    member,             \* server: whether the session of the socket has a room
    inbox,              \* messages on their way to the tab
    \* history
    clicks,             \* how often a button has been pressed
    interrupted         \* buttons waiting when a connection was lost

clientVars == <<ws, currentRoomCode, intentionalClose, reconnectAttempts,
                reconnectTimer, strayTimers, readyState, awaits, member, inbox,
                clicks, interrupted>>
vars == <<pageVars, clientVars>>

-----------------------------------------------------------------------------
Open(s, states) == s # NoSocket /\ states[s] = "open"
Connected == Open(ws, readyState)
Live == {s \in Socket : readyState[s] # "closed"}
Timers == strayTimers + IF reconnectTimer THEN 1 ELSE 0

(* connect() on a client that is not connected, for click b or "none".     *)
NewSocket(b) ==
    /\ intentionalClose' = FALSE
    /\ ws' = CHOOSE s \in Socket : readyState[s] = "closed"
    /\ readyState' = [readyState EXCEPT ![ws'] = "connecting"]
    /\ awaits' = [awaits EXCEPT ![ws'] = b]

(* createRoom or joinRoom, when the promise has resolved: _send refuses a  *)
(* socket that is not open; the server refuses a session that has a room,  *)
(* a wrong code or one too many.                                           *)
Send(b, btns, states) ==
    IF Open(ws, states)
    THEN /\ button' = btns
         /\ \E type \in {b, "error"} :
                /\ type = b => ~member[ws]
                /\ member' = [member EXCEPT ![ws] = @ \/ type = b]
                /\ inbox' = [inbox EXCEPT ![ws] = Append(@, type)]
    ELSE /\ button' = Enable(btns, Button)
         /\ UNCHANGED <<member, inbox>>

(* "Create Share Link" and "Connect to Sender".                            *)
Click(b) ==
    /\ At(IF b = "create" THEN "send" ELSE "receive")
    /\ ~button[b].disabled /\ ~button[b].hidden
    /\ IF b = "create" THEN selectedFiles # <<>> ELSE Full(roomCodeInputs)
    /\ clicks < MaxClicks /\ clicks' = clicks + 1
    /\ interrupted' = IF reconnectAttempts = 0 THEN interrupted \ {b}
                      ELSE interrupted \cup {b}
    /\ IF Connected
       THEN /\ Send(b, Press(b), readyState)
            /\ UNCHANGED <<ws, intentionalClose, readyState, awaits>>
       ELSE /\ button' = Press(b)
            /\ NewSocket(b)
            /\ UNCHANGED <<member, inbox>>
    /\ UNCHANGED <<view, selectedFiles, listed, area, picker, roomCodeInputs,
                   currentRoomCode, reconnectAttempts, reconnectTimer,
                   strayTimers>>

-----------------------------------------------------------------------------
(* onopen; what awaits the promise goes on at once, on the socket that ws  *)
(* holds by now.                                                           *)
OnOpen(s) ==
    /\ readyState[s] = "connecting"
    /\ readyState' = [readyState EXCEPT ![s] = "open"]
    /\ reconnectAttempts' = 0
    /\ awaits' = [awaits EXCEPT ![s] = "none"]
    /\ IF awaits[s] \in Button
       THEN Send(awaits[s], button, readyState')
       ELSE UNCHANGED <<button, member, inbox>>
    /\ UNCHANGED <<view, selectedFiles, listed, area, picker, roomCodeInputs, ws,
                   currentRoomCode, intentionalClose, reconnectTimer,
                   strayTimers, clicks, interrupted>>

ScheduleReconnect_OneTooMany(btns) ==   \* mutant: > for >=
    IF reconnectAttempts > maxReconnectAttempts
    THEN /\ button' = Enable(btns, Button)
         /\ UNCHANGED <<reconnectAttempts, reconnectTimer, strayTimers>>
    ELSE /\ reconnectAttempts' = reconnectAttempts + 1
         /\ reconnectTimer' = TRUE
         /\ strayTimers' = Timers
         /\ button' = btns

ScheduleReconnect_Once(btns) ==     \* mutant: no retry of a failed retry
    IF reconnectAttempts > 0
    THEN /\ button' = Enable(btns, Button)
         /\ UNCHANGED <<reconnectAttempts, reconnectTimer, strayTimers>>
    ELSE /\ reconnectAttempts' = reconnectAttempts + 1
         /\ reconnectTimer' = TRUE
         /\ strayTimers' = Timers
         /\ button' = btns

(* _scheduleReconnect; a pending timer is overwritten, not cleared.        *)
ScheduleReconnect(btns) ==
    IF reconnectAttempts >= maxReconnectAttempts
    THEN /\ button' = Enable(btns, Button)
         /\ UNCHANGED <<reconnectAttempts, reconnectTimer, strayTimers>>
    ELSE /\ reconnectAttempts' = reconnectAttempts + 1
         /\ reconnectTimer' = TRUE
         /\ strayTimers' = Timers
         /\ button' = btns

(* The socket ends: onerror if it has never been open, then onclose.  The  *)
(* promise is rejected only outside a reconnection.                        *)
Ended(s) ==
    /\ readyState' = [readyState EXCEPT ![s] = "closed"]
    /\ awaits' = [awaits EXCEPT ![s] = "none"]
    /\ ws' = NoSocket
    /\ member' = [member EXCEPT ![s] = FALSE]
    /\ inbox' = [inbox EXCEPT ![s] = <<>>]
    /\ LET btns == IF reconnectAttempts = 0 THEN Enable(button, {awaits[s]})
                   ELSE button
       IN  IF intentionalClose
           THEN /\ button' = btns
                /\ UNCHANGED <<reconnectAttempts, reconnectTimer, strayTimers>>
           ELSE ScheduleReconnect(btns)
    /\ interrupted' = IF reconnectAttempts' = 0 THEN interrupted
                      ELSE {b \in Button : button'[b].connecting}
    /\ UNCHANGED <<view, selectedFiles, listed, area, picker, roomCodeInputs,
                   currentRoomCode, intentionalClose, clicks>>

(* A connection cannot be made, or its closing is over.                    *)
OnClose(s) == readyState[s] \in {"connecting", "closing"} /\ Ended(s)

(* A connection breaks.                                                    *)
Lose(s) == readyState[s] = "open" /\ Ended(s)

ReconnectTimer_Interval ==  \* mutant: setInterval for setTimeout
    /\ reconnectTimer
    /\ IF Connected
       THEN UNCHANGED <<ws, intentionalClose, readyState, awaits>>
       ELSE NewSocket("none")
    /\ UNCHANGED <<pageVars, currentRoomCode, reconnectAttempts, reconnectTimer,
                   strayTimers, member, inbox, clicks, interrupted>>

(* A timer fires and calls connect().                                      *)
ReconnectTimer ==
    /\ \/ reconnectTimer /\ reconnectTimer' = FALSE /\ UNCHANGED strayTimers
       \/ strayTimers > 0 /\ strayTimers' = strayTimers - 1
          /\ UNCHANGED reconnectTimer
    /\ IF Connected
       THEN UNCHANGED <<ws, intentionalClose, readyState, awaits>>
       ELSE NewSocket("none")
    /\ UNCHANGED <<pageVars, currentRoomCode, reconnectAttempts, member, inbox,
                   clicks, interrupted>>

Disconnect_KeepTimer ==     \* mutant: the pending timer is not cleared
    /\ intentionalClose' = TRUE
    /\ UNCHANGED reconnectTimer
    /\ reconnectAttempts' = 0
    /\ ws' = NoSocket
    /\ readyState' = [s \in Socket |-> IF s = ws THEN "closing" ELSE readyState[s]]
    /\ currentRoomCode' = NoSocket

Disconnect ==
    /\ intentionalClose' = TRUE
    /\ reconnectTimer' = FALSE
    /\ reconnectAttempts' = 0
    /\ ws' = NoSocket
    /\ readyState' = [s \in Socket |-> IF s = ws THEN "closing" ELSE readyState[s]]
    /\ currentRoomCode' = NoSocket

(* cancelTransfer, by the user or by what comes over the data channel; a   *)
(* tab has had a room before it has a transfer.                            *)
CancelTransfer ==
    /\ currentRoomCode # NoSocket
    /\ Disconnect
    /\ ResetViews({"send", "receive"})
    /\ view' = "home"
    /\ UNCHANGED <<picker, strayTimers, awaits, member, inbox, clicks, interrupted>>

-----------------------------------------------------------------------------
(* _handleMessage, whichever socket the message comes over.                *)
HandleMessage(s) ==
    /\ readyState[s] = "open" /\ inbox[s] # <<>>
    /\ inbox' = [inbox EXCEPT ![s] = Tail(@)]
    /\ CASE Head(inbox[s]) = "create" -> currentRoomCode' = s /\ OnRoomCreated
         [] Head(inbox[s]) = "join"   -> currentRoomCode' = s /\ OnRoomJoined
         [] OTHER -> /\ button' = Enable(button, Button)
                     /\ UNCHANGED <<currentRoomCode, view, selectedFiles, listed,
                                    area, picker, roomCodeInputs>>
    /\ UNCHANGED <<ws, intentionalClose, reconnectAttempts, reconnectTimer,
                   strayTimers, readyState, awaits, member, clicks, interrupted>>

(* Server: the room expires, or its other member leaves.                   *)
RoomGoes(s) ==
    /\ member[s]
    /\ member' = [member EXCEPT ![s] = FALSE]
    /\ UNCHANGED <<pageVars, ws, currentRoomCode, intentionalClose,
                   reconnectAttempts, reconnectTimer, strayTimers, readyState,
                   awaits, inbox, clicks, interrupted>>

-----------------------------------------------------------------------------
Init ==
    /\ PageInit
    /\ ws = NoSocket /\ currentRoomCode = NoSocket
    /\ intentionalClose = FALSE
    /\ reconnectAttempts = 0
    /\ reconnectTimer = FALSE /\ strayTimers = 0
    /\ readyState = [s \in Socket |-> "closed"]
    /\ awaits = [s \in Socket |-> "none"]
    /\ member = [s \in Socket |-> FALSE]
    /\ inbox = [s \in Socket |-> <<>>]
    /\ clicks = 0 /\ interrupted = {}

Next ==
    \/ PageNext /\ UNCHANGED clientVars
    \/ \E b \in Button : Click(b)
    \/ ReconnectTimer \/ CancelTransfer
    \/ \E s \in Socket :
           OnOpen(s) \/ OnClose(s) \/ Lose(s) \/ HandleMessage(s) \/ RoomGoes(s)

Spec == Init /\ [][Next]_vars

(* A socket that connects or closes comes to an end of it, timers fire and *)
(* messages arrive.  Users, rooms and breakdowns are not obliged to do     *)
(* anything.                                                               *)
Fairness ==
    /\ WF_vars(ReconnectTimer)
    /\ \A s \in Socket : WF_vars(OnOpen(s) \/ OnClose(s)) /\ WF_vars(HandleMessage(s))

FairSpec == Spec /\ Fairness

-----------------------------------------------------------------------------
TypeOK ==
    /\ PageTypeOK
    /\ ws \in Socket \cup {NoSocket}
    /\ currentRoomCode \in Socket \cup {NoSocket}
    /\ intentionalClose \in BOOLEAN /\ reconnectTimer \in BOOLEAN
    /\ reconnectAttempts \in 0..maxReconnectAttempts
    /\ strayTimers \in Nat /\ clicks \in 0..MaxClicks
    /\ interrupted \subseteq Button
    /\ readyState \in [Socket -> {"connecting", "open", "closing", "closed"}]
    /\ awaits \in [Socket -> Button \cup {"none"}]
    /\ member \in [Socket -> BOOLEAN]
    /\ inbox \in [Socket -> Seq(Button \cup {"error"})]

(* No reconnection storm: timers beget sockets and lost sockets beget      *)
(* timers, but one for one.  However often the connection is lost, a tab   *)
(* never has more sockets and pending timers than the user has clicked.    *)
NoReconnectStorm == Cardinality(Live) + Timers <= clicks

(* disconnect() "suppresses auto-reconnect" (signaling.js:194): after it   *)
(* the client goes on-line again by a click only, or by a timer that had   *)
(* been overwritten when two connections were lost at a time.              *)
OnlyUsersReconnect ==
    [][intentionalClose /\ ~intentionalClose'
           => clicks' > clicks \/ strayTimers' < strayTimers]_vars

(* A client that has lost its connection, and that nobody has told to stay *)
(* away, is connected again or has used up its attempts once breakdowns    *)
(* stop, although a late close event may have made it forget a newer       *)
(* socket, and a forgotten socket that opens resets the count.             *)
GaveUp == ws = NoSocket /\ Timers = 0 /\ reconnectAttempts = maxReconnectAttempts

ComesBack ==
    <>[][\A s \in Socket : ~Lose(s)]_vars
        => (reconnectAttempts > 0 ~> Connected \/ GaveUp \/ intentionalClose)

(* A pressed button does not say "Connecting..." for ever, unless the      *)
(* connection was lost while it waited, or was lost already when it was    *)
(* pressed: then the promise of connect() may never settle, and the        *)
(* answer may be lost.                                                     *)
ClickIsAnswered ==
    \A b \in Button :
        button[b].connecting /\ ~button[b].hidden
            ~> ~button[b].connecting \/ button[b].hidden \/ b \in interrupted
=============================================================================
