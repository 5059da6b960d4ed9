-------------------------- MODULE SignalingServer --------------------------
(***************************************************************************)
(* The signaling server of ShareDrop: SignalingHandler, a WebSocket        *)
(* handler that pairs a sender and a receiver through a room code and then *)
(* relays their WebRTC messages.                                           *)
(*                                                                         *)
(* Handlers of different sessions run on different container threads and   *)
(* share two ConcurrentHashMaps and the mutable Room objects, without a    *)
(* lock.  Every access to that shared state which can be observed by       *)
(* another thread is an action of its own; accesses that commute with all  *)
(* actions of the other threads are folded into the next one (see README). *)
(* Callbacks of one session never overlap (the WebSocket container calls   *)
(* an endpoint from one thread at a time per client).                      *)
(***************************************************************************)
EXTENDS Naturals, FiniteSets

CONSTANTS
    Session,      \* WebSocket sessions, one life each (a reconnect is another)
    Code,         \* room codes, already trimmed and lower-cased
    Room,         \* identities of Room objects on the heap
    MAX_ROOMS,    \* the handler refuses to create rooms beyond this count
    MaxAttempts,  \* retries of the code generator (10 in the code)
    MaxHandlers,  \* worker threads of the container (Tomcat's pool)
    NoSession, NoCode, NoRoom   \* null

ASSUME ServerAssumption ==
    /\ IsFiniteSet(Session) /\ IsFiniteSet(Code) /\ IsFiniteSet(Room)
    /\ MAX_ROOMS \in Nat \ {0}
    /\ MaxAttempts \in Nat
    /\ MaxHandlers \in Nat \ {0}
    /\ NoSession \notin Session /\ NoCode \notin Code /\ NoRoom \notin Room

VARIABLES
    rooms,          \* ConcurrentHashMap: room code -> Room, NoRoom when absent
    sender,         \* Room.sender; NoSession while the object is not allocated
    receiver,       \* Room.receiver
    sessionToRoom,  \* ConcurrentHashMap: session -> room code
    conn,           \* WebSocketSession.isOpen() and the close callback
    call,           \* the handler call each session's thread is executing
    aged,           \* rooms whose createdAt is more than ROOM_EXPIRY ago
    sweep,          \* the scheduler thread in cleanupExpiredRooms
    wire,           \* the message one session's call has just sent to another
    entered         \* history: sessions that were ever written into a Room

vars == <<rooms, sender, receiver, sessionToRoom, conn, call, aged, sweep,
          wire, entered>>

-----------------------------------------------------------------------------
(* Local state of a handler call: the point it has reached and its locals. *)

CallAt(at, c, r, p, n) ==
    [at |-> at, code |-> c, room |-> r, peer |-> p, tries |-> n]

Idle == CallAt("idle", NoCode, NoRoom, NoSession, 0)

CallPoints ==
    {"idle", "create_code", "create_put", "create_map",
     "join_take", "join_map", "relay_room",
     "close_room", "close_peer", "close_unmap", "close_drop"}

SweepIdle == [at |-> "idle", code |-> NoCode, room |-> NoRoom]

Silence == [type |-> "none", to |-> NoSession, from |-> NoSession]

Live == {c \in Code : rooms[c] # NoRoom}

Busy == {s \in Session : call[s].at # "idle"}

(* Sessions whose create-room call has passed the MAX_ROOMS check and has  *)
(* not yet put its room.                                                   *)
Admitted == {s \in Session : call[s].at \in {"create_code", "create_put"}}

-----------------------------------------------------------------------------
(* SignalingHandler.sendMessage to another session: nothing is written to  *)
(* a closed one.  Answers to the caller itself are not recorded: a refused *)
(* message is one that enables no action.                                  *)
SendMessage(t, type, from) ==
    wire' = IF t # NoSession /\ conn[t] = "open"
            THEN [type |-> type, to |-> t, from |-> from]
            ELSE Silence

SendNothing == wire' = Silence

Goto(s, at, c, r, p, n) == call' = [call EXCEPT ![s] = CallAt(at, c, r, p, n)]

Return(s) == call' = [call EXCEPT ![s] = Idle]

(* A bound of the model: Room objects are not reused, so a room is created *)
(* only while there is one for every call that is going to need it.        *)
RoomToSpare ==
    Cardinality(Admitted) < Cardinality({r \in Room : sender[r] = NoSession})

(* A worker thread picks up an event of session s.                         *)
Dispatch(s) == call[s].at = "idle" /\ Cardinality(Busy) < MaxHandlers

(* Mutant: whoever is not the sender is taken for the receiver.            *)
GetOtherPeer_NoReceiverCheck(r, s) ==
    IF sender[r] = s THEN receiver[r] ELSE sender[r]

(* getOtherPeer: the member of room r that is not s, or null.              *)
GetOtherPeer(r, s) ==
    IF sender[r] = s THEN receiver[r]
    ELSE IF receiver[r] = s THEN sender[r]
    ELSE NoSession

-----------------------------------------------------------------------------
(* Mutant: the size check admits one room too many.                        *)
HandleCreateRoom_OffByOne(s) ==
    /\ Dispatch(s) /\ conn[s] = "open" /\ RoomToSpare
    /\ sessionToRoom[s] = NoCode
    /\ Cardinality(Live) <= MAX_ROOMS
    /\ Goto(s, "create_code", NoCode, NoRoom, NoSession, 0)
    /\ SendNothing
    /\ UNCHANGED <<rooms, sender, receiver, sessionToRoom, conn, aged, sweep,
                   entered>>

(* create-room, up to and including the MAX_ROOMS check.  The limiter may  *)
(* refuse any call (module RateLimiter), which then changes nothing here.  *)
HandleCreateRoom(s) ==
    /\ Dispatch(s) /\ conn[s] = "open" /\ RoomToSpare
    /\ sessionToRoom[s] = NoCode
    /\ Cardinality(Live) < MAX_ROOMS
    /\ Goto(s, "create_code", NoCode, NoRoom, NoSession, 0)
    /\ SendNothing
    /\ UNCHANGED <<rooms, sender, receiver, sessionToRoom, conn, aged, sweep,
                   entered>>

(* Mutant: the loop has lost its limit of attempts.                        *)
GenerateRoomCode_NoLimit(s) ==
    /\ call[s].at = "create_code"
    /\ \E c \in Code :
          IF rooms[c] # NoRoom
          THEN Goto(s, "create_code", NoCode, NoRoom, NoSession,
                    call[s].tries + 1)
          ELSE Goto(s, "create_put", c, NoRoom, NoSession, 0)
    /\ SendNothing
    /\ UNCHANGED <<rooms, sender, receiver, sessionToRoom, conn, aged, sweep,
                   entered>>

(* One draw of generateRoomCode and the loop test after it: a taken code   *)
(* is drawn again, unless the attempts are used up.                        *)
GenerateRoomCode(s) ==
    /\ call[s].at = "create_code"
    /\ \E c \in Code :
          IF rooms[c] # NoRoom /\ call[s].tries < MaxAttempts
          THEN Goto(s, "create_code", NoCode, NoRoom, NoSession,
                    call[s].tries + 1)
          ELSE Goto(s, "create_put", c, NoRoom, NoSession, 0)
    /\ SendNothing
    /\ UNCHANGED <<rooms, sender, receiver, sessionToRoom, conn, aged, sweep,
                   entered>>

(* rooms.put(roomCode, room) publishes a new Room and replaces whatever    *)
(* was stored under the code.                                              *)
CreatePut(s) ==
    /\ call[s].at = "create_put"
    /\ \E r \in Room :
          /\ sender[r] = NoSession
          /\ sender' = [sender EXCEPT ![r] = s]
          /\ entered' = [entered EXCEPT ![r] = {s}]
          /\ rooms' = [rooms EXCEPT ![call[s].code] = r]
          /\ Goto(s, "create_map", call[s].code, r, NoSession, 0)
    /\ SendNothing
    /\ UNCHANGED <<receiver, sessionToRoom, conn, aged, sweep>>

CreateMap(s) ==
    /\ call[s].at = "create_map"
    /\ sessionToRoom' = [sessionToRoom EXCEPT ![s] = call[s].code]
    /\ SendNothing
    /\ Return(s)
    /\ UNCHANGED <<rooms, sender, receiver, conn, aged, sweep, entered>>

-----------------------------------------------------------------------------
(* join-room, up to and including the test of room.receiver.               *)
HandleJoinRoom(s) ==
    /\ Dispatch(s) /\ conn[s] = "open"
    /\ sessionToRoom[s] = NoCode
    /\ \E c \in Live :
          /\ receiver[rooms[c]] = NoSession
          /\ Goto(s, "join_take", c, rooms[c], NoSession, 0)
    /\ SendNothing
    /\ UNCHANGED <<rooms, sender, receiver, sessionToRoom, conn, aged, sweep,
                   entered>>

JoinTake(s) ==
    /\ call[s].at = "join_take"
    /\ receiver' = [receiver EXCEPT ![call[s].room] = s]
    /\ entered' = [entered EXCEPT ![call[s].room] = @ \cup {s}]
    /\ Goto(s, "join_map", call[s].code, call[s].room, NoSession, 0)
    /\ SendNothing
    /\ UNCHANGED <<rooms, sender, sessionToRoom, conn, aged, sweep>>

(* sessionToRoom.put, the notice to the sender and, after it, room-joined  *)
(* to the caller.                                                          *)
JoinMap(s) ==
    /\ call[s].at = "join_map"
    /\ sessionToRoom' = [sessionToRoom EXCEPT ![s] = call[s].code]
    /\ SendMessage(sender[call[s].room], "peer-joined", s)
    /\ Return(s)
    /\ UNCHANGED <<rooms, sender, receiver, conn, aged, sweep, entered>>

-----------------------------------------------------------------------------
(* offer, answer and ice-candidate: relayToOtherPeer.                      *)
RelayToOtherPeer(s) ==
    /\ Dispatch(s) /\ conn[s] = "open"
    /\ sessionToRoom[s] # NoCode
    /\ Goto(s, "relay_room", sessionToRoom[s], NoRoom, NoSession, 0)
    /\ SendNothing
    /\ UNCHANGED <<rooms, sender, receiver, sessionToRoom, conn, aged, sweep,
                   entered>>

(* rooms.get with the code read before, getOtherPeer and the send.         *)
RelaySend(s) ==
    /\ call[s].at = "relay_room"
    /\ LET r == rooms[call[s].code]
           t == IF r = NoRoom THEN NoSession ELSE GetOtherPeer(r, s)
       IN  SendMessage(t, "relay", s)
    /\ Return(s)
    /\ UNCHANGED <<rooms, sender, receiver, sessionToRoom, conn, aged, sweep,
                   entered>>

-----------------------------------------------------------------------------
(* The browser goes away: isOpen() turns false at once, the close callback *)
(* runs when the session's thread is free.                                 *)
Disconnect(s) ==
    /\ conn[s] = "open"
    /\ conn' = [conn EXCEPT ![s] = "closing"]
    /\ SendNothing
    /\ UNCHANGED <<rooms, sender, receiver, sessionToRoom, call, aged, sweep,
                   entered>>

(* Mutant: sessionToRoom.get where the code has sessionToRoom.remove.      *)
AfterConnectionClosed_Get(s) ==
    /\ Dispatch(s) /\ conn[s] = "closing"
    /\ IF sessionToRoom[s] = NoCode
       THEN conn' = [conn EXCEPT ![s] = "closed"] /\ UNCHANGED call
       ELSE /\ Goto(s, "close_room", sessionToRoom[s], NoRoom, NoSession, 0)
            /\ UNCHANGED conn
    /\ SendNothing
    /\ UNCHANGED <<rooms, sender, receiver, sessionToRoom, aged, sweep, entered>>

(* afterConnectionClosed: sessionToRoom.remove(session).                   *)
AfterConnectionClosed(s) ==
    /\ Dispatch(s) /\ conn[s] = "closing"
    /\ sessionToRoom' = [sessionToRoom EXCEPT ![s] = NoCode]
    /\ IF sessionToRoom[s] = NoCode
       THEN conn' = [conn EXCEPT ![s] = "closed"] /\ UNCHANGED call
       ELSE /\ Goto(s, "close_room", sessionToRoom[s], NoRoom, NoSession, 0)
            /\ UNCHANGED conn
    /\ SendNothing
    /\ UNCHANGED <<rooms, sender, receiver, aged, sweep, entered>>

(* rooms.get with the code just removed.                                   *)
CloseRoom(s) ==
    /\ call[s].at = "close_room"
    /\ LET r == rooms[call[s].code]
       IN  IF r = NoRoom
           THEN conn' = [conn EXCEPT ![s] = "closed"] /\ Return(s)
           ELSE /\ Goto(s, "close_peer", call[s].code, r, NoSession, 0)
                /\ UNCHANGED conn
    /\ SendNothing
    /\ UNCHANGED <<rooms, sender, receiver, sessionToRoom, aged, sweep, entered>>

(* Mutant: the notice goes to room.sender, whichever member has left.      *)
ClosePeer_TellSender(s) ==
    /\ call[s].at = "close_peer"
    /\ LET t == sender[call[s].room]
       IN  IF conn[t] = "open"
           THEN /\ SendMessage(t, "peer-disconnected", s)
                /\ Goto(s, "close_unmap", call[s].code, NoRoom, t, 0)
           ELSE /\ Goto(s, "close_drop", call[s].code, NoRoom, NoSession, 0)
                /\ SendNothing
    /\ UNCHANGED <<rooms, sender, receiver, sessionToRoom, conn, aged, sweep,
                   entered>>

(* The peer, if it is still open, is sent the notice ...                   *)
ClosePeer(s) ==
    /\ call[s].at = "close_peer"
    /\ LET t == GetOtherPeer(call[s].room, s)
       IN  IF t # NoSession /\ conn[t] = "open"
           THEN /\ SendMessage(t, "peer-disconnected", s)
                /\ Goto(s, "close_unmap", call[s].code, NoRoom, t, 0)
           ELSE /\ Goto(s, "close_drop", call[s].code, NoRoom, NoSession, 0)
                /\ SendNothing
    /\ UNCHANGED <<rooms, sender, receiver, sessionToRoom, conn, aged, sweep,
                   entered>>

(* ... and then loses its mapping.                                         *)
CloseUnmap(s) ==
    /\ call[s].at = "close_unmap"
    /\ sessionToRoom' = [sessionToRoom EXCEPT ![call[s].peer] = NoCode]
    /\ Goto(s, "close_drop", call[s].code, NoRoom, NoSession, 0)
    /\ SendNothing
    /\ UNCHANGED <<rooms, sender, receiver, conn, aged, sweep, entered>>

(* rooms.remove(roomCode): by key, whatever room the code names by now.    *)
CloseDrop(s) ==
    /\ call[s].at = "close_drop"
    /\ rooms' = [rooms EXCEPT ![call[s].code] = NoRoom]
    /\ conn' = [conn EXCEPT ![s] = "closed"]
    /\ Return(s)
    /\ SendNothing
    /\ UNCHANGED <<sender, receiver, sessionToRoom, aged, sweep, entered>>

-----------------------------------------------------------------------------
(* Time: half an hour has passed since room r was created.  The call that  *)
(* creates it does not last that long.                                     *)
Age(r) ==
    /\ sender[r] # NoSession /\ r \notin aged
    /\ \A s \in Session : call[s].at = "create_map" => call[s].room # r
    /\ aged' = aged \cup {r}
    /\ SendNothing
    /\ UNCHANGED <<rooms, sender, receiver, sessionToRoom, conn, call, sweep,
                   entered>>

(* Mutant: a room with a receiver in it is left alone.                     *)
CleanupVisit_SparePaired(c) ==
    /\ sweep.at = "idle" /\ rooms[c] \in aged
    /\ receiver[rooms[c]] = NoSession
    /\ sessionToRoom' = [sessionToRoom EXCEPT ![sender[rooms[c]]] = NoCode]
    /\ sweep' = [at |-> "receiver", code |-> c, room |-> rooms[c]]
    /\ SendNothing
    /\ UNCHANGED <<rooms, sender, receiver, conn, call, aged, entered>>

(* cleanupExpiredRooms, on the scheduler's thread: removeIf of the         *)
(* ConcurrentHashMap tests the entries one by one and removes a pair only  *)
(* if it is still the pair it has tested.  A run of the task is any number *)
(* of such visits; the next run starts where this one stops.               *)
CleanupVisit(c) ==
    /\ sweep.at = "idle" /\ rooms[c] \in aged
    /\ sessionToRoom' = [sessionToRoom EXCEPT ![sender[rooms[c]]] = NoCode]
    /\ sweep' = [at |-> "receiver", code |-> c, room |-> rooms[c]]
    /\ SendNothing
    /\ UNCHANGED <<rooms, sender, receiver, conn, call, aged, entered>>

CleanupReceiver ==
    /\ sweep.at = "receiver"
    /\ LET t == receiver[sweep.room]
       IN  IF t = NoSession
           THEN UNCHANGED sessionToRoom
           ELSE sessionToRoom' = [sessionToRoom EXCEPT ![t] = NoCode]
    /\ sweep' = [sweep EXCEPT !.at = "drop"]
    /\ SendNothing
    /\ UNCHANGED <<rooms, sender, receiver, conn, call, aged, entered>>

CleanupDrop ==
    /\ sweep.at = "drop"
    /\ rooms' = IF rooms[sweep.code] = sweep.room
                THEN [rooms EXCEPT ![sweep.code] = NoRoom]
                ELSE rooms
    /\ sweep' = SweepIdle
    /\ SendNothing
    /\ UNCHANGED <<sender, receiver, sessionToRoom, conn, call, aged, entered>>

-----------------------------------------------------------------------------
Init ==
    /\ rooms = [c \in Code |-> NoRoom]
    /\ sender = [r \in Room |-> NoSession]
    /\ receiver = [r \in Room |-> NoSession]
    /\ sessionToRoom = [s \in Session |-> NoCode]
    /\ conn = [s \in Session |-> "open"]
    /\ call = [s \in Session |-> Idle]
    /\ aged = {}
    /\ sweep = SweepIdle
    /\ wire = Silence
    /\ entered = [r \in Room |-> {}]

(* The steps of a call that has been dispatched.                           *)
Continue(s) ==
    \/ GenerateRoomCode(s) \/ CreatePut(s) \/ CreateMap(s)
    \/ JoinTake(s) \/ JoinMap(s) \/ RelaySend(s)
    \/ CloseRoom(s) \/ ClosePeer(s) \/ CloseUnmap(s) \/ CloseDrop(s)

Cleanup ==
    \/ \E c \in Code : CleanupVisit(c)
    \/ CleanupReceiver \/ CleanupDrop

(* A bound of the model: there are finitely many sessions.  Once all of    *)
(* them are closed and no expired room is left, nothing else is to happen. *)
AllQuiet ==
    /\ \A s \in Session : conn[s] = "closed"
    /\ sweep = SweepIdle
    /\ \A c \in Live : rooms[c] \notin aged
    /\ UNCHANGED vars

Next ==
    \/ \E s \in Session :
          \/ HandleCreateRoom(s) \/ HandleJoinRoom(s) \/ RelayToOtherPeer(s)
          \/ Disconnect(s) \/ AfterConnectionClosed(s)
          \/ Continue(s)
    \/ \E r \in Room : Age(r)
    \/ Cleanup
    \/ AllQuiet

Spec == Init /\ [][Next]_vars

(* A thread that executes a handler goes on; the container, whose pool     *)
(* queues what it cannot run at once, delivers every close; the scheduler  *)
(* runs its task again and again; time passes.  Nothing is assumed of the  *)
(* browsers.                                                               *)
Fairness ==
    /\ \A s \in Session :
          WF_vars(Continue(s)) /\ SF_vars(AfterConnectionClosed(s))
    /\ WF_vars(Cleanup)
    /\ \A r \in Room : WF_vars(Age(r))

FairSpec == Spec /\ Fairness

(* The scheduler alone: a stuck handler must not keep the sweep from work. *)
SweepSpec == Spec /\ WF_vars(Cleanup)

-----------------------------------------------------------------------------
HasCode ==
    {"create_put", "create_map", "join_take", "join_map", "relay_room",
     "close_room", "close_peer", "close_unmap", "close_drop"}

HasRoom == {"create_map", "join_take", "join_map", "close_peer"}

(* A call has its locals assigned at the points that use them.             *)
CallState ==
    {k \in [at : CallPoints, code : Code \cup {NoCode},
            room : Room \cup {NoRoom}, peer : Session \cup {NoSession},
            tries : 0..MaxAttempts] :
        /\ k.at \in HasCode => k.code \in Code
        /\ k.at \in HasRoom => k.room \in Room
        /\ k.at = "close_unmap" => k.peer \in Session}

SweepState ==
    {w \in [at : {"idle", "receiver", "drop"}, code : Code \cup {NoCode},
            room : Room \cup {NoRoom}] :
        w.at # "idle" => w.code \in Code /\ w.room \in Room}

MessageTypes ==
    {"none", "peer-joined", "peer-disconnected", "relay"}

(* Every variable has its type.                                            *)
TypeOK ==
    /\ rooms \in [Code -> Room \cup {NoRoom}]
    /\ sender \in [Room -> Session \cup {NoSession}]
    /\ receiver \in [Room -> Session \cup {NoSession}]
    /\ sessionToRoom \in [Session -> Code \cup {NoCode}]
    /\ conn \in [Session -> {"open", "closing", "closed"}]
    /\ call \in [Session -> CallState]
    /\ aged \subseteq Room
    /\ sweep \in SweepState
    /\ wire \in [type : MessageTypes, to : Session \cup {NoSession},
                 from : Session \cup {NoSession}]
    /\ entered \in [Room -> SUBSET Session]

(* The size check and the put of create-room are not atomic, so MAX_ROOMS  *)
(* can be exceeded, but never by more than one room for every other worker *)
(* thread that passed the check at the same time.                          *)
RoomCountBound ==
    Cardinality(Live) + Cardinality(Admitted) <= MAX_ROOMS + MaxHandlers - 1

(* Whatever the interleaving of joins, closes, expiries and reused codes,  *)
(* a message that one browser causes at another one (a relayed offer, a    *)
(* peer-joined or peer-disconnected notice) stays between two sessions     *)
(* that entered the same Room.                                             *)
WireWithinRoom ==
    wire.from # NoSession =>
        \E r \in Room : {wire.from, wire.to} \subseteq entered[r]

(* When the close callback of a session is over, no mapping of the session *)
(* is left behind, and none can come back.                                 *)
NoMappingAfterClose ==
    \A s \in Session : conn[s] = "closed" => sessionToRoom[s] = NoCode

(* A room can be taken by one receiver: no two sessions ever get into it   *)
(* beside its sender.                                                      *)
OneReceiverPerRoom ==
    \A r \in Room : Cardinality(entered[r] \ {sender[r]}) <= 1

(* An expired room leaves the directory, whatever its members do.          *)
ExpiredRoomsGo ==
    \A c \in Code : (rooms[c] \in aged) ~> (rooms[c] \notin aged)

(* The server owes session t the notice that s has left: both are in room  *)
(* r, s is going away, and what its close reads still leads to t.          *)
Owes(s, t, c, r) ==
    /\ conn[s] = "closing" /\ conn[t] = "open"
    /\ {sender[r], receiver[r]} = {s, t}
    /\ \/ sessionToRoom[s] = c /\ rooms[c] = r
       \/ call[s].at = "close_room" /\ call[s].code = c /\ rooms[c] = r
       \/ call[s].at = "close_peer" /\ call[s].room = r

(* A step of the sweep, on an expired room that s is in.                   *)
SweepTouches(s) ==
    /\ sweep' # sweep
    /\ \E q \in aged \cap {sweep.room, sweep'.room} : s \in {sender[q], receiver[q]}

(* The notice that a peer has left is not lost between the steps of the    *)
(* close: what is owed is sent, unless the peer leaves as well, or one of  *)
(* five things takes the room away from under the close.  Another join     *)
(* takes the place of the receiver (both had found it free); the code is   *)
(* drawn a second time and put over the room; the sweep expires a room of  *)
(* s; the close of a third session that counts s among its peers unmaps s; *)
(* the close of a third session that holds the same code, left over from a *)
(* room that is gone, removes the room by that code.  The container is     *)
(* relied on to run the close at all.                                      *)
NoticeIsKept ==
    [][\A s \in Session : \A t \in Session \ {s}, c \in Code, r \in Room :
        Owes(s, t, c, r) /\ ~Owes(s, t, c, r)' =>
            \/ wire' = [type |-> "peer-disconnected", to |-> t, from |-> s]
            \/ conn'[t] # "open"
            \/ receiver'[r] # receiver[r]
            \/ rooms'[c] \notin {r, NoRoom}
            \/ SweepTouches(s)
            \/ \E u \in Session \ {s, t} :
                  \/ call[u].at = "close_unmap" /\ call[u].peer = s
                  \/ call[u].at = "close_drop" /\ call[u].code = c]_vars

(* The room code of a session does not stay with it for ever: its room     *)
(* expires, and the sweep removes the session mappings.                    *)
MappingsExpire ==
    \A s \in Session : (sessionToRoom[s] # NoCode) ~> (sessionToRoom[s] = NoCode)
=============================================================================
