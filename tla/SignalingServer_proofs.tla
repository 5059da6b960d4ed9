----------------------- MODULE SignalingServer_proofs -----------------------
(***************************************************************************)
(* Proofs about SignalingServer, for any finite sets of sessions, codes    *)
(* and rooms and any limits: type correctness, the room count, the         *)
(* confinement of messages to a room, the cleanliness of a close and the   *)
(* notice it owes to the peer.                                             *)
(***************************************************************************)
EXTENDS SignalingServer, FiniteSetTheorems, TLAPS

(* A move of one handler call to a well-typed point keeps "call" typed.    *)
LEMMA GotoType ==
    ASSUME TypeOK, NEW s \in Session, NEW at, NEW c, NEW r, NEW p, NEW n,
           Goto(s, at, c, r, p, n), CallAt(at, c, r, p, n) \in CallState
    PROVE  call' \in [Session -> CallState]
BY DEF TypeOK, Goto

LEMMA IdleType == Idle \in CallState
BY ServerAssumption DEF Idle, CallAt, CallState, CallPoints, HasCode, HasRoom

(* So does a return.                                                       *)
LEMMA ReturnType ==
    ASSUME TypeOK, NEW s \in Session, Return(s)
    PROVE  call' \in [Session -> CallState]
BY IdleType DEF TypeOK, Return

(* The locals that a point of a call uses are there.                       *)
LEMMA CallFields ==
    ASSUME TypeOK, NEW s \in Session
    PROVE  /\ call[s].at \in CallPoints
           /\ call[s].code \in Code \cup {NoCode}
           /\ call[s].room \in Room \cup {NoRoom}
           /\ call[s].peer \in Session \cup {NoSession}
           /\ call[s].tries \in 0..MaxAttempts
           /\ call[s].at \in HasCode => call[s].code \in Code
           /\ call[s].at \in HasRoom => call[s].room \in Room
           /\ call[s].at = "close_unmap" => call[s].peer \in Session
BY DEF TypeOK, CallState

WireTyped == wire' \in [type : MessageTypes, to : Session \cup {NoSession},
                        from : Session \cup {NoSession}]

(* What is sent from one session to another is a well-typed message.       *)
LEMMA WireType ==
    ASSUME NEW t \in Session \cup {NoSession}, NEW m \in MessageTypes,
           NEW s \in Session, SendMessage(t, m, s)
    PROVE  WireTyped
BY DEF SendMessage, Silence, MessageTypes, WireTyped

LEMMA SilenceType == SendNothing => WireTyped
BY DEF SendNothing, Silence, MessageTypes, WireTyped

(* getOtherPeer returns a session or null.                                 *)
LEMMA PeerType ==
    ASSUME TypeOK, NEW r \in Room, NEW s
    PROVE  GetOtherPeer(r, s) \in Session \cup {NoSession}
BY DEF TypeOK, GetOtherPeer

LEMMA InitType == Init => TypeOK
BY ServerAssumption, IdleType
   DEF Init, TypeOK, SweepState, SweepIdle, Silence, MessageTypes

(* Every action of the server keeps the variables typed.                   *)
LEMMA NextType == TypeOK /\ [Next]_vars => TypeOK'
<1> SUFFICES ASSUME TypeOK, [Next]_vars PROVE TypeOK'
  OBVIOUS
<1> USE ServerAssumption, SilenceType
<1>1. ASSUME NEW s \in Session, HandleCreateRoom(s) PROVE TypeOK'
  <2>1. CallAt("create_code", NoCode, NoRoom, NoSession, 0) \in CallState
    BY DEF CallAt, CallState, CallPoints, HasCode, HasRoom
  <2>2. call' \in [Session -> CallState]
    BY <1>1, <2>1, GotoType DEF HandleCreateRoom
  <2> QED BY <1>1, <2>2 DEF HandleCreateRoom, TypeOK, WireTyped
<1>2. ASSUME NEW s \in Session, GenerateRoomCode(s) PROVE TypeOK'
  <2>1. PICK c \in Code :
          IF rooms[c] # NoRoom /\ call[s].tries < MaxAttempts
          THEN Goto(s, "create_code", NoCode, NoRoom, NoSession,
                    call[s].tries + 1)
          ELSE Goto(s, "create_put", c, NoRoom, NoSession, 0)
    BY <1>2 DEF GenerateRoomCode
  <2>2. CASE rooms[c] # NoRoom /\ call[s].tries < MaxAttempts
    <3>1. call[s].tries + 1 \in 0..MaxAttempts
      BY <2>2, CallFields
    <3>2. CallAt("create_code", NoCode, NoRoom, NoSession, call[s].tries + 1)
            \in CallState
      BY <3>1 DEF CallAt, CallState, CallPoints, HasCode, HasRoom
    <3>3. call' \in [Session -> CallState]
      BY <2>1, <2>2, <3>2, GotoType
    <3> QED BY <1>2, <3>3 DEF GenerateRoomCode, TypeOK, WireTyped
  <2>3. CASE ~(rooms[c] # NoRoom /\ call[s].tries < MaxAttempts)
    <3>1. CallAt("create_put", c, NoRoom, NoSession, 0) \in CallState
      BY DEF CallAt, CallState, CallPoints, HasCode, HasRoom
    <3>2. call' \in [Session -> CallState]
      BY <2>1, <2>3, <3>1, GotoType
    <3> QED BY <1>2, <3>2 DEF GenerateRoomCode, TypeOK, WireTyped
  <2> QED BY <2>2, <2>3
<1>3. ASSUME NEW s \in Session, CreatePut(s) PROVE TypeOK'
  <2>1. PICK r \in Room :
          /\ sender' = [sender EXCEPT ![r] = s]
          /\ entered' = [entered EXCEPT ![r] = {s}]
          /\ rooms' = [rooms EXCEPT ![call[s].code] = r]
          /\ Goto(s, "create_map", call[s].code, r, NoSession, 0)
    BY <1>3 DEF CreatePut
  <2>2. call[s].code \in Code
    BY <1>3, CallFields DEF CreatePut, HasCode
  <2>3. CallAt("create_map", call[s].code, r, NoSession, 0) \in CallState
    BY <2>2 DEF CallAt, CallState, CallPoints, HasCode, HasRoom
  <2>4. call' \in [Session -> CallState]
    BY <2>1, <2>3, GotoType
  <2>5. entered' \in [Room -> SUBSET Session]
    BY <2>1 DEF TypeOK
  <2>6. sender' \in [Room -> Session \cup {NoSession}]
    BY <2>1 DEF TypeOK
  <2>7. rooms' \in [Code -> Room \cup {NoRoom}]
    BY <2>1 DEF TypeOK
  <2> QED BY <1>3, <2>4, <2>5, <2>6, <2>7 DEF CreatePut, TypeOK, WireTyped
<1>4. ASSUME NEW s \in Session, CreateMap(s) PROVE TypeOK'
  <2>1. call' \in [Session -> CallState]
    BY <1>4, ReturnType DEF CreateMap
  <2> QED BY <1>4, <2>1, CallFields DEF CreateMap, TypeOK, WireTyped
<1>5. ASSUME NEW s \in Session, HandleJoinRoom(s) PROVE TypeOK'
  <2>1. PICK c \in Live : Goto(s, "join_take", c, rooms[c], NoSession, 0)
    BY <1>5 DEF HandleJoinRoom
  <2>2. c \in Code /\ rooms[c] \in Room
    BY DEF Live, TypeOK
  <2>3. CallAt("join_take", c, rooms[c], NoSession, 0) \in CallState
    BY <2>2 DEF CallAt, CallState, CallPoints, HasCode, HasRoom
  <2>4. call' \in [Session -> CallState]
    BY <2>1, <2>3, GotoType
  <2> QED BY <1>5, <2>4 DEF HandleJoinRoom, TypeOK, WireTyped
<1>6. ASSUME NEW s \in Session, JoinTake(s) PROVE TypeOK'
  <2>1. call[s].code \in Code /\ call[s].room \in Room
    BY <1>6, CallFields DEF JoinTake, HasCode, HasRoom
  <2>2. CallAt("join_map", call[s].code, call[s].room, NoSession, 0)
          \in CallState
    BY <2>1 DEF CallAt, CallState, CallPoints, HasCode, HasRoom
  <2>3. call' \in [Session -> CallState]
    BY <1>6, <2>2, GotoType DEF JoinTake
  <2>4. entered' \in [Room -> SUBSET Session]
    BY <1>6 DEF JoinTake, TypeOK
  <2>5. receiver' \in [Room -> Session \cup {NoSession}]
    BY <1>6 DEF JoinTake, TypeOK
  <2> QED BY <1>6, <2>3, <2>4, <2>5 DEF JoinTake, TypeOK, WireTyped
<1>7. ASSUME NEW s \in Session, JoinMap(s) PROVE TypeOK'
  <2>1. call[s].code \in Code /\ call[s].room \in Room
    BY <1>7, CallFields DEF JoinMap, HasCode, HasRoom
  <2>2. WireTyped
    <3>1. sender[call[s].room] \in Session \cup {NoSession}
      BY <2>1 DEF TypeOK
    <3>2. SendMessage(sender[call[s].room], "peer-joined", s)
      BY <1>7 DEF JoinMap
    <3> QED BY <3>1, <3>2, WireType DEF MessageTypes
  <2>3. call' \in [Session -> CallState]
    BY <1>7, ReturnType DEF JoinMap
  <2> QED BY <1>7, <2>1, <2>2, <2>3 DEF JoinMap, TypeOK, WireTyped
<1>8. ASSUME NEW s \in Session, RelayToOtherPeer(s) PROVE TypeOK'
  <2>1. sessionToRoom[s] \in Code
    BY <1>8 DEF RelayToOtherPeer, TypeOK
  <2>2. CallAt("relay_room", sessionToRoom[s], NoRoom, NoSession, 0)
          \in CallState
    BY <2>1 DEF CallAt, CallState, CallPoints, HasCode, HasRoom
  <2>3. call' \in [Session -> CallState]
    BY <1>8, <2>2, GotoType DEF RelayToOtherPeer
  <2> QED BY <1>8, <2>3 DEF RelayToOtherPeer, TypeOK, WireTyped
<1>9. ASSUME NEW s \in Session, RelaySend(s) PROVE TypeOK'
  <2> DEFINE r == rooms[call[s].code]
             t == IF r = NoRoom THEN NoSession ELSE GetOtherPeer(r, s)
  <2>1. SendMessage(t, "relay", s) /\ Return(s)
    BY <1>9 DEF RelaySend
  <2>2. call[s].code \in Code
    BY <1>9, CallFields DEF RelaySend, HasCode
  <2>3. r \in Room \cup {NoRoom}
    BY <2>2 DEF TypeOK
  <2>4. t \in Session \cup {NoSession}
    BY <2>3, PeerType
  <2>5. WireTyped
    <3> HIDE DEF t
    <3> QED BY <2>1, <2>4, WireType DEF MessageTypes
  <2>6. call' \in [Session -> CallState]
    BY <2>1, ReturnType
  <2> QED BY <1>9, <2>5, <2>6 DEF RelaySend, TypeOK, WireTyped
<1>10. ASSUME NEW s \in Session, Disconnect(s) PROVE TypeOK'
  BY <1>10 DEF Disconnect, TypeOK, WireTyped
<1>11. ASSUME NEW s \in Session, AfterConnectionClosed(s) PROVE TypeOK'
  <2>1. call' \in [Session -> CallState]
    <3>1. CASE sessionToRoom[s] = NoCode
      BY <1>11, <3>1 DEF AfterConnectionClosed, TypeOK
    <3>2. CASE sessionToRoom[s] # NoCode
      <4>1. sessionToRoom[s] \in Code
        BY <3>2 DEF TypeOK
      <4>2. CallAt("close_room", sessionToRoom[s], NoRoom, NoSession, 0)
              \in CallState
        BY <4>1 DEF CallAt, CallState, CallPoints, HasCode, HasRoom
      <4> QED BY <1>11, <3>2, <4>2, GotoType DEF AfterConnectionClosed
    <3> QED BY <3>1, <3>2
  <2>2. conn' \in [Session -> {"open", "closing", "closed"}]
    BY <1>11 DEF AfterConnectionClosed, TypeOK
  <2>3. sessionToRoom' \in [Session -> Code \cup {NoCode}]
    BY <1>11 DEF AfterConnectionClosed, TypeOK
  <2> QED BY <1>11, <2>1, <2>2, <2>3 DEF AfterConnectionClosed, TypeOK, WireTyped
<1>12. ASSUME NEW s \in Session, CloseRoom(s) PROVE TypeOK'
  <2>1. call[s].code \in Code
    BY <1>12, CallFields DEF CloseRoom, HasCode
  <2>2. call' \in [Session -> CallState]
    <3>1. CASE rooms[call[s].code] = NoRoom
      BY <1>12, <3>1, ReturnType DEF CloseRoom
    <3>2. CASE rooms[call[s].code] # NoRoom
      <4>1. rooms[call[s].code] \in Room
        BY <2>1, <3>2 DEF TypeOK
      <4>2. CallAt("close_peer", call[s].code, rooms[call[s].code],
                   NoSession, 0) \in CallState
        BY <2>1, <4>1 DEF CallAt, CallState, CallPoints, HasCode, HasRoom
      <4> QED BY <1>12, <3>2, <4>2, GotoType DEF CloseRoom
    <3> QED BY <3>1, <3>2
  <2> QED BY <1>12, <2>2 DEF CloseRoom, TypeOK, WireTyped
<1>13. ASSUME NEW s \in Session, ClosePeer(s) PROVE TypeOK'
  <2> DEFINE t == GetOtherPeer(call[s].room, s)
  <2>1. call[s].code \in Code /\ call[s].room \in Room
    BY <1>13, CallFields DEF ClosePeer, HasCode, HasRoom
  <2>2. t \in Session \cup {NoSession}
    BY <2>1, PeerType
  <2>3. call' \in [Session -> CallState] /\ WireTyped
    <3>1. CASE t # NoSession /\ conn[t] = "open"
      <4>1. /\ SendMessage(t, "peer-disconnected", s)
            /\ Goto(s, "close_unmap", call[s].code, NoRoom, t, 0)
        BY <1>13, <3>1 DEF ClosePeer
      <4> HIDE DEF t
      <4>2. CallAt("close_unmap", call[s].code, NoRoom, t, 0) \in CallState
        BY <2>1, <2>2, <3>1 DEF CallAt, CallState, CallPoints, HasCode, HasRoom
      <4>3. WireTyped
        BY <2>2, <4>1, WireType DEF MessageTypes
      <4> QED BY <4>1, <4>2, <4>3, GotoType
    <3>2. CASE ~(t # NoSession /\ conn[t] = "open")
      <4>1. Goto(s, "close_drop", call[s].code, NoRoom, NoSession, 0)
        BY <1>13, <3>2 DEF ClosePeer
      <4>2. CallAt("close_drop", call[s].code, NoRoom, NoSession, 0)
              \in CallState
        BY <2>1 DEF CallAt, CallState, CallPoints, HasCode, HasRoom
      <4> QED BY <1>13, <3>2, <4>1, <4>2, GotoType DEF ClosePeer
    <3> QED BY <3>1, <3>2
  <2> QED BY <1>13, <2>3 DEF ClosePeer, TypeOK, WireTyped
<1>14. ASSUME NEW s \in Session, CloseUnmap(s) PROVE TypeOK'
  <2>1. call[s].code \in Code
    BY <1>14, CallFields DEF CloseUnmap, HasCode
  <2>2. CallAt("close_drop", call[s].code, NoRoom, NoSession, 0) \in CallState
    BY <2>1 DEF CallAt, CallState, CallPoints, HasCode, HasRoom
  <2>3. call' \in [Session -> CallState]
    BY <1>14, <2>2, GotoType DEF CloseUnmap
  <2> QED BY <1>14, <2>3 DEF CloseUnmap, TypeOK, WireTyped
<1>15. ASSUME NEW s \in Session, CloseDrop(s) PROVE TypeOK'
  <2>1. call' \in [Session -> CallState]
    BY <1>15, ReturnType DEF CloseDrop
  <2> QED BY <1>15, <2>1 DEF CloseDrop, TypeOK, WireTyped
<1>16. ASSUME NEW r \in Room, Age(r) PROVE TypeOK'
  BY <1>16 DEF Age, TypeOK, WireTyped
<1>17. ASSUME NEW c \in Code, CleanupVisit(c) PROVE TypeOK'
  <2>1. rooms[c] \in Room
    BY <1>17 DEF CleanupVisit, TypeOK
  <2>2. sweep' \in SweepState
    BY <1>17, <2>1 DEF CleanupVisit, SweepState
  <2> QED BY <1>17, <2>2 DEF CleanupVisit, TypeOK, WireTyped
<1>18. CASE CleanupReceiver
  <2>1. sweep' \in SweepState
    BY <1>18 DEF CleanupReceiver, SweepState, TypeOK
  <2> QED BY <1>18, <2>1 DEF CleanupReceiver, TypeOK, WireTyped
<1>19. CASE CleanupDrop
  <2>1. sweep' \in SweepState
    BY <1>19 DEF CleanupDrop, SweepState, SweepIdle
  <2> QED BY <1>19, <2>1 DEF CleanupDrop, TypeOK, WireTyped
<1>20. CASE UNCHANGED vars
  BY <1>20 DEF vars, TypeOK
<1> QED
  BY <1>1, <1>2, <1>3, <1>4, <1>5, <1>6, <1>7, <1>8, <1>9, <1>10, <1>11,
     <1>12, <1>13, <1>14, <1>15, <1>16, <1>17, <1>18, <1>19, <1>20
     DEF Next, Continue, Cleanup, AllQuiet

(* Type correctness: in particular no call reaches a point without the     *)
(* locals it uses there, so no handler dereferences null.                  *)
THEOREM TypeCorrect == Spec => []TypeOK
BY InitType, NextType, PTL DEF Spec

-----------------------------------------------------------------------------
(* The room count.  HandlersBound is what makes RoomCountBound inductive:  *)
(* a thread admitted by the size check is a busy one.                      *)
HandlersBound == Cardinality(Busy) <= MaxHandlers

CountInv == HandlersBound /\ RoomCountBound

LEMMA FiniteParts ==
    IsFiniteSet(Live) /\ IsFiniteSet(Busy) /\ IsFiniteSet(Admitted)
BY ServerAssumption, FS_Subset DEF Live, Busy, Admitted

LEMMA FinitePartsNext ==
    IsFiniteSet(Live') /\ IsFiniteSet(Busy') /\ IsFiniteSet(Admitted')
BY ServerAssumption, FS_Subset DEF Live, Busy, Admitted

LEMMA AddAtMostOne ==
    ASSUME NEW S, NEW x, IsFiniteSet(S)
    PROVE  /\ IsFiniteSet(S \cup {x})
           /\ Cardinality(S \cup {x}) <= Cardinality(S) + 1
<1>1. /\ IsFiniteSet(S \cup {x})
      /\ Cardinality(S \cup {x}) = IF x \in S THEN Cardinality(S)
                                    ELSE Cardinality(S) + 1
  BY FS_AddElement
<1>2. Cardinality(S) \in Nat
  BY FS_CardinalityType
<1> DEFINE n == Cardinality(S)
           m == Cardinality(S \cup {x})
<1>3. n \in Nat /\ (m = n \/ m = n + 1)
  BY <1>1, <1>2
<1> HIDE DEF n, m
<1>4. m <= n + 1
  BY <1>3
<1> QED BY <1>1, <1>4 DEF n, m

(* A step that adds no room and admits no call keeps the count bounded.    *)
LEMMA CountFrame ==
    ASSUME RoomCountBound, Live' \subseteq Live, Admitted' \subseteq Admitted
    PROVE  RoomCountBound'
<1>1. Cardinality(Live') <= Cardinality(Live)
  BY FiniteParts, FS_Subset
<1>2. Cardinality(Admitted') <= Cardinality(Admitted)
  BY FiniteParts, FS_Subset
<1>3. /\ Cardinality(Live) \in Nat /\ Cardinality(Live') \in Nat
      /\ Cardinality(Admitted) \in Nat /\ Cardinality(Admitted') \in Nat
  BY FiniteParts, FinitePartsNext, FS_CardinalityType
<1>4. MAX_ROOMS + MaxHandlers - 1 \in Int
  BY ServerAssumption
<1> QED BY <1>1, <1>2, <1>3, <1>4 DEF RoomCountBound

(* A session whose thread is not idle goes on: no thread more is busy.     *)
LEMMA BusyFrame ==
    ASSUME HandlersBound, Busy' \subseteq Busy
    PROVE  HandlersBound'
<1>1. Cardinality(Busy') <= Cardinality(Busy)
  BY FiniteParts, FS_Subset
<1>2. Cardinality(Busy) \in Nat /\ Cardinality(Busy') \in Nat
  BY FiniteParts, FinitePartsNext, FS_CardinalityType
<1> QED BY <1>1, <1>2, ServerAssumption DEF HandlersBound

(* A dispatch makes one thread more busy, and only below the limit.        *)
LEMMA BusyDispatch ==
    ASSUME NEW s \in Session, Dispatch(s), Busy' \subseteq Busy \cup {s}
    PROVE  HandlersBound'
<1>1. s \notin Busy
  BY DEF Dispatch, Busy
<1>2. IsFiniteSet(Busy \cup {s})
      /\ Cardinality(Busy \cup {s}) = Cardinality(Busy) + 1
  BY <1>1, FiniteParts, FS_AddElement
<1>3. Cardinality(Busy') <= Cardinality(Busy \cup {s})
  BY <1>2, FS_Subset
<1>4. Cardinality(Busy) \in Nat /\ Cardinality(Busy') \in Nat
  BY FiniteParts, FinitePartsNext, FS_CardinalityType
<1> QED BY <1>2, <1>3, <1>4, ServerAssumption DEF HandlersBound, Dispatch

(* What a move of one call does to the two sets of calls.                  *)
LEMMA GotoSets ==
    ASSUME TypeOK, NEW s \in Session, NEW at, NEW c, NEW r, NEW p, NEW n,
           Goto(s, at, c, r, p, n)
    PROVE  /\ Busy' \subseteq Busy \cup {s}
           /\ at \notin {"create_code", "create_put"}
                => Admitted' \subseteq Admitted \ {s}
           /\ Admitted' \subseteq Admitted \cup {s}
BY DEF TypeOK, Goto, CallAt, Busy, Admitted

LEMMA ReturnSets ==
    ASSUME TypeOK, NEW s \in Session, Return(s)
    PROVE  Busy' \subseteq Busy /\ Admitted' \subseteq Admitted
BY DEF TypeOK, Return, Idle, CallAt, Busy, Admitted

LEMMA CountInit == Init => CountInv
<1> SUFFICES ASSUME Init PROVE CountInv
  OBVIOUS
<1>1. Busy = {} /\ Admitted = {} /\ Live = {}
  BY ServerAssumption DEF Init, Busy, Admitted, Live, Idle, CallAt
<1> QED BY <1>1, FS_EmptySet, ServerAssumption
        DEF CountInv, HandlersBound, RoomCountBound

LEMMA CountNext == TypeOK /\ CountInv /\ [Next]_vars => CountInv'
<1> SUFFICES ASSUME TypeOK, HandlersBound, RoomCountBound, [Next]_vars
             PROVE  HandlersBound' /\ RoomCountBound'
  BY DEF CountInv
<1> DEFINE Goal == HandlersBound' /\ RoomCountBound'
<1>a. (rooms' = rooms) => Live' = Live
  BY DEF Live
<1>b. (call' = call) => Busy' = Busy /\ Admitted' = Admitted
  BY DEF Busy, Admitted
<1>c. \A c : rooms' = [rooms EXCEPT ![c] = NoRoom] => Live' \subseteq Live
  BY DEF Live, TypeOK
<1>1. ASSUME NEW s \in Session, HandleCreateRoom(s) PROVE Goal
  <2>1. Goto(s, "create_code", NoCode, NoRoom, NoSession, 0) /\ Dispatch(s)
    BY <1>1 DEF HandleCreateRoom
  <2>2. HandlersBound'
    BY <2>1, GotoSets, BusyDispatch
  <2>3. Live' = Live /\ Cardinality(Live) < MAX_ROOMS
    BY <1>1, <1>a DEF HandleCreateRoom
  <2>4. Admitted' \subseteq Busy'
    BY DEF Admitted, Busy
  <2>5. Cardinality(Admitted') <= Cardinality(Busy')
    BY <2>4, FinitePartsNext, FS_Subset
  <2>6. /\ Cardinality(Live) \in Nat /\ Cardinality(Live') \in Nat
        /\ Cardinality(Admitted') \in Nat /\ Cardinality(Busy') \in Nat
    BY FiniteParts, FinitePartsNext, FS_CardinalityType
  <2>7. Cardinality(Live') <= MAX_ROOMS - 1
    BY <2>3, <2>6, ServerAssumption
  <2>8. Cardinality(Admitted') <= MaxHandlers
    BY <2>2, <2>5, <2>6, ServerAssumption DEF HandlersBound
  <2>9. RoomCountBound'
    BY <2>6, <2>7, <2>8, ServerAssumption DEF RoomCountBound
  <2> QED BY <2>2, <2>9
<1>2. ASSUME NEW s \in Session, GenerateRoomCode(s) PROVE Goal
  <2>1. s \in Busy /\ s \in Admitted /\ Live' = Live
    BY <1>2, <1>a DEF GenerateRoomCode, Busy, Admitted
  <2>2. PICK at, c, n : Goto(s, at, c, NoRoom, NoSession, n)
    BY <1>2 DEF GenerateRoomCode
  <2>3. Busy' \subseteq Busy /\ Admitted' \subseteq Admitted
    BY <2>1, <2>2, GotoSets
  <2> QED BY <2>1, <2>3, BusyFrame, CountFrame
<1>3. ASSUME NEW s \in Session, CreatePut(s) PROVE Goal
  <2>1. s \in Busy /\ s \in Admitted
    BY <1>3 DEF CreatePut, Busy, Admitted
  <2>2. PICK r \in Room :
          /\ rooms' = [rooms EXCEPT ![call[s].code] = r]
          /\ Goto(s, "create_map", call[s].code, r, NoSession, 0)
    BY <1>3 DEF CreatePut
  <2>3. Busy' \subseteq Busy /\ Admitted' \subseteq Admitted \ {s}
    BY <2>1, <2>2, GotoSets
  <2>4. Live' \subseteq Live \cup {call[s].code}
    BY <2>2 DEF Live, TypeOK
  <2>5. /\ IsFiniteSet(Live \cup {call[s].code})
        /\ Cardinality(Live \cup {call[s].code}) <= Cardinality(Live) + 1
    BY FiniteParts, AddAtMostOne
  <2>6. Cardinality(Live') <= Cardinality(Live \cup {call[s].code})
    BY <2>4, <2>5, FS_Subset
  <2>7. /\ IsFiniteSet(Admitted \ {s})
        /\ Cardinality(Admitted \ {s}) = Cardinality(Admitted) - 1
    BY <2>1, FiniteParts, FS_RemoveElement
  <2>8. Cardinality(Admitted') <= Cardinality(Admitted \ {s})
    BY <2>3, <2>7, FS_Subset
  <2>9. /\ Cardinality(Live) \in Nat /\ Cardinality(Live') \in Nat
        /\ Cardinality(Admitted) \in Nat /\ Cardinality(Admitted') \in Nat
        /\ Cardinality(Live \cup {call[s].code}) \in Nat
    BY <2>5, FiniteParts, FinitePartsNext, FS_CardinalityType
  <2>10. Cardinality(Live') <= Cardinality(Live) + 1
    BY <2>5, <2>6, <2>9
  <2>11. Cardinality(Admitted') <= Cardinality(Admitted) - 1
    BY <2>7, <2>8, <2>9
  <2>12. RoomCountBound'
    BY <2>9, <2>10, <2>11, ServerAssumption DEF RoomCountBound
  <2> QED BY <2>3, <2>12, BusyFrame
<1>4. ASSUME NEW s \in Session,
             CreateMap(s) \/ JoinMap(s) \/ RelaySend(s)
      PROVE  Goal
  <2>1. Return(s) /\ Live' = Live
    BY <1>4, <1>a DEF CreateMap, JoinMap, RelaySend
  <2> QED BY <2>1, ReturnSets, BusyFrame, CountFrame
<1>5. ASSUME NEW s \in Session, HandleJoinRoom(s) PROVE Goal
  <2>1. PICK c \in Live : Goto(s, "join_take", c, rooms[c], NoSession, 0)
    BY <1>5 DEF HandleJoinRoom
  <2>2. Live' = Live /\ Dispatch(s)
    BY <1>5, <1>a DEF HandleJoinRoom
  <2>3. Busy' \subseteq Busy \cup {s} /\ Admitted' \subseteq Admitted
    BY <2>1, GotoSets
  <2> QED BY <2>2, <2>3, BusyDispatch, CountFrame
<1>6. ASSUME NEW s \in Session, JoinTake(s) PROVE Goal
  <2>1. s \in Busy /\ Live' = Live
    BY <1>6, <1>a DEF JoinTake, Busy
  <2>2. Goto(s, "join_map", call[s].code, call[s].room, NoSession, 0)
    BY <1>6 DEF JoinTake
  <2>3. Busy' \subseteq Busy /\ Admitted' \subseteq Admitted
    BY <2>1, <2>2, GotoSets
  <2> QED BY <2>1, <2>3, BusyFrame, CountFrame
<1>7. ASSUME NEW s \in Session, RelayToOtherPeer(s) PROVE Goal
  <2>1. /\ Goto(s, "relay_room", sessionToRoom[s], NoRoom, NoSession, 0)
        /\ Live' = Live /\ Dispatch(s)
    BY <1>7, <1>a DEF RelayToOtherPeer
  <2>2. Busy' \subseteq Busy \cup {s} /\ Admitted' \subseteq Admitted
    BY <2>1, GotoSets
  <2> QED BY <2>1, <2>2, BusyDispatch, CountFrame
<1>8. ASSUME NEW s \in Session, AfterConnectionClosed(s) PROVE Goal
  <2>1. Live' = Live /\ Dispatch(s)
    BY <1>8, <1>a DEF AfterConnectionClosed
  <2>2. CASE sessionToRoom[s] = NoCode
    BY <1>8, <2>1, <2>2, <1>b, BusyFrame, CountFrame DEF AfterConnectionClosed
  <2>3. CASE sessionToRoom[s] # NoCode
    <3>1. Goto(s, "close_room", sessionToRoom[s], NoRoom, NoSession, 0)
      BY <1>8, <2>3 DEF AfterConnectionClosed
    <3>2. Busy' \subseteq Busy \cup {s} /\ Admitted' \subseteq Admitted
      BY <3>1, GotoSets
    <3> QED BY <2>1, <3>2, BusyDispatch, CountFrame
  <2> QED BY <2>2, <2>3
<1>9. ASSUME NEW s \in Session, CloseRoom(s) PROVE Goal
  <2>1. Live' = Live /\ s \in Busy
    BY <1>9, <1>a DEF CloseRoom, Busy
  <2>2. CASE rooms[call[s].code] = NoRoom
    <3>1. Return(s)
      BY <1>9, <2>2 DEF CloseRoom
    <3> QED BY <2>1, <3>1, ReturnSets, BusyFrame, CountFrame
  <2>3. CASE rooms[call[s].code] # NoRoom
    <3>1. Goto(s, "close_peer", call[s].code, rooms[call[s].code], NoSession, 0)
      BY <1>9, <2>3 DEF CloseRoom
    <3>2. Busy' \subseteq Busy /\ Admitted' \subseteq Admitted
      BY <2>1, <3>1, GotoSets
    <3> QED BY <2>1, <3>2, BusyFrame, CountFrame
  <2> QED BY <2>2, <2>3
<1>10. ASSUME NEW s \in Session, ClosePeer(s) PROVE Goal
  <2>1. Live' = Live /\ s \in Busy
    BY <1>10, <1>a DEF ClosePeer, Busy
  <2>2. PICK at, p :
          /\ at \in {"close_unmap", "close_drop"}
          /\ Goto(s, at, call[s].code, NoRoom, p, 0)
    BY <1>10 DEF ClosePeer
  <2>3. Busy' \subseteq Busy /\ Admitted' \subseteq Admitted
    BY <2>1, <2>2, GotoSets
  <2> QED BY <2>1, <2>3, BusyFrame, CountFrame
<1>11. ASSUME NEW s \in Session, CloseUnmap(s) PROVE Goal
  <2>1. /\ Live' = Live /\ s \in Busy
        /\ Goto(s, "close_drop", call[s].code, NoRoom, NoSession, 0)
    BY <1>11, <1>a DEF CloseUnmap, Busy
  <2>2. Busy' \subseteq Busy /\ Admitted' \subseteq Admitted
    BY <2>1, GotoSets
  <2> QED BY <2>1, <2>2, BusyFrame, CountFrame
<1>12. ASSUME NEW s \in Session, CloseDrop(s) PROVE Goal
  <2>1. Return(s) /\ Live' \subseteq Live
    BY <1>12, <1>c DEF CloseDrop
  <2> QED BY <2>1, ReturnSets, BusyFrame, CountFrame
<1>13. CASE CleanupDrop
  <2>1. Live' \subseteq Live
    BY <1>13, <1>a, <1>c DEF CleanupDrop
  <2>2. Busy' = Busy /\ Admitted' = Admitted
    BY <1>13, <1>b DEF CleanupDrop
  <2> QED BY <2>1, <2>2, BusyFrame, CountFrame
<1>14. ASSUME UNCHANGED <<rooms, call>> PROVE Goal
  BY <1>14, <1>a, <1>b, BusyFrame, CountFrame
<1>15. ASSUME NEW s \in Session, Disconnect(s) PROVE Goal
  BY <1>15, <1>14 DEF Disconnect
<1>16. ASSUME NEW r \in Room, Age(r) PROVE Goal
  BY <1>16, <1>14 DEF Age
<1>17. ASSUME NEW c \in Code, CleanupVisit(c) PROVE Goal
  BY <1>17, <1>14 DEF CleanupVisit
<1>18. CASE CleanupReceiver
  BY <1>18, <1>14 DEF CleanupReceiver
<1>19. CASE UNCHANGED vars
  BY <1>19, <1>14 DEF vars
<1> QED
  BY <1>1, <1>2, <1>3, <1>4, <1>5, <1>6, <1>7, <1>8, <1>9, <1>10, <1>11,
     <1>12, <1>13, <1>15, <1>16, <1>17, <1>18, <1>19
     DEF Next, Continue, Cleanup, AllQuiet

(* MAX_ROOMS, tested before and not with the put, is never exceeded by     *)
(* more than one room for every other worker thread.                       *)
THEOREM RoomCountBounded == Spec => []RoomCountBound
<1>1. Init => CountInv /\ TypeOK
  BY CountInit, InitType
<1>2. TypeOK /\ CountInv /\ [Next]_vars => (TypeOK /\ CountInv)'
  BY CountNext, NextType
<1>3. CountInv => RoomCountBound
  BY DEF CountInv
<1> QED BY <1>1, <1>2, <1>3, PTL DEF Spec

-----------------------------------------------------------------------------
(* Who is in a room.  A session written into a Room has entered it, a Room *)
(* nobody has allocated was entered by nobody, and the rooms that the      *)
(* directory and the calls refer to are allocated ones.                    *)
Entered ==
    \A r \in Room :
        /\ sender[r] # NoSession => sender[r] \in entered[r]
        /\ receiver[r] # NoSession => receiver[r] \in entered[r]
        /\ sender[r] = NoSession => entered[r] = {}

Allocated ==
    /\ \A c \in Code : rooms[c] # NoRoom => sender[rooms[c]] # NoSession
    /\ \A s \in Session :
          /\ call[s].at \in {"join_take", "close_peer"} =>
                sender[call[s].room] # NoSession
          /\ call[s].at = "join_map" => s \in entered[call[s].room]

RoomInv == Entered /\ Allocated

LEMMA RoomInit == Init => RoomInv
BY ServerAssumption DEF Init, RoomInv, Entered, Allocated, Idle, CallAt

(* Steps that leave the Room objects alone and only drop directory entries *)
(* keep the invariant if the call that moves refers to nothing new.        *)
LEMMA RoomFrame ==
    ASSUME TypeOK, RoomInv, UNCHANGED <<sender, receiver, entered>>,
           \A c \in Code : rooms'[c] \in {rooms[c], NoRoom},
           \A s \in Session :
              \/ call'[s] = call[s]
              \/ call'[s].at \notin {"join_take", "close_peer", "join_map"}
              \/ /\ call'[s].at \in {"join_take", "close_peer"}
                 /\ \E c \in Code :
                      rooms[c] # NoRoom /\ call'[s].room = rooms[c]
    PROVE  RoomInv'
<1>1. Entered'
  BY DEF RoomInv, Entered
<1>2. \A c \in Code : rooms'[c] # NoRoom => sender'[rooms'[c]] # NoSession
  BY DEF RoomInv, Allocated
<1>3. ASSUME NEW s \in Session
      PROVE  /\ call'[s].at \in {"join_take", "close_peer"} =>
                   sender'[call'[s].room] # NoSession
             /\ call'[s].at = "join_map" => s \in entered'[call'[s].room]
  BY DEF RoomInv, Allocated
<1> QED BY <1>1, <1>2, <1>3 DEF RoomInv, Allocated

LEMMA GotoCall ==
    ASSUME TypeOK, NEW s \in Session, NEW at, NEW c, NEW r, NEW p, NEW n,
           Goto(s, at, c, r, p, n)
    PROVE  /\ call'[s].at = at /\ call'[s].code = c /\ call'[s].room = r
           /\ call'[s].peer = p
           /\ \A q \in Session \ {s} : call'[q] = call[q]
BY DEF TypeOK, Goto, CallAt

LEMMA ReturnCall ==
    ASSUME TypeOK, NEW s \in Session, Return(s)
    PROVE  /\ call'[s].at = "idle"
           /\ \A q \in Session \ {s} : call'[q] = call[q]
BY DEF TypeOK, Return, Idle, CallAt

LEMMA RoomNext == TypeOK /\ RoomInv /\ [Next]_vars => RoomInv'
<1> SUFFICES ASSUME TypeOK, RoomInv, [Next]_vars PROVE RoomInv'
  OBVIOUS
<1>r. ASSUME NEW s \in Session, Return(s), UNCHANGED <<sender, receiver, entered>>,
             \A c \in Code : rooms'[c] \in {rooms[c], NoRoom}
      PROVE  RoomInv'
  BY <1>r, ReturnCall, RoomFrame
<1>g. ASSUME NEW s \in Session, NEW at, NEW c, NEW r, NEW p, NEW n,
             Goto(s, at, c, r, p, n), UNCHANGED <<rooms, sender, receiver, entered>>,
             \/ at \notin {"join_take", "close_peer", "join_map"}
             \/ /\ at \in {"join_take", "close_peer"}
                /\ \E d \in Code : rooms[d] # NoRoom /\ r = rooms[d]
      PROVE  RoomInv'
  BY <1>g, GotoCall, RoomFrame
<1>u. ASSUME UNCHANGED <<rooms, sender, receiver, call, entered>> PROVE RoomInv'
  BY <1>u, RoomFrame
<1>1. ASSUME NEW s \in Session, HandleCreateRoom(s) PROVE RoomInv'
  BY <1>1, <1>g DEF HandleCreateRoom
<1>2. ASSUME NEW s \in Session, GenerateRoomCode(s) PROVE RoomInv'
  BY <1>2, <1>g DEF GenerateRoomCode
<1>3. ASSUME NEW s \in Session, CreatePut(s) PROVE RoomInv'
  <2>1. PICK r \in Room :
          /\ sender[r] = NoSession
          /\ sender' = [sender EXCEPT ![r] = s]
          /\ entered' = [entered EXCEPT ![r] = {s}]
          /\ rooms' = [rooms EXCEPT ![call[s].code] = r]
          /\ Goto(s, "create_map", call[s].code, r, NoSession, 0)
    BY <1>3 DEF CreatePut
  <2>2. receiver' = receiver
    BY <1>3 DEF CreatePut
  <2>3. s # NoSession
    BY ServerAssumption
  <2>4. entered[r] = {} /\ receiver[r] = NoSession
    BY <2>1 DEF RoomInv, Entered
  <2>5. /\ sender'[r] = s /\ entered'[r] = {s}
        /\ \A q \in Room \ {r} : sender'[q] = sender[q] /\ entered'[q] = entered[q]
    BY <2>1 DEF TypeOK
  <2>6. Entered'
    BY <2>2, <2>3, <2>4, <2>5 DEF RoomInv, Entered
  <2>7. \A c \in Code : rooms'[c] # NoRoom => sender'[rooms'[c]] # NoSession
    <3> TAKE c \in Code
    <3>1. CASE c = call[s].code
      BY <3>1, <2>1, <2>3, <2>5 DEF TypeOK
    <3>2. CASE c # call[s].code
      <4>1. rooms'[c] = rooms[c] /\ rooms[c] \in Room \cup {NoRoom}
        BY <3>2, <2>1 DEF TypeOK
      <4> QED BY <4>1, <2>3, <2>5 DEF RoomInv, Allocated
    <3> QED BY <3>1, <3>2
  <2>8. ASSUME NEW q \in Session
        PROVE  /\ call'[q].at \in {"join_take", "close_peer"} =>
                     sender'[call'[q].room] # NoSession
               /\ call'[q].at = "join_map" => q \in entered'[call'[q].room]
    <3>1. CASE q = s
      BY <3>1, <2>1, GotoCall
    <3>2. CASE q # s
      <4>1. call'[q] = call[q]
        BY <3>2, <2>1, GotoCall
      <4>2. call[q].at \in {"join_take", "close_peer", "join_map"} =>
               call[q].room \in Room
        BY CallFields DEF HasRoom
      <4> QED BY <4>1, <4>2, <2>3, <2>4, <2>5 DEF RoomInv, Allocated
    <3> QED BY <3>1, <3>2
  <2> QED BY <2>6, <2>7, <2>8 DEF RoomInv, Allocated
<1>4. ASSUME NEW s \in Session, CreateMap(s) PROVE RoomInv'
  BY <1>4, <1>r DEF CreateMap
<1>5. ASSUME NEW s \in Session, HandleJoinRoom(s) PROVE RoomInv'
  <2>1. PICK c \in Live : Goto(s, "join_take", c, rooms[c], NoSession, 0)
    BY <1>5 DEF HandleJoinRoom
  <2>2. c \in Code /\ rooms[c] # NoRoom
    BY DEF Live
  <2> QED BY <1>5, <2>1, <2>2, <1>g DEF HandleJoinRoom
<1>6. ASSUME NEW s \in Session, JoinTake(s) PROVE RoomInv'
  <2> DEFINE r == call[s].room
  <2>1. r \in Room /\ sender[r] # NoSession
    BY <1>6, CallFields DEF JoinTake, HasRoom, RoomInv, Allocated
  <2>2. /\ receiver' = [receiver EXCEPT ![r] = s]
        /\ entered' = [entered EXCEPT ![r] = @ \cup {s}]
        /\ sender' = sender /\ rooms' = rooms
        /\ Goto(s, "join_map", call[s].code, r, NoSession, 0)
    BY <1>6 DEF JoinTake
  <2>3. /\ receiver'[r] = s /\ entered'[r] = entered[r] \cup {s}
        /\ \A q \in Room \ {r} :
              receiver'[q] = receiver[q] /\ entered'[q] = entered[q]
    BY <2>1, <2>2 DEF TypeOK
  <2> HIDE DEF r
  <2>4. Entered'
    BY <2>1, <2>2, <2>3 DEF RoomInv, Entered
  <2>5. ASSUME NEW q \in Session
        PROVE  /\ call'[q].at \in {"join_take", "close_peer"} =>
                     sender'[call'[q].room] # NoSession
               /\ call'[q].at = "join_map" => q \in entered'[call'[q].room]
    <3>1. CASE q = s
      BY <3>1, <2>2, <2>3, GotoCall
    <3>2. CASE q # s
      <4>1. call'[q] = call[q]
        BY <3>2, <2>2, GotoCall
      <4>2. call[q].at \in {"join_take", "close_peer", "join_map"} =>
               call[q].room \in Room
        BY CallFields DEF HasRoom
      <4> QED BY <4>1, <4>2, <2>2, <2>3 DEF RoomInv, Allocated
    <3> QED BY <3>1, <3>2
  <2> QED BY <2>2, <2>4, <2>5 DEF RoomInv, Allocated
<1>7. ASSUME NEW s \in Session, JoinMap(s) PROVE RoomInv'
  BY <1>7, <1>r DEF JoinMap
<1>8. ASSUME NEW s \in Session, RelayToOtherPeer(s) PROVE RoomInv'
  BY <1>8, <1>g DEF RelayToOtherPeer
<1>9. ASSUME NEW s \in Session, RelaySend(s) PROVE RoomInv'
  BY <1>9, <1>r DEF RelaySend
<1>10. ASSUME NEW s \in Session, Disconnect(s) PROVE RoomInv'
  BY <1>10, <1>u DEF Disconnect
<1>11. ASSUME NEW s \in Session, AfterConnectionClosed(s) PROVE RoomInv'
  BY <1>11, <1>u, <1>g DEF AfterConnectionClosed
<1>12. ASSUME NEW s \in Session, CloseRoom(s) PROVE RoomInv'
  <2>1. call[s].code \in Code
    BY <1>12, CallFields DEF CloseRoom, HasCode
  <2> QED BY <1>12, <2>1, <1>r, <1>g DEF CloseRoom
<1>13. ASSUME NEW s \in Session, ClosePeer(s) PROVE RoomInv'
  <2>1. PICK at, p :
          /\ at \in {"close_unmap", "close_drop"}
          /\ Goto(s, at, call[s].code, NoRoom, p, 0)
    BY <1>13 DEF ClosePeer
  <2> QED BY <1>13, <2>1, <1>g DEF ClosePeer
<1>14. ASSUME NEW s \in Session, CloseUnmap(s) PROVE RoomInv'
  BY <1>14, <1>g DEF CloseUnmap
<1>15. ASSUME NEW s \in Session, CloseDrop(s) PROVE RoomInv'
  <2>1. \A c \in Code : rooms'[c] \in {rooms[c], NoRoom}
    BY <1>15 DEF CloseDrop, TypeOK
  <2> QED BY <1>15, <2>1, <1>r DEF CloseDrop
<1>16. ASSUME NEW r \in Room, Age(r) PROVE RoomInv'
  BY <1>16, <1>u DEF Age
<1>17. ASSUME NEW c \in Code, CleanupVisit(c) PROVE RoomInv'
  BY <1>17, <1>u DEF CleanupVisit
<1>18. CASE CleanupReceiver
  BY <1>18, <1>u DEF CleanupReceiver
<1>19. CASE CleanupDrop
  <2>1. \A c \in Code : rooms'[c] \in {rooms[c], NoRoom}
    BY <1>19 DEF CleanupDrop, TypeOK
  <2> QED BY <1>19, <2>1, RoomFrame DEF CleanupDrop
<1>20. CASE UNCHANGED vars
  BY <1>20, <1>u DEF vars
<1> QED
  BY <1>1, <1>2, <1>3, <1>4, <1>5, <1>6, <1>7, <1>8, <1>9, <1>10, <1>11,
     <1>12, <1>13, <1>14, <1>15, <1>16, <1>17, <1>18, <1>19, <1>20
     DEF Next, Continue, Cleanup, AllQuiet

-----------------------------------------------------------------------------
(* getOtherPeer relates two sessions that entered the room.                *)
LEMMA PeerEntered ==
    ASSUME TypeOK, Entered, NEW r \in Room, NEW s \in Session,
           GetOtherPeer(r, s) # NoSession
    PROVE  {s, GetOtherPeer(r, s)} \subseteq entered[r]
BY ServerAssumption DEF Entered, GetOtherPeer

LEMMA SilentStep == SendNothing => WireWithinRoom'
BY DEF SendNothing, Silence, WireWithinRoom

LEMMA SendStep ==
    ASSUME NEW t, NEW m, NEW s, NEW r \in Room, SendMessage(t, m, s),
           t # NoSession => {s, t} \subseteq entered'[r]
    PROVE  WireWithinRoom'
BY DEF SendMessage, Silence, WireWithinRoom

LEMMA WireNext == TypeOK /\ RoomInv /\ WireWithinRoom /\ [Next]_vars
                    => WireWithinRoom'
<1> SUFFICES ASSUME TypeOK, RoomInv, WireWithinRoom, [Next]_vars
             PROVE  WireWithinRoom'
  OBVIOUS
<1>1. ASSUME NEW s \in Session, JoinMap(s) PROVE WireWithinRoom'
  <2>1. call[s].room \in Room /\ s \in entered[call[s].room]
    BY <1>1, CallFields DEF JoinMap, HasRoom, RoomInv, Allocated
  <2>2. SendMessage(sender[call[s].room], "peer-joined", s) /\ entered' = entered
    BY <1>1 DEF JoinMap
  <2>3. sender[call[s].room] # NoSession =>
           {s, sender[call[s].room]} \subseteq entered[call[s].room]
    BY <2>1 DEF RoomInv, Entered
  <2> QED BY <2>1, <2>2, <2>3, SendStep
<1>2. ASSUME NEW s \in Session, RelaySend(s) PROVE WireWithinRoom'
  <2> DEFINE r == rooms[call[s].code]
             t == IF r = NoRoom THEN NoSession ELSE GetOtherPeer(r, s)
  <2>1. r \in Room \cup {NoRoom}
    BY <1>2, CallFields DEF RelaySend, HasCode, TypeOK
  <2>2. SendMessage(t, "relay", s) /\ entered' = entered
    BY <1>2 DEF RelaySend
  <2>3. CASE r = NoRoom
    BY <2>2, <2>3 DEF SendMessage, Silence, WireWithinRoom
  <2>4. CASE r \in Room
    <3>1. r # NoRoom
      BY <2>4, ServerAssumption
    <3>2. t # NoSession => {s, t} \subseteq entered[r]
      BY <2>4, <3>1, PeerEntered DEF RoomInv
    <3> HIDE DEF t, r
    <3> QED BY <2>2, <2>4, <3>2, SendStep
  <2> QED BY <2>1, <2>3, <2>4
<1>3. ASSUME NEW s \in Session, ClosePeer(s) PROVE WireWithinRoom'
  <2> DEFINE t == GetOtherPeer(call[s].room, s)
  <2>1. call[s].room \in Room
    BY <1>3, CallFields DEF ClosePeer, HasRoom
  <2>2. t # NoSession => {s, t} \subseteq entered[call[s].room]
    BY <2>1, PeerEntered DEF RoomInv
  <2>3. (SendMessage(t, "peer-disconnected", s) \/ SendNothing)
           /\ entered' = entered
    BY <1>3 DEF ClosePeer
  <2> HIDE DEF t
  <2> QED BY <2>1, <2>2, <2>3, SendStep, SilentStep
<1>4. CASE UNCHANGED vars
  BY <1>4 DEF vars, WireWithinRoom
<1> QED
  BY <1>1, <1>2, <1>3, <1>4, SilentStep
     DEF Next, Continue, Cleanup, AllQuiet, HandleCreateRoom, GenerateRoomCode,
         CreatePut, CreateMap, HandleJoinRoom, JoinTake, RelayToOtherPeer,
         Disconnect, AfterConnectionClosed, CloseRoom, CloseUnmap, CloseDrop,
         Age, CleanupVisit, CleanupReceiver, CleanupDrop

(* Whatever one browser makes the server send to another one, the two have *)
(* entered the same Room: a stale room, a reused code or a raced join      *)
(* never connects strangers.                                               *)
THEOREM MessagesStayWithinRoom == Spec => []WireWithinRoom
<1>1. Init => TypeOK /\ RoomInv /\ WireWithinRoom
  BY InitType, RoomInit DEF Init, Silence, WireWithinRoom
<1>2. TypeOK /\ RoomInv /\ WireWithinRoom /\ [Next]_vars
         => (TypeOK /\ RoomInv /\ WireWithinRoom)'
  BY NextType, RoomNext, WireNext
<1> QED BY <1>1, <1>2, PTL DEF Spec

-----------------------------------------------------------------------------
(* The close of a session.  Its mapping goes first and only its own thread *)
(* could write it again, which has no other call to run any more.          *)
Closing == {"close_room", "close_peer", "close_unmap", "close_drop"}

CloseInv ==
    \A s \in Session :
        /\ call[s].at \in Closing => conn[s] = "closing"
        /\ call[s].at \in Closing \/ conn[s] = "closed"
              => sessionToRoom[s] = NoCode
        /\ conn[s] = "closed" => call[s].at = "idle"

LEMMA CloseInit == Init => CloseInv
BY DEF Init, CloseInv, Idle, CallAt, Closing

(* A step of session s that is not a step of its close.                    *)
LEMMA CloseFrame ==
    ASSUME TypeOK, CloseInv, NEW s \in Session, UNCHANGED conn,
           conn[s] # "closed", call[s].at \notin Closing,
           call'[s].at \notin Closing,
           \A q \in Session \ {s} : call'[q] = call[q],
           \A q \in Session \ {s} :
              sessionToRoom'[q] \in {sessionToRoom[q], NoCode}
    PROVE  CloseInv'
BY DEF CloseInv

LEMMA CloseNext == TypeOK /\ CloseInv /\ [Next]_vars => CloseInv'
<1> SUFFICES ASSUME TypeOK, CloseInv, [Next]_vars PROVE CloseInv'
  OBVIOUS
<1>r. ASSUME NEW s \in Session, Return(s), UNCHANGED conn,
             call[s].at \notin Closing \cup {"idle"},
             \A q \in Session \ {s} : sessionToRoom'[q] = sessionToRoom[q]
      PROVE  CloseInv'
  <2>1. conn[s] # "closed"
    BY <1>r DEF CloseInv
  <2> QED BY <1>r, <2>1, ReturnCall, CloseFrame DEF Closing
<1>g. ASSUME NEW s \in Session, NEW at, NEW c, NEW r, NEW p, NEW n,
             Goto(s, at, c, r, p, n), UNCHANGED <<conn, sessionToRoom>>,
             call[s].at \notin Closing, at \notin Closing, conn[s] # "closed"
      PROVE  CloseInv'
  BY <1>g, GotoCall, CloseFrame
<1>c. ASSUME NEW s \in Session, NEW at \in Closing, NEW c, NEW r, NEW p, NEW n,
             Goto(s, at, c, r, p, n), UNCHANGED conn,
             conn[s] = "closing", sessionToRoom'[s] = NoCode,
             \A q \in Session \ {s} :
                sessionToRoom'[q] \in {sessionToRoom[q], NoCode}
      PROVE  CloseInv'
  BY <1>c, GotoCall DEF CloseInv, Closing
<1>d. ASSUME NEW s \in Session, conn' = [conn EXCEPT ![s] = "closed"],
             call'[s].at = "idle",
             \A q \in Session \ {s} : call'[q] = call[q],
             sessionToRoom'[s] = NoCode,
             \A q \in Session \ {s} : sessionToRoom'[q] = sessionToRoom[q]
      PROVE  CloseInv'
  BY <1>d DEF CloseInv, Closing, TypeOK
<1>u. ASSUME UNCHANGED <<conn, call>>,
             \A q \in Session : sessionToRoom'[q] \in {sessionToRoom[q], NoCode}
      PROVE  CloseInv'
  BY <1>u DEF CloseInv
<1>1. ASSUME NEW s \in Session, HandleCreateRoom(s) PROVE CloseInv'
  BY <1>1, <1>g DEF HandleCreateRoom, Dispatch, Closing
<1>2. ASSUME NEW s \in Session, GenerateRoomCode(s) PROVE CloseInv'
  <2>1. conn[s] # "closed"
    BY <1>2 DEF GenerateRoomCode, CloseInv
  <2> QED BY <1>2, <2>1, <1>g DEF GenerateRoomCode, Closing
<1>3. ASSUME NEW s \in Session, CreatePut(s) PROVE CloseInv'
  <2>1. conn[s] # "closed"
    BY <1>3 DEF CreatePut, CloseInv
  <2> QED BY <1>3, <2>1, <1>g DEF CreatePut, Closing
<1>4. ASSUME NEW s \in Session, CreateMap(s) \/ JoinMap(s) \/ RelaySend(s)
      PROVE  CloseInv'
  BY <1>4, <1>r DEF CreateMap, JoinMap, RelaySend, Closing, TypeOK
<1>5. ASSUME NEW s \in Session, HandleJoinRoom(s) PROVE CloseInv'
  BY <1>5, <1>g DEF HandleJoinRoom, Dispatch, Closing
<1>6. ASSUME NEW s \in Session, JoinTake(s) PROVE CloseInv'
  <2>1. conn[s] # "closed"
    BY <1>6 DEF JoinTake, CloseInv
  <2> QED BY <1>6, <2>1, <1>g DEF JoinTake, Closing
<1>7. ASSUME NEW s \in Session, RelayToOtherPeer(s) PROVE CloseInv'
  BY <1>7, <1>g DEF RelayToOtherPeer, Dispatch, Closing
<1>8. ASSUME NEW s \in Session, Disconnect(s) PROVE CloseInv'
  BY <1>8 DEF Disconnect, CloseInv, Closing, TypeOK
<1>9. ASSUME NEW s \in Session, AfterConnectionClosed(s) PROVE CloseInv'
  <2>1. /\ sessionToRoom'[s] = NoCode
        /\ \A q \in Session \ {s} : sessionToRoom'[q] = sessionToRoom[q]
    BY <1>9 DEF AfterConnectionClosed, TypeOK
  <2>2. CASE sessionToRoom[s] = NoCode
    BY <1>9, <2>1, <2>2, <1>d DEF AfterConnectionClosed, Dispatch
  <2>3. CASE sessionToRoom[s] # NoCode
    BY <1>9, <2>1, <2>3, <1>c DEF AfterConnectionClosed, Closing
  <2> QED BY <2>2, <2>3
<1>10. ASSUME NEW s \in Session, CloseRoom(s) PROVE CloseInv'
  <2>1. conn[s] = "closing" /\ sessionToRoom[s] = NoCode
    BY <1>10 DEF CloseRoom, CloseInv, Closing
  <2>2. CASE rooms[call[s].code] = NoRoom
    BY <1>10, <2>1, <2>2, <1>d, ReturnCall DEF CloseRoom
  <2>3. CASE rooms[call[s].code] # NoRoom
    BY <1>10, <2>1, <2>3, <1>c DEF CloseRoom, Closing
  <2> QED BY <2>2, <2>3
<1>11. ASSUME NEW s \in Session, ClosePeer(s) PROVE CloseInv'
  <2>1. conn[s] = "closing" /\ sessionToRoom[s] = NoCode
    BY <1>11 DEF ClosePeer, CloseInv, Closing
  <2>2. PICK at, p :
          /\ at \in {"close_unmap", "close_drop"}
          /\ Goto(s, at, call[s].code, NoRoom, p, 0)
    BY <1>11 DEF ClosePeer
  <2> QED BY <1>11, <2>1, <2>2, <1>c DEF ClosePeer, Closing
<1>12. ASSUME NEW s \in Session, CloseUnmap(s) PROVE CloseInv'
  <2>1. conn[s] = "closing" /\ sessionToRoom[s] = NoCode
    BY <1>12 DEF CloseUnmap, CloseInv, Closing
  <2>2. \A q \in Session : sessionToRoom'[q] \in {sessionToRoom[q], NoCode}
    BY <1>12 DEF CloseUnmap, TypeOK
  <2> QED BY <1>12, <2>1, <2>2, <1>c DEF CloseUnmap, Closing
<1>13. ASSUME NEW s \in Session, CloseDrop(s) PROVE CloseInv'
  <2>1. sessionToRoom[s] = NoCode
    BY <1>13 DEF CloseDrop, CloseInv, Closing
  <2> QED BY <1>13, <2>1, <1>d, ReturnCall DEF CloseDrop
<1>14. ASSUME NEW r \in Room, Age(r) PROVE CloseInv'
  BY <1>14, <1>u DEF Age
<1>15. ASSUME NEW c \in Code, CleanupVisit(c) PROVE CloseInv'
  <2>1. \A q \in Session : sessionToRoom'[q] \in {sessionToRoom[q], NoCode}
    BY <1>15 DEF CleanupVisit, TypeOK
  <2> QED BY <1>15, <2>1, <1>u DEF CleanupVisit
<1>16. CASE CleanupReceiver
  <2>1. \A q \in Session : sessionToRoom'[q] \in {sessionToRoom[q], NoCode}
    BY <1>16 DEF CleanupReceiver, TypeOK
  <2> QED BY <1>16, <2>1, <1>u DEF CleanupReceiver
<1>17. CASE CleanupDrop
  BY <1>17, <1>u DEF CleanupDrop
<1>18. CASE UNCHANGED vars
  BY <1>18, <1>u DEF vars
<1> QED
  BY <1>1, <1>2, <1>3, <1>4, <1>5, <1>6, <1>7, <1>8, <1>9, <1>10, <1>11,
     <1>12, <1>13, <1>14, <1>15, <1>16, <1>17, <1>18
     DEF Next, Continue, Cleanup, AllQuiet

(* Once the close callback of a session is over, the server holds no       *)
(* mapping for it, and no join, sweep or peer can bring one back.          *)
THEOREM ClosedIsForgotten == Spec => []NoMappingAfterClose
<1>1. Init => TypeOK /\ CloseInv
  BY InitType, CloseInit
<1>2. TypeOK /\ CloseInv /\ [Next]_vars => (TypeOK /\ CloseInv)'
  BY NextType, CloseNext
<1>3. CloseInv => NoMappingAfterClose
  BY DEF CloseInv, NoMappingAfterClose
<1> QED BY <1>1, <1>2, <1>3, PTL DEF Spec
-----------------------------------------------------------------------------
(* The notice to the peer of a closing session.  A session has no mapping  *)
(* while its thread is in a call other than a relay, so what the session   *)
(* owes is in its mapping or in the locals of its close.                   *)
Free == {"idle", "relay_room"}

MapInv == \A s \in Session : call[s].at \notin Free => sessionToRoom[s] = NoCode

SweepInv == sweep.at # "idle" => sweep.room \in aged

NoticeInv == TypeOK /\ CloseInv /\ MapInv /\ SweepInv

LEMMA NoticeInit == Init => NoticeInv
BY InitType, CloseInit
   DEF Init, NoticeInv, MapInv, SweepInv, SweepIdle, Idle, CallAt, Free

(* A step of the call of session s; other sessions only lose mappings.     *)
LEMMA MapFrame ==
    ASSUME MapInv, NEW s \in Session,
           \A q \in Session \ {s} : call'[q] = call[q],
           \A q \in Session : sessionToRoom'[q] \in {sessionToRoom[q], NoCode},
           call'[s].at \in Free \/ sessionToRoom[s] = NoCode
    PROVE  MapInv'
BY DEF MapInv

LEMMA MapNext == TypeOK /\ MapInv /\ [Next]_vars => MapInv'
<1> SUFFICES ASSUME TypeOK, MapInv, [Next]_vars PROVE MapInv'
  OBVIOUS
<1>g. ASSUME NEW s \in Session, NEW at, NEW c, NEW r, NEW p, NEW n,
             Goto(s, at, c, r, p, n),
             \A q \in Session : sessionToRoom'[q] \in {sessionToRoom[q], NoCode},
             at \in Free \/ sessionToRoom[s] = NoCode
      PROVE  MapInv'
  BY <1>g, GotoCall, MapFrame
<1>r. ASSUME NEW s \in Session, Return(s),
             \A q \in Session \ {s} : sessionToRoom'[q] = sessionToRoom[q]
      PROVE  MapInv'
  BY <1>r, ReturnCall DEF MapInv, Free
<1>u. ASSUME UNCHANGED call,
             \A q \in Session : sessionToRoom'[q] \in {sessionToRoom[q], NoCode}
      PROVE  MapInv'
  BY <1>u DEF MapInv
<1>1. ASSUME NEW s \in Session, HandleCreateRoom(s) \/ HandleJoinRoom(s)
      PROVE  MapInv'
  BY <1>1, <1>g DEF HandleCreateRoom, HandleJoinRoom
<1>2. ASSUME NEW s \in Session, GenerateRoomCode(s) PROVE MapInv'
  <2>1. sessionToRoom[s] = NoCode
    BY <1>2 DEF GenerateRoomCode, MapInv, Free
  <2> QED BY <1>2, <2>1, <1>g DEF GenerateRoomCode
<1>3. ASSUME NEW s \in Session, CreatePut(s) \/ JoinTake(s) PROVE MapInv'
  <2>1. sessionToRoom[s] = NoCode /\ UNCHANGED sessionToRoom
    BY <1>3 DEF CreatePut, JoinTake, MapInv, Free
  <2> QED BY <1>3, <2>1, <1>g DEF CreatePut, JoinTake
<1>4. ASSUME NEW s \in Session, CreateMap(s) \/ JoinMap(s) \/ RelaySend(s)
      PROVE  MapInv'
  BY <1>4, <1>r DEF CreateMap, JoinMap, RelaySend, TypeOK
<1>5. ASSUME NEW s \in Session, RelayToOtherPeer(s) PROVE MapInv'
  BY <1>5, <1>g DEF RelayToOtherPeer, Free
<1>6. ASSUME NEW s \in Session, Disconnect(s) PROVE MapInv'
  BY <1>6, <1>u DEF Disconnect
<1>7. ASSUME NEW s \in Session, AfterConnectionClosed(s) PROVE MapInv'
  <2>1. /\ sessionToRoom'[s] = NoCode
        /\ \A q \in Session : sessionToRoom'[q] \in {sessionToRoom[q], NoCode}
    BY <1>7 DEF AfterConnectionClosed, TypeOK
  <2>2. \A q \in Session \ {s} : call'[q] = call[q]
    BY <1>7, GotoCall DEF AfterConnectionClosed
  <2> QED BY <2>1, <2>2 DEF MapInv
<1>8. ASSUME NEW s \in Session, CloseRoom(s) \/ ClosePeer(s) \/ CloseUnmap(s)
      PROVE  MapInv'
  <2>1. sessionToRoom[s] = NoCode
    BY <1>8 DEF CloseRoom, ClosePeer, CloseUnmap, MapInv, Free
  <2>2. \A q \in Session : sessionToRoom'[q] \in {sessionToRoom[q], NoCode}
    BY <1>8 DEF CloseRoom, ClosePeer, CloseUnmap, TypeOK
  <2> QED BY <1>8, <2>1, <2>2, <1>g, <1>r DEF CloseRoom, ClosePeer, CloseUnmap
<1>9. ASSUME NEW s \in Session, CloseDrop(s) PROVE MapInv'
  BY <1>9, <1>r DEF CloseDrop
<1>10. ASSUME NEW r \in Room, Age(r) PROVE MapInv'
  BY <1>10, <1>u DEF Age
<1>11. ASSUME NEW c \in Code, CleanupVisit(c) PROVE MapInv'
  <2>1. \A q \in Session : sessionToRoom'[q] \in {sessionToRoom[q], NoCode}
    BY <1>11 DEF CleanupVisit, TypeOK
  <2> QED BY <1>11, <2>1, <1>u DEF CleanupVisit
<1>12. CASE CleanupReceiver
  <2>1. \A q \in Session : sessionToRoom'[q] \in {sessionToRoom[q], NoCode}
    BY <1>12 DEF CleanupReceiver, TypeOK
  <2> QED BY <1>12, <2>1, <1>u DEF CleanupReceiver
<1>13. CASE CleanupDrop
  BY <1>13, <1>u DEF CleanupDrop
<1>14. CASE UNCHANGED vars
  BY <1>14, <1>u DEF vars
<1> QED
  BY <1>1, <1>2, <1>3, <1>4, <1>5, <1>6, <1>7, <1>8, <1>9, <1>10, <1>11,
     <1>12, <1>13, <1>14 DEF Next, Continue, Cleanup, AllQuiet

LEMMA SweepNext == TypeOK /\ SweepInv /\ [Next]_vars => SweepInv'
<1> SUFFICES ASSUME TypeOK, SweepInv, [Next]_vars PROVE SweepInv'
  OBVIOUS
<1>1. ASSUME NEW c \in Code, CleanupVisit(c) PROVE SweepInv'
  BY <1>1 DEF CleanupVisit, SweepInv
<1>2. CASE CleanupReceiver
  BY <1>2 DEF CleanupReceiver, SweepInv, TypeOK, SweepState
<1>3. CASE CleanupDrop
  BY <1>3 DEF CleanupDrop, SweepInv, SweepIdle
<1>4. ASSUME NEW r \in Room, Age(r) PROVE SweepInv'
  BY <1>4 DEF Age, SweepInv
<1>5. CASE UNCHANGED <<sweep, aged>>
  BY <1>5 DEF SweepInv
<1> QED
  BY <1>1, <1>2, <1>3, <1>4, <1>5
     DEF Next, Continue, Cleanup, AllQuiet, vars, HandleCreateRoom,
         GenerateRoomCode, CreatePut, CreateMap, HandleJoinRoom, JoinTake, JoinMap,
         RelayToOtherPeer, RelaySend, Disconnect, AfterConnectionClosed,
         CloseRoom, ClosePeer, CloseUnmap, CloseDrop

LEMMA NoticeInvNext == NoticeInv /\ [Next]_vars => NoticeInv'
BY NextType, CloseNext, MapNext, SweepNext DEF NoticeInv

(* The notice is sent, or one of the things happens that NoticeIsKept      *)
(* names.                                                                  *)
Settled(s, t, c, r) ==
    \/ wire' = [type |-> "peer-disconnected", to |-> t, from |-> s]
    \/ conn'[t] # "open"
    \/ receiver'[r] # receiver[r]
    \/ rooms'[c] \notin {r, NoRoom}
    \/ SweepTouches(s)
    \/ \E u \in Session \ {s, t} :
          \/ call[u].at = "close_unmap" /\ call[u].peer = s
          \/ call[u].at = "close_drop" /\ call[u].code = c

(* Where a session can be that owes a notice, and where its peer cannot.   *)
LEMMA OwedFacts ==
    ASSUME NoticeInv, NEW s \in Session, NEW t \in Session \ {s},
           NEW c \in Code, NEW r \in Room, Owes(s, t, c, r)
    PROVE  /\ conn[s] = "closing" /\ conn[t] = "open"
           /\ sender[r] \in Session /\ s \in {sender[r], receiver[r]}
           /\ GetOtherPeer(r, s) = t
           /\ call[s].at \in Free \cup {"close_room", "close_peer"}
           /\ call[s].at \in Free => sessionToRoom[s] = c /\ rooms[c] = r
           /\ call[s].at = "close_room" => call[s].code = c /\ rooms[c] = r
           /\ call[s].at = "close_peer" => call[s].room = r
           /\ call[t].at \notin Closing
<1>1. /\ conn[s] = "closing" /\ conn[t] = "open"
      /\ {sender[r], receiver[r]} = {s, t}
      /\ \/ sessionToRoom[s] = c /\ rooms[c] = r
         \/ call[s].at = "close_room" /\ call[s].code = c /\ rooms[c] = r
         \/ call[s].at = "close_peer" /\ call[s].room = r
  BY DEF Owes
<1>2. sender[r] \in Session /\ s \in {sender[r], receiver[r]}
      /\ GetOtherPeer(r, s) = t
  BY <1>1 DEF GetOtherPeer
<1>3. call[t].at \notin Closing
  BY <1>1 DEF NoticeInv, CloseInv
<1>4. sessionToRoom[s] = c => call[s].at \in Free
  BY ServerAssumption DEF NoticeInv, MapInv
<1> QED BY <1>1, <1>2, <1>3, <1>4 DEF Free

(* A step that leaves alone all that the debt depends on.                  *)
LEMMA OwesFrame ==
    ASSUME NEW s, NEW t, NEW c, NEW r, Owes(s, t, c, r),
           conn'[s] = conn[s], conn'[t] = conn[t],
           sender'[r] = sender[r], receiver'[r] = receiver[r],
           sessionToRoom'[s] = sessionToRoom[s], rooms'[c] = rooms[c],
           call'[s] = call[s]
    PROVE  Owes(s, t, c, r)'
BY DEF Owes

(* A step of the session's own thread hands the debt on or pays it.        *)
LEMMA OwnStep ==
    ASSUME NoticeInv, NEW s \in Session, NEW t \in Session \ {s},
           NEW c \in Code, NEW r \in Room, Owes(s, t, c, r),
           \/ HandleCreateRoom(s) \/ HandleJoinRoom(s) \/ RelayToOtherPeer(s)
           \/ Disconnect(s) \/ AfterConnectionClosed(s) \/ Continue(s)
    PROVE  Owes(s, t, c, r)' \/ Settled(s, t, c, r)
<1>1. /\ conn[s] = "closing" /\ conn[t] = "open"
      /\ GetOtherPeer(r, s) = t
      /\ call[s].at \in Free \cup {"close_room", "close_peer"}
      /\ call[s].at \in Free => sessionToRoom[s] = c /\ rooms[c] = r
      /\ call[s].at = "close_room" => call[s].code = c /\ rooms[c] = r
      /\ call[s].at = "close_peer" => call[s].room = r
  BY OwedFacts
<1>2. TypeOK
  BY DEF NoticeInv
<1>3. CASE RelaySend(s)
  <2>1. sessionToRoom[s] = c /\ rooms[c] = r
    BY <1>1, <1>3 DEF RelaySend, Free
  <2> QED BY <1>3, <2>1 DEF RelaySend, Owes
<1>4. CASE AfterConnectionClosed(s)
  <2>1. sessionToRoom[s] = c /\ rooms[c] = r
    BY <1>1, <1>4 DEF AfterConnectionClosed, Dispatch, Free
  <2>2. Goto(s, "close_room", c, NoRoom, NoSession, 0)
        /\ UNCHANGED <<conn, rooms, sender, receiver>>
    BY <1>4, <2>1, ServerAssumption DEF AfterConnectionClosed
  <2>3. call'[s].at = "close_room" /\ call'[s].code = c
    BY <1>2, <2>2, GotoCall
  <2> QED BY <2>1, <2>2, <2>3 DEF Owes
<1>5. CASE CloseRoom(s)
  <2>1. call[s].code = c /\ rooms[c] = r /\ r # NoRoom
    BY <1>1, <1>5, ServerAssumption DEF CloseRoom, Free
  <2>2. Goto(s, "close_peer", c, r, NoSession, 0)
        /\ UNCHANGED <<conn, rooms, sender, receiver>>
    BY <1>5, <2>1 DEF CloseRoom
  <2>3. call'[s].at = "close_peer" /\ call'[s].room = r
    BY <1>2, <2>2, GotoCall
  <2> QED BY <2>2, <2>3 DEF Owes
<1>6. CASE ClosePeer(s)
  <2>1. call[s].room = r
    BY <1>1, <1>6 DEF ClosePeer, Free
  <2>2. t # NoSession
    BY ServerAssumption
  <2>3. SendMessage(t, "peer-disconnected", s)
    BY <1>1, <1>6, <2>1, <2>2 DEF ClosePeer
  <2> QED BY <1>1, <2>2, <2>3 DEF SendMessage, Settled
<1> QED
  BY <1>1, <1>3, <1>4, <1>5, <1>6
     DEF Continue, HandleCreateRoom, HandleJoinRoom, RelayToOtherPeer, Disconnect,
         GenerateRoomCode, CreatePut, CreateMap, JoinTake, JoinMap, CloseUnmap,
         CloseDrop, Free

(* A step of another session's thread.                                     *)
LEMMA OtherStep ==
    ASSUME NoticeInv, NEW s \in Session, NEW t \in Session \ {s},
           NEW c \in Code, NEW r \in Room, Owes(s, t, c, r),
           NEW u \in Session \ {s},
           \/ HandleCreateRoom(u) \/ HandleJoinRoom(u) \/ RelayToOtherPeer(u)
           \/ Disconnect(u) \/ AfterConnectionClosed(u) \/ Continue(u)
    PROVE  Owes(s, t, c, r)' \/ Settled(s, t, c, r)
<1>1. /\ conn[t] = "open" /\ sender[r] \in Session
      /\ call[t].at \notin Closing
  BY OwedFacts
<1>2. TypeOK
  BY DEF NoticeInv
<1>3. ASSUME NEW at, NEW k, NEW q, NEW p, NEW n, Goto(u, at, k, q, p, n)
      PROVE  call'[s] = call[s]
  BY <1>2, <1>3, GotoCall
<1>4. Return(u) => call'[s] = call[s]
  BY <1>2, ReturnCall
<1>5. CASE CreatePut(u)
  <2>1. PICK q \in Room :
          /\ sender[q] = NoSession
          /\ sender' = [sender EXCEPT ![q] = u]
          /\ rooms' = [rooms EXCEPT ![call[u].code] = q]
          /\ Goto(u, "create_map", call[u].code, q, NoSession, 0)
    BY <1>5 DEF CreatePut
  <2>2. q # r /\ sender'[r] = sender[r]
    BY <1>1, <2>1, ServerAssumption DEF TypeOK
  <2>3. call'[s] = call[s]
    BY <2>1, <1>3
  <2>4. CASE call[u].code = c
    <3>1. rooms'[c] = q /\ q # NoRoom
      BY <1>2, <2>1, <2>4, ServerAssumption DEF TypeOK
    <3> QED BY <2>2, <3>1 DEF Settled
  <2>5. CASE call[u].code # c
    <3>1. rooms'[c] = rooms[c]
      BY <1>2, <2>1, <2>5 DEF TypeOK
    <3> QED BY <1>5, <2>2, <2>3, <3>1, OwesFrame DEF CreatePut
  <2> QED BY <2>4, <2>5
<1>6. CASE CreateMap(u) \/ JoinMap(u) \/ RelaySend(u)
  <2>1. sessionToRoom'[s] = sessionToRoom[s]
    BY <1>2, <1>6 DEF CreateMap, JoinMap, RelaySend, TypeOK
  <2> QED BY <1>4, <1>6, <2>1, OwesFrame DEF CreateMap, JoinMap, RelaySend
<1>7. CASE JoinTake(u)
  <2>1. call'[s] = call[s]
    BY <1>3, <1>7 DEF JoinTake
  <2>2. CASE receiver'[r] = receiver[r]
    BY <1>7, <2>1, <2>2, OwesFrame DEF JoinTake
  <2> QED BY <2>2 DEF Settled
<1>8. CASE \/ HandleCreateRoom(u) \/ HandleJoinRoom(u) \/ RelayToOtherPeer(u)
           \/ GenerateRoomCode(u)
  <2>1. call'[s] = call[s]
    BY <1>3, <1>8 DEF HandleCreateRoom, HandleJoinRoom, RelayToOtherPeer,
                      GenerateRoomCode
  <2> QED BY <1>8, <2>1, OwesFrame
          DEF HandleCreateRoom, HandleJoinRoom, RelayToOtherPeer, GenerateRoomCode
<1>9. CASE Disconnect(u)
  <2>1. CASE u = t
    <3>1. conn'[t] = "closing"
      BY <1>2, <1>9, <2>1 DEF Disconnect, TypeOK
    <3> QED BY <3>1 DEF Settled
  <2>2. CASE u # t
    <3>1. conn'[s] = conn[s] /\ conn'[t] = conn[t]
      BY <1>2, <1>9, <2>2 DEF Disconnect, TypeOK
    <3> QED BY <1>9, <3>1, OwesFrame DEF Disconnect
  <2> QED BY <2>1, <2>2
<1>10. CASE AfterConnectionClosed(u)
  <2>1. u # t /\ call'[s] = call[s]
    BY <1>1, <1>3, <1>10 DEF AfterConnectionClosed
  <2>2. conn'[s] = conn[s] /\ conn'[t] = conn[t]
        /\ sessionToRoom'[s] = sessionToRoom[s]
    BY <1>2, <1>10, <2>1 DEF AfterConnectionClosed, TypeOK
  <2> QED BY <1>10, <2>1, <2>2, OwesFrame DEF AfterConnectionClosed
<1>11. CASE CloseRoom(u) \/ ClosePeer(u)
  <2>1. u # t
    BY <1>1, <1>11 DEF CloseRoom, ClosePeer, Closing
  <2>2. call'[s] = call[s]
    BY <1>3, <1>4, <1>11 DEF CloseRoom, ClosePeer
  <2>3. conn'[s] = conn[s] /\ conn'[t] = conn[t]
    BY <1>2, <1>11, <2>1 DEF CloseRoom, ClosePeer, TypeOK
  <2> QED BY <1>11, <2>2, <2>3, OwesFrame DEF CloseRoom, ClosePeer
<1>12. CASE CloseUnmap(u)
  <2>1. u \in Session \ {s, t} /\ call[u].at = "close_unmap"
    BY <1>1, <1>12 DEF CloseUnmap, Closing
  <2>2. call'[s] = call[s]
    BY <1>3, <1>12 DEF CloseUnmap
  <2>3. CASE call[u].peer # s
    <3>1. sessionToRoom'[s] = sessionToRoom[s]
      BY <1>2, <1>12, <2>3 DEF CloseUnmap, TypeOK
    <3> QED BY <1>12, <2>2, <3>1, OwesFrame DEF CloseUnmap
  <2> QED BY <2>1, <2>3 DEF Settled
<1>13. CASE CloseDrop(u)
  <2>1. u \in Session \ {s, t} /\ call[u].at = "close_drop"
    BY <1>1, <1>13 DEF CloseDrop, Closing
  <2>2. conn'[s] = conn[s] /\ conn'[t] = conn[t] /\ call'[s] = call[s]
    BY <1>2, <1>4, <1>13, <2>1 DEF CloseDrop, TypeOK
  <2>3. CASE call[u].code # c
    <3>1. rooms'[c] = rooms[c]
      BY <1>2, <1>13, <2>3 DEF CloseDrop, TypeOK
    <3> QED BY <1>13, <2>2, <3>1, OwesFrame DEF CloseDrop
  <2> QED BY <2>1, <2>3 DEF Settled
<1> QED
  BY <1>5, <1>6, <1>7, <1>8, <1>9, <1>10, <1>11, <1>12, <1>13 DEF Continue

(* A step of the sweep, which takes the debt away only with a room of s.   *)
LEMMA SweepStep ==
    ASSUME NoticeInv, NEW s \in Session, NEW t \in Session \ {s},
           NEW c \in Code, NEW r \in Room, Owes(s, t, c, r), Cleanup
    PROVE  Owes(s, t, c, r)' \/ Settled(s, t, c, r)
<1>1. s \in {sender[r], receiver[r]}
  BY OwedFacts
<1>2. TypeOK /\ SweepInv /\ sweep \in SweepState
  BY DEF NoticeInv, TypeOK
<1>3. ASSUME NEW d \in Code, CleanupVisit(d)
      PROVE  Owes(s, t, c, r)' \/ Settled(s, t, c, r)
  <2>1. /\ sweep.at = "idle" /\ sweep'.at = "receiver"
        /\ sweep'.room = rooms[d] /\ rooms[d] \in aged
    BY <1>3 DEF CleanupVisit
  <2>2. CASE sender[rooms[d]] = s
    <3>1. SweepTouches(s)
      BY <2>1, <2>2 DEF SweepTouches
    <3> QED BY <3>1 DEF Settled
  <2>3. CASE sender[rooms[d]] # s
    <3>1. sessionToRoom'[s] = sessionToRoom[s]
      BY <1>2, <1>3, <2>3 DEF CleanupVisit, TypeOK
    <3> QED BY <1>3, <3>1, OwesFrame DEF CleanupVisit
  <2> QED BY <2>2, <2>3
<1>4. CASE CleanupReceiver
  <2>1. sweep.at = "receiver" /\ sweep.room \in aged
    BY <1>2, <1>4 DEF CleanupReceiver, SweepInv
  <2>2. sweep'.at = "drop"
    BY <1>2, <1>4 DEF CleanupReceiver, SweepState
  <2>3. CASE receiver[sweep.room] = s
    <3>1. SweepTouches(s)
      BY <2>1, <2>2, <2>3 DEF SweepTouches
    <3> QED BY <3>1 DEF Settled
  <2>4. CASE receiver[sweep.room] # s
    <3>1. sessionToRoom'[s] = sessionToRoom[s]
      BY <1>2, <1>4, <2>4 DEF CleanupReceiver, TypeOK
    <3> QED BY <1>4, <3>1, OwesFrame DEF CleanupReceiver
  <2> QED BY <2>3, <2>4
<1>5. CASE CleanupDrop
  <2>1. sweep.at = "drop" /\ sweep.room \in aged /\ sweep'.at = "idle"
    BY <1>2, <1>5 DEF CleanupDrop, SweepInv, SweepIdle
  <2>2. CASE rooms'[c] = rooms[c]
    BY <1>5, <2>2, OwesFrame DEF CleanupDrop
  <2>3. CASE rooms'[c] # rooms[c] /\ rooms[c] = r
    <3>1. sweep.room = r
      BY <1>2, <1>5, <2>3 DEF CleanupDrop, TypeOK
    <3>2. SweepTouches(s)
      BY <1>1, <2>1, <3>1 DEF SweepTouches
    <3> QED BY <3>2 DEF Settled
  <2>4. CASE rooms[c] # r
    BY <1>5, <2>4 DEF CleanupDrop, Owes
  <2> QED BY <2>2, <2>3, <2>4
<1> QED BY <1>3, <1>4, <1>5 DEF Cleanup

LEMMA NoticeStep ==
    ASSUME NoticeInv, [Next]_vars, NEW s \in Session, NEW t \in Session \ {s},
           NEW c \in Code, NEW r \in Room, Owes(s, t, c, r)
    PROVE  Owes(s, t, c, r)' \/ Settled(s, t, c, r)
<1>1. ASSUME NEW u \in Session,
             \/ HandleCreateRoom(u) \/ HandleJoinRoom(u) \/ RelayToOtherPeer(u)
             \/ Disconnect(u) \/ AfterConnectionClosed(u) \/ Continue(u)
      PROVE  Owes(s, t, c, r)' \/ Settled(s, t, c, r)
  <2>1. CASE u = s
    BY <1>1, <2>1, OwnStep
  <2>2. CASE u # s
    BY <1>1, <2>2, OtherStep
  <2> QED BY <2>1, <2>2
<1>2. ASSUME NEW q \in Room, Age(q) PROVE Owes(s, t, c, r)'
  BY <1>2, OwesFrame DEF Age
<1>3. CASE Cleanup
  BY <1>3, SweepStep
<1>4. CASE UNCHANGED vars
  BY <1>4, OwesFrame DEF vars
<1> QED BY <1>1, <1>2, <1>3, <1>4 DEF Next, AllQuiet

(* The notice owed to the peer of a closing session is sent, unless the    *)
(* peer leaves as well or the room is taken away from under the close in   *)
(* one of the five ways listed.                                            *)
THEOREM NoticesAreKept == Spec => NoticeIsKept
<1>1. Init => NoticeInv
  BY NoticeInit
<1>2. NoticeInv /\ [Next]_vars => NoticeInv'
  BY NoticeInvNext
<1>3. NoticeInv /\ [Next]_vars =>
        [\A s \in Session : \A t \in Session \ {s}, c \in Code, r \in Room :
            Owes(s, t, c, r) /\ ~Owes(s, t, c, r)' => Settled(s, t, c, r)]_vars
  BY NoticeStep
<1> QED BY <1>1, <1>2, <1>3, PTL DEF Spec, NoticeIsKept, Settled
=============================================================================
