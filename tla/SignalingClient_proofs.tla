----------------------- MODULE SignalingClient_proofs -----------------------
(***************************************************************************)
(* Proofs about SignalingClient and the SharePage under it, for any files, *)
(* length of the code, sockets, limit of attempts and number of clicks.    *)
(***************************************************************************)
EXTENDS SignalingClient, FiniteSetTheorems, SequenceTheorems, TLAPS

ButtonState == [disabled : BOOLEAN, hidden : BOOLEAN, connecting : BOOLEAN]

-----------------------------------------------------------------------------
(* The operators of the page keep the types.                               *)

LEMMA RemoveAtType ==
    ASSUME NEW files \in Seq(File), NEW i \in 1..Len(files)
    PROVE  RemoveAt(files, i) \in Seq(File)
<1>1. SubSeq(files, 1, i - 1) \in Seq(File)
  BY SubSeqProperties
<1>2. SubSeq(files, i + 1, Len(files)) \in Seq(File)
  BY SubSeqProperties
<1> QED BY <1>1, <1>2 DEF RemoveAt

LEMMA EnableType ==
    ASSUME NEW btns \in [Button -> ButtonState], NEW which
    PROVE  Enable(btns, which) \in [Button -> ButtonState]
BY DEF Enable, ButtonState

LEMMA PressType ==
    ASSUME NEW b \in Button, button \in [Button -> ButtonState]
    PROVE  Press(b) \in [Button -> ButtonState]
BY DEF Press, ButtonState

LEMMA ResetType ==
    ASSUME NEW views, PageTypeOK, ResetViews(views)
    PROVE  /\ selectedFiles' \in Seq(File) /\ listed' \in Seq(File)
           /\ area' \in {"drop", "list", "none"}
           /\ roomCodeInputs' \in [Boxes -> BOOLEAN]
           /\ button' \in [Button -> ButtonState]
<1>1. button' \in [Button -> ButtonState]
  BY DEF ResetViews, PageTypeOK, ButtonState, OffButton
<1>2. roomCodeInputs' \in [Boxes -> BOOLEAN]
  BY DEF ResetViews, PageTypeOK, EmptyBoxes
<1>3. /\ selectedFiles' \in Seq(File) /\ listed' \in Seq(File)
      /\ area' \in {"drop", "list", "none"}
  <2>1. CASE "send" \in views
    <3>1. selectedFiles' = <<>> /\ listed' = <<>> /\ area' = "drop"
      BY <2>1 DEF ResetViews
    <3> QED BY <3>1
  <2>2. CASE "send" \notin views
    BY <2>2 DEF ResetViews, PageTypeOK
  <2> QED BY <2>1, <2>2
<1> QED BY <1>1, <1>2, <1>3

LEMMA FileListType ==
    ASSUME NEW files \in Seq(File), PageTypeOK, UpdateFileListUI(files)
    PROVE  /\ listed' \in Seq(File)
           /\ area' \in {"drop", "list", "none"}
           /\ button' \in [Button -> ButtonState]
<1>1. button' \in [Button -> ButtonState]
  BY DEF UpdateFileListUI, PageTypeOK, ButtonState, Button
<1> QED BY <1>1 DEF UpdateFileListUI, PageTypeOK


(* The list on the screen is what the page will send, whatever the user    *)
(* does on it.                                                             *)
LEMMA PageStep ==
    ASSUME PageTypeOK, ListIsTrue, PageNext
    PROVE  PageTypeOK' /\ ListIsTrue'
<1>0. button \in [Button -> ButtonState] /\ view' \in {"home", "send", "receive"}
  <2>1. button \in [Button -> ButtonState]
    BY DEF PageTypeOK, ButtonState
  <2>2. view' \in {"home", "send", "receive"}
    BY DEF PageTypeOK, PageNext, AddFiles, OpenPicker, RemoveFile, ClearAll, TypeBox,
           Backspace, Paste, EditBoxes, GoTo, Back, LogoHome
  <2> QED BY <2>1, <2>2
<1> USE DEF At
<1>1. ASSUME NEW files \in Seq(File), selectedFiles' = files,
             UpdateFileListUI(files), roomCodeInputs' = roomCodeInputs,
             picker' \in BOOLEAN
      PROVE  PageTypeOK' /\ ListIsTrue'
  <2>1. PageTypeOK'
    BY <1>0, <1>1, FileListType DEF PageTypeOK, ButtonState
  <2>2. ListIsTrue'
    BY <1>1 DEF UpdateFileListUI, ListIsTrue
  <2> QED BY <2>1, <2>2
<1>2. ASSUME NEW views, ResetViews(views), UNCHANGED picker
      PROVE  PageTypeOK' /\ ListIsTrue'
  <2>1. PageTypeOK'
    BY <1>0, <1>2, ResetType DEF PageTypeOK, ButtonState
  <2>2. ListIsTrue'
    BY <1>2 DEF ResetViews, ListIsTrue
  <2> QED BY <2>1, <2>2
<1>3. ASSUME NEW boxes \in [Boxes -> BOOLEAN], EditBoxes(boxes)
      PROVE  PageTypeOK' /\ ListIsTrue'
  <2>1. button' \in [Button -> ButtonState]
    BY <1>0, <1>3 DEF EditBoxes, UpdateJoinButton, ButtonState, Full, Button
  <2>2. PageTypeOK'
    BY <1>0, <1>3, <2>1 DEF PageTypeOK, ButtonState, EditBoxes
  <2> QED BY <1>3, <2>2 DEF EditBoxes, ListIsTrue
<1>4. CASE AddFiles
  <2>1. PICK f \in File : selectedFiles' = IF Contains(selectedFiles, f)
                                           THEN selectedFiles
                                           ELSE Append(selectedFiles, f)
    BY <1>4 DEF AddFiles
  <2>2. selectedFiles' \in Seq(File)
    BY <2>1 DEF PageTypeOK
  <2> QED BY <1>1, <1>4, <2>2 DEF AddFiles
<1>5. CASE OpenPicker
  BY <1>5 DEF OpenPicker, PageTypeOK, ListIsTrue
<1>6. CASE RemoveFile
  <2>1. PICK i \in 1..Len(listed) : selectedFiles' = RemoveAt(selectedFiles, i)
    BY <1>6 DEF RemoveFile
  <2>2. listed = selectedFiles
    BY <1>6 DEF RemoveFile, ListIsTrue
  <2>3. selectedFiles' \in Seq(File)
    BY <2>1, <2>2, RemoveAtType DEF PageTypeOK
  <2> QED BY <1>1, <1>6, <2>3 DEF RemoveFile, PageTypeOK
<1>7. CASE ClearAll
  <2> DEFINE none == <<>>
  <2>1. none \in Seq(File)
    OBVIOUS
  <2>2. /\ selectedFiles' = none /\ UpdateFileListUI(none)
        /\ roomCodeInputs' = roomCodeInputs /\ picker' \in BOOLEAN
    BY <1>7 DEF ClearAll, PageTypeOK
  <2> HIDE DEF none
  <2> QED BY <1>1, <2>1, <2>2
<1>8. CASE TypeBox
  <2>1. PICK i \in Boxes : EditBoxes([roomCodeInputs EXCEPT ![i] = ~@])
    BY <1>8 DEF TypeBox
  <2>2. [roomCodeInputs EXCEPT ![i] = ~@] \in [Boxes -> BOOLEAN]
    BY DEF PageTypeOK
  <2> QED BY <1>3, <2>1, <2>2
<1>9. CASE Backspace
  <2>1. PICK i \in Boxes \ {1} : EditBoxes([roomCodeInputs EXCEPT ![i - 1] = FALSE])
    BY <1>9 DEF Backspace
  <2>2. [roomCodeInputs EXCEPT ![i - 1] = FALSE] \in [Boxes -> BOOLEAN]
    BY DEF PageTypeOK
  <2> QED BY <1>3, <2>1, <2>2
<1>10. CASE Paste
  <2>1. PICK n \in Boxes : EditBoxes([i \in Boxes |-> i <= n \/ roomCodeInputs[i]])
    BY <1>10 DEF Paste
  <2>2. [i \in Boxes |-> i <= n \/ roomCodeInputs[i]] \in [Boxes -> BOOLEAN]
    BY DEF PageTypeOK
  <2> QED BY <1>3, <2>1, <2>2
<1>11. ASSUME NEW v \in {"send", "receive"}, GoTo(v) PROVE PageTypeOK' /\ ListIsTrue'
  BY <1>11 DEF GoTo, PageTypeOK, ListIsTrue
<1>12. ASSUME NEW v \in {"send", "receive"}, Back(v) PROVE PageTypeOK' /\ ListIsTrue'
  BY <1>2, <1>12 DEF Back
<1>13. CASE LogoHome
  BY <1>2, <1>13 DEF LogoHome
<1> QED BY <1>4, <1>5, <1>6, <1>7, <1>8, <1>9, <1>10, <1>11, <1>12, <1>13 DEF PageNext


(* A reset gives every button of the views its initial look; what a reset  *)
(* shows, and what any other step makes of the buttons, is no dead button. *)
LEMMA ResetAlive ==
    ASSUME NEW views \in SUBSET {"send", "receive"}, PageTypeOK, NoDeadButton,
           ResetViews(views)
    PROVE  NoDeadButton'
<1> SUFFICES ASSUME NEW b \in Button, ~button'[b].hidden, ~button'[b].connecting,
                    IF b = "create" THEN selectedFiles' # <<>>
                    ELSE (Full(roomCodeInputs))'
             PROVE  ~button'[b].disabled
  BY DEF NoDeadButton, Full
<1> DEFINE mine == (IF b = "create" THEN "send" ELSE "receive") \in views
<1>1. b = "create" \/ b = "join"
  BY DEF Button
<1>2. ~mine
  <2>1. CASE b = "create"
    BY <2>1 DEF ResetViews
  <2>2. CASE b = "join" /\ mine
    <3>1. roomCodeInputs' = EmptyBoxes
      BY <2>2 DEF ResetViews
    <3>2. 1 \in Boxes
      BY PageAssumption DEF Boxes
    <3>3. ~roomCodeInputs'[1]
      BY <3>1, <3>2 DEF EmptyBoxes
    <3> QED BY <2>2, <3>2, <3>3 DEF Full
  <2> QED BY <1>1, <2>1, <2>2
<1>3. button'[b] = button[b]
  BY <1>2 DEF ResetViews
<1>4. b = "create" => selectedFiles' = selectedFiles
  BY <1>2 DEF ResetViews
<1>5. b = "join" => roomCodeInputs' = roomCodeInputs
  BY <1>2 DEF ResetViews
<1> QED BY <1>1, <1>3, <1>4, <1>5 DEF NoDeadButton, Full

LEMMA PageAlive ==
    ASSUME PageTypeOK, NoDeadButton, PageNext
    PROVE  NoDeadButton'
<1>0. button \in [Button -> ButtonState] /\ "create" \in Button /\ "join" \in Button
  BY DEF PageTypeOK, ButtonState, Button
<1>1. ASSUME NEW files, selectedFiles' = files,
             UpdateFileListUI(files), roomCodeInputs' = roomCodeInputs
      PROVE  NoDeadButton'
  <2> SUFFICES ASSUME NEW b \in Button, ~button'[b].hidden, ~button'[b].connecting,
                      IF b = "create" THEN selectedFiles' # <<>>
                      ELSE (Full(roomCodeInputs))'
               PROVE  ~button'[b].disabled
    BY DEF NoDeadButton, Full
  <2>1. CASE b = "create"
    BY <1>0, <1>1, <2>1 DEF UpdateFileListUI, ButtonState
  <2>2. CASE b # "create"
    <3>1. button'[b] = button[b]
      BY <1>0, <1>1, <2>2 DEF UpdateFileListUI
    <3> QED BY <1>1, <2>2, <3>1 DEF NoDeadButton, Full
  <2> QED BY <2>1, <2>2
<1>2. ASSUME NEW boxes, EditBoxes(boxes)
      PROVE  NoDeadButton'
  <2> SUFFICES ASSUME NEW b \in Button, ~button'[b].hidden, ~button'[b].connecting,
                      IF b = "create" THEN selectedFiles' # <<>>
                      ELSE (Full(roomCodeInputs))'
               PROVE  ~button'[b].disabled
    BY DEF NoDeadButton, Full
  <2>1. CASE b = "join"
    BY <1>0, <1>2, <2>1 DEF EditBoxes, UpdateJoinButton, ButtonState, Full
  <2>2. CASE b # "join"
    <3>1. button'[b] = button[b] /\ b = "create"
      BY <1>0, <1>2, <2>2 DEF EditBoxes, UpdateJoinButton, Button
    <3> QED BY <1>2, <3>1 DEF NoDeadButton, EditBoxes
  <2> QED BY <2>1, <2>2
<1>3. ASSUME UNCHANGED <<selectedFiles, roomCodeInputs, button>>
      PROVE  NoDeadButton'
  BY <1>3 DEF NoDeadButton, Full
<1>4. CASE AddFiles
  BY <1>1, <1>4 DEF AddFiles
<1>5. CASE OpenPicker
  BY <1>3, <1>5 DEF OpenPicker
<1>6. CASE RemoveFile
  BY <1>1, <1>6 DEF RemoveFile
<1>7. CASE ClearAll
  <2>1. selectedFiles' = <<>> /\ UpdateFileListUI(selectedFiles')
        /\ roomCodeInputs' = roomCodeInputs
    BY <1>7 DEF ClearAll
  <2> QED BY <1>1, <2>1
<1>8. CASE TypeBox
  BY <1>2, <1>8 DEF TypeBox
<1>9. CASE Backspace
  BY <1>2, <1>9 DEF Backspace
<1>10. CASE Paste
  BY <1>2, <1>10 DEF Paste
<1>11. ASSUME NEW v \in {"send", "receive"}, GoTo(v) PROVE NoDeadButton'
  BY <1>3, <1>11 DEF GoTo
<1>12. ASSUME NEW v \in {"send", "receive"}, Back(v) PROVE NoDeadButton'
  <2>1. {v} \in SUBSET {"send", "receive"} /\ ResetViews({v})
    BY <1>12 DEF Back
  <2> QED BY <2>1, ResetAlive
<1>13. CASE LogoHome
  <2>1. {"send", "receive"} \in SUBSET {"send", "receive"} /\ ResetViews({"send", "receive"})
    BY <1>13 DEF LogoHome
  <2> QED BY <2>1, ResetAlive
<1> QED BY <1>4, <1>5, <1>6, <1>7, <1>8, <1>9, <1>10, <1>11, <1>12, <1>13 DEF PageNext


-----------------------------------------------------------------------------
(* The inductive invariant of the client.  The CHOOSE of NewSocket is only *)
(* defined while some socket is closed, which the bound on the storm       *)
(* gives; Disconnect closes the socket that ws holds, which must be a live *)
(* one; and a client told to stay away has no timer left in                *)
(* _reconnectTimer.                                                        *)
Quiet ==
    /\ ws # NoSocket => readyState[ws] # "closed"
    /\ intentionalClose => ~reconnectTimer

Inv == TypeOK /\ ListIsTrue /\ NoReconnectStorm /\ Quiet

LEMMA Limits ==
    maxReconnectAttempts \in Nat /\ MaxClicks \in Nat /\ NoSocket \notin Socket
BY ClientAssumption

LEMMA LiveType ==
    IsFiniteSet(Live) /\ Cardinality(Live) \in Nat /\ Live \subseteq Socket
BY ClientAssumption, FS_Subset, FS_CardinalityType DEF Live

LEMMA TimersType == TypeOK => Timers \in Nat
BY DEF TypeOK, Timers

(* A tab with fewer live sockets than clicks it may make can open one.     *)
LEMMA FreeSocket ==
    ASSUME Cardinality(Live) < MaxClicks
    PROVE  \E s \in Socket : readyState[s] = "closed"
<1> SUFFICES ASSUME \A s \in Socket : readyState[s] # "closed" PROVE FALSE
  OBVIOUS
<1>1. Live = Socket
  BY DEF Live
<1>2. Cardinality(Socket) \in Nat
  BY ClientAssumption, FS_CardinalityType
<1> QED BY <1>1, <1>2, ClientAssumption

(* connect() takes a closed socket and leaves the others alone.            *)
LEMMA NewSocketStep ==
    ASSUME TypeOK, NEW b \in Button \cup {"none"}, NewSocket(b),
           Cardinality(Live) < MaxClicks
    PROVE  /\ ws' \in Socket
           /\ ~intentionalClose' /\ intentionalClose' \in BOOLEAN
           /\ readyState' \in [Socket -> {"connecting", "open", "closing", "closed"}]
           /\ readyState'[ws'] # "closed"
           /\ awaits' \in [Socket -> Button \cup {"none"}]
           /\ Cardinality(Live') = Cardinality(Live) + 1
<1>1. ws' \in Socket /\ readyState[ws'] = "closed"
  BY FreeSocket DEF NewSocket
<1>2. readyState' = [readyState EXCEPT ![ws'] = "connecting"]
  BY DEF NewSocket
<1>3. Live' = Live \cup {ws'} /\ ws' \notin Live
  BY <1>1, <1>2 DEF Live, TypeOK
<1>4. Cardinality(Live') = Cardinality(Live) + 1
  BY <1>3, LiveType, FS_AddElement
<1>5. awaits' \in [Socket -> Button \cup {"none"}]
  BY <1>1 DEF NewSocket, TypeOK
<1>6. readyState' \in [Socket -> {"connecting", "open", "closing", "closed"}]
      /\ readyState'[ws'] # "closed"
  BY <1>1, <1>2 DEF TypeOK
<1> QED BY <1>1, <1>4, <1>5, <1>6 DEF NewSocket

(* A socket that ends is no longer live.                                   *)
LEMMA EndedLive ==
    ASSUME TypeOK, NEW s \in Socket, readyState[s] # "closed", Ended(s)
    PROVE  Cardinality(Live') = Cardinality(Live) - 1
<1>1. readyState' = [readyState EXCEPT ![s] = "closed"]
  BY DEF Ended
<1>2. Live' = Live \ {s} /\ s \in Live
  BY <1>1 DEF Live, TypeOK
<1> QED BY <1>2, LiveType, FS_RemoveElement

(* _send leaves well-typed queues, whether it sends or refuses.            *)
LEMMA SendType ==
    ASSUME TypeOK, NEW b \in Button, NEW btns \in [Button -> ButtonState],
           NEW states, Send(b, btns, states)
    PROVE  /\ button' \in [Button -> ButtonState]
           /\ member' \in [Socket -> BOOLEAN]
           /\ inbox' \in [Socket -> Seq(Button \cup {"error"})]
<1>1. CASE Open(ws, states)
  <2>1. PICK type \in {b, "error"} :
          /\ member' = [member EXCEPT ![ws] = @ \/ type = b]
          /\ inbox' = [inbox EXCEPT ![ws] = Append(@, type)]
    BY <1>1 DEF Send
  <2>2. ws \in Socket
    BY <1>1 DEF Open, TypeOK
  <2>3. member[ws] \in BOOLEAN
    BY <2>2 DEF TypeOK
  <2>4. member' \in [Socket -> BOOLEAN]
    BY <2>1, <2>3 DEF TypeOK
  <2>5. Append(inbox[ws], type) \in Seq(Button \cup {"error"})
    BY <2>2 DEF TypeOK
  <2>6. inbox' \in [Socket -> Seq(Button \cup {"error"})]
    BY <2>1, <2>5 DEF TypeOK
  <2>7. button' = btns
    BY <1>1 DEF Send
  <2> QED BY <2>4, <2>6, <2>7
<1>2. CASE ~Open(ws, states)
  <2>1. button' \in [Button -> ButtonState]
    <3>1. button \in [Button -> ButtonState]
      BY DEF TypeOK, PageTypeOK, ButtonState
    <3> QED BY <1>2, EnableType DEF Send
  <2> QED BY <1>2, <2>1 DEF Send, TypeOK
<1> QED BY <1>1, <1>2

LEMMA InitInv == Init => Inv
<1> SUFFICES ASSUME Init PROVE Inv
  OBVIOUS
<1>1. PageTypeOK
  <2>1. [b \in Button |-> OffButton] \in [Button -> ButtonState]
    BY DEF OffButton, ButtonState
  <2>2. selectedFiles \in Seq(File) /\ listed \in Seq(File)
    BY DEF Init, PageInit
  <2>3. roomCodeInputs \in [Boxes -> BOOLEAN]
    BY DEF Init, PageInit, EmptyBoxes
  <2> QED BY <2>1, <2>2, <2>3 DEF Init, PageInit, PageTypeOK, ButtonState
<1>2. TypeOK
  <2>1. inbox \in [Socket -> Seq(Button \cup {"error"})]
    BY DEF Init
  <2>2. /\ readyState \in [Socket -> {"connecting", "open", "closing", "closed"}]
        /\ awaits \in [Socket -> Button \cup {"none"}]
        /\ member \in [Socket -> BOOLEAN]
    BY DEF Init
  <2>3. reconnectAttempts \in 0..maxReconnectAttempts /\ clicks \in 0..MaxClicks
        /\ strayTimers \in Nat
    BY Limits DEF Init
  <2> QED BY <1>1, <2>1, <2>2, <2>3 DEF Init, TypeOK
<1>3. Live = {}
  BY DEF Init, Live
<1>4. NoReconnectStorm
  BY <1>3, FS_EmptySet DEF Init, NoReconnectStorm, Timers
<1> QED BY <1>2, <1>4 DEF Init, PageInit, Inv, ListIsTrue, Quiet


(* Every step of the client keeps the invariant.                           *)
LEMMA ClickInv ==
    ASSUME Inv, NEW b \in Button, Click(b) PROVE Inv'
<1>1. TypeOK /\ NoReconnectStorm /\ Quiet /\ button \in [Button -> ButtonState]
  BY DEF Inv, TypeOK, PageTypeOK, ButtonState
<1>2. /\ clicks < MaxClicks /\ clicks' = clicks + 1
      /\ Timers' = Timers
      /\ UNCHANGED <<view, selectedFiles, listed, area, picker, roomCodeInputs,
                     currentRoomCode, reconnectAttempts, reconnectTimer, strayTimers>>
  BY DEF Click, Timers
<1>3. clicks' \in 0..MaxClicks /\ clicks \in Nat /\ MaxClicks \in Nat
  BY <1>1, <1>2, Limits DEF TypeOK
<1>4. interrupted' \subseteq Button
  <2>1. \/ interrupted' = interrupted \ {b}
        \/ interrupted' = interrupted \cup {b}
    BY DEF Click
  <2> QED BY <1>1, <2>1 DEF TypeOK
<1>5. Press(b) \in [Button -> ButtonState]
  BY <1>1, PressType
<1>6. CASE Connected
  <2>1. Send(b, Press(b), readyState)
        /\ UNCHANGED <<ws, intentionalClose, readyState, awaits>>
    BY <1>6 DEF Click
  <2>2. /\ button' \in [Button -> ButtonState]
        /\ member' \in [Socket -> BOOLEAN]
        /\ inbox' \in [Socket -> Seq(Button \cup {"error"})]
    BY <1>1, <1>5, <2>1, SendType
  <2>3. TypeOK'
    BY <1>1, <1>2, <1>3, <1>4, <2>1, <2>2 DEF TypeOK, PageTypeOK, ButtonState
  <2>4. NoReconnectStorm'
    <3>1. Live' = Live
      BY <2>1 DEF Live
    <3> QED BY <1>1, <1>2, <1>3, <3>1, LiveType, TimersType DEF NoReconnectStorm
  <2> QED BY <1>1, <1>2, <2>1, <2>3, <2>4 DEF Inv, ListIsTrue, Quiet
<1>7. CASE ~Connected
  <2>1. button' = Press(b) /\ NewSocket(b) /\ UNCHANGED <<member, inbox>>
    BY <1>7 DEF Click
  <2>2. Cardinality(Live) < MaxClicks
    BY <1>1, <1>2, <1>3, LiveType, TimersType DEF NoReconnectStorm
  <2>3. /\ ws' \in Socket
        /\ ~intentionalClose' /\ intentionalClose' \in BOOLEAN
        /\ readyState' \in [Socket -> {"connecting", "open", "closing", "closed"}]
        /\ readyState'[ws'] # "closed"
        /\ awaits' \in [Socket -> Button \cup {"none"}]
        /\ Cardinality(Live') = Cardinality(Live) + 1
    BY <1>1, <2>1, <2>2, NewSocketStep
  <2>4. TypeOK'
    BY <1>1, <1>2, <1>3, <1>4, <1>5, <2>1, <2>3 DEF TypeOK, PageTypeOK, ButtonState
  <2>5. NoReconnectStorm'
    BY <1>1, <1>2, <1>3, <2>3, LiveType, TimersType DEF NoReconnectStorm
  <2> QED BY <1>2, <2>3, <2>4, <2>5 DEF Inv, ListIsTrue, Quiet
<1> QED BY <1>6, <1>7

LEMMA ReconnectTimerInv ==
    ASSUME Inv, ReconnectTimer PROVE Inv'
<1>1. TypeOK /\ NoReconnectStorm /\ Quiet
  BY DEF Inv
<1>2. UNCHANGED <<pageVars, currentRoomCode, reconnectAttempts, member, inbox,
                  clicks, interrupted>>
  BY DEF ReconnectTimer
<1>3. /\ strayTimers' \in Nat
      /\ Timers \in Nat /\ Timers' \in Nat /\ Timers = Timers' + 1
  <2>0. strayTimers \in Nat
    BY <1>1 DEF TypeOK
  <2>1. CASE reconnectTimer /\ reconnectTimer' = FALSE /\ UNCHANGED strayTimers
    <3>1. Timers = strayTimers + 1 /\ Timers' = strayTimers
      BY <2>0, <2>1 DEF Timers
    <3> QED BY <2>0, <2>1, <3>1
  <2>2. CASE strayTimers > 0 /\ strayTimers' = strayTimers - 1
             /\ UNCHANGED reconnectTimer
    <3>1. strayTimers' \in Nat /\ strayTimers = strayTimers' + 1
      BY <2>0, <2>2
    <3>2. CASE reconnectTimer
      <4>1. Timers = strayTimers + 1 /\ Timers' = strayTimers
        BY <2>0, <2>2, <3>2 DEF Timers
      <4>2. Timers \in Nat /\ Timers' \in Nat
        BY <2>0, <4>1
      <4>3. Timers = Timers' + 1
        BY <2>0, <4>1
      <4> QED BY <3>1, <4>2, <4>3
    <3>3. CASE ~reconnectTimer
      <4>1. Timers = strayTimers /\ Timers' = strayTimers'
        BY <2>0, <2>2, <3>1, <3>3 DEF Timers
      <4> QED BY <2>0, <3>1, <4>1
    <3> QED BY <3>2, <3>3
  <2> QED BY <2>1, <2>2 DEF ReconnectTimer
<1>9. reconnectTimer' \in BOOLEAN /\ (reconnectTimer' => reconnectTimer)
  <2>1. reconnectTimer' = FALSE \/ reconnectTimer' = reconnectTimer
    BY DEF ReconnectTimer
  <2>2. reconnectTimer \in BOOLEAN
    BY <1>1 DEF TypeOK
  <2>3. CASE reconnectTimer' = FALSE
    BY <2>3
  <2>4. CASE reconnectTimer' = reconnectTimer
    BY <2>2, <2>4
  <2> QED BY <2>1, <2>3, <2>4
<1>4. clicks \in Nat /\ MaxClicks \in Nat /\ clicks <= MaxClicks
  BY <1>1, Limits DEF TypeOK
<1>5. ListIsTrue'
  BY <1>2 DEF Inv, ListIsTrue, pageVars
<1>6. PageTypeOK'
  BY <1>1, <1>2 DEF TypeOK, PageTypeOK, pageVars
<1>7. CASE Connected
  <2>1. UNCHANGED <<ws, intentionalClose, readyState, awaits>>
    BY <1>7 DEF ReconnectTimer
  <2>2. TypeOK'
    BY <1>1, <1>2, <1>3, <1>6, <1>9, <2>1 DEF TypeOK
  <2>3. Live' = Live
    BY <2>1 DEF Live
  <2>4. NoReconnectStorm'
    BY <1>1, <1>2, <1>3, <1>4, <2>3, LiveType DEF NoReconnectStorm
  <2> QED BY <1>1, <1>5, <1>9, <2>1, <2>2, <2>4 DEF Inv, Quiet
<1>8. CASE ~Connected
  <2>1. NewSocket("none")
    BY <1>8 DEF ReconnectTimer
  <2>2. Cardinality(Live) < MaxClicks
    BY <1>1, <1>3, <1>4, LiveType DEF NoReconnectStorm
  <2>3. /\ ws' \in Socket
        /\ ~intentionalClose' /\ intentionalClose' \in BOOLEAN
        /\ readyState' \in [Socket -> {"connecting", "open", "closing", "closed"}]
        /\ readyState'[ws'] # "closed"
        /\ awaits' \in [Socket -> Button \cup {"none"}]
        /\ Cardinality(Live') = Cardinality(Live) + 1
    BY <1>1, <2>1, <2>2, NewSocketStep
  <2>4. TypeOK'
    BY <1>1, <1>2, <1>3, <1>6, <1>9, <2>3 DEF TypeOK
  <2>5. NoReconnectStorm'
    BY <1>1, <1>2, <1>3, <1>4, <2>3, LiveType DEF NoReconnectStorm
  <2> QED BY <1>5, <2>3, <2>4, <2>5 DEF Inv, Quiet
<1> QED BY <1>7, <1>8

LEMMA OnOpenInv ==
    ASSUME Inv, NEW s \in Socket, OnOpen(s) PROVE Inv'
<1>1. TypeOK /\ NoReconnectStorm /\ Quiet /\ button \in [Button -> ButtonState]
  BY DEF Inv, TypeOK, PageTypeOK, ButtonState
<1>2. /\ readyState[s] = "connecting"
      /\ readyState' = [readyState EXCEPT ![s] = "open"]
      /\ reconnectAttempts' = 0
      /\ awaits' = [awaits EXCEPT ![s] = "none"]
      /\ UNCHANGED <<view, selectedFiles, listed, area, picker, roomCodeInputs, ws,
                     currentRoomCode, intentionalClose, reconnectTimer,
                     strayTimers, clicks, interrupted>>
  BY DEF OnOpen
<1>3. /\ button' \in [Button -> ButtonState]
      /\ member' \in [Socket -> BOOLEAN]
      /\ inbox' \in [Socket -> Seq(Button \cup {"error"})]
  <2>1. CASE awaits[s] \in Button
    BY <1>1, <2>1, SendType DEF OnOpen
  <2>2. CASE awaits[s] \notin Button
    BY <1>1, <2>2 DEF OnOpen, TypeOK
  <2> QED BY <2>1, <2>2
<1>4. Live' = Live
  BY <1>1, <1>2 DEF Live, TypeOK
<1>5. TypeOK'
  <2>1. PageTypeOK'
    BY <1>1, <1>2, <1>3 DEF TypeOK, PageTypeOK, ButtonState
  <2>2. reconnectAttempts' \in 0..maxReconnectAttempts
    BY <1>2, Limits
  <2>3. /\ readyState' \in [Socket -> {"connecting", "open", "closing", "closed"}]
        /\ awaits' \in [Socket -> Button \cup {"none"}]
    BY <1>1, <1>2 DEF TypeOK
  <2> QED BY <1>1, <1>2, <1>3, <2>1, <2>2, <2>3 DEF TypeOK
<1>6. NoReconnectStorm'
  BY <1>1, <1>2, <1>4 DEF NoReconnectStorm, Timers
<1>7. Quiet'
  BY <1>1, <1>2 DEF Quiet, TypeOK
<1> QED BY <1>2, <1>5, <1>6, <1>7 DEF Inv, ListIsTrue


(* A retry is scheduled by one timer more, and within the limit.           *)
LEMMA ScheduleType ==
    ASSUME TypeOK, NEW btns \in [Button -> ButtonState], ScheduleReconnect(btns)
    PROVE  /\ button' \in [Button -> ButtonState]
           /\ reconnectAttempts' \in 0..maxReconnectAttempts
           /\ strayTimers' \in Nat /\ reconnectTimer' \in BOOLEAN
           /\ Timers' \in Nat /\ Timers' <= Timers + 1
<1>1. Timers \in Nat
  BY TimersType
<1>2. CASE reconnectAttempts >= maxReconnectAttempts
  <2>1. button' = Enable(btns, Button)
        /\ UNCHANGED <<reconnectAttempts, reconnectTimer, strayTimers>>
    BY <1>2 DEF ScheduleReconnect
  <2>2. Timers' = Timers
    BY <2>1 DEF Timers
  <2>3. button' \in [Button -> ButtonState]
    BY <2>1, EnableType
  <2> QED BY <1>1, <2>1, <2>2, <2>3 DEF TypeOK
<1>3. CASE ~(reconnectAttempts >= maxReconnectAttempts)
  <2>1. reconnectAttempts' = reconnectAttempts + 1 /\ reconnectTimer' = TRUE
        /\ strayTimers' = Timers /\ button' = btns
    BY <1>3 DEF ScheduleReconnect
  <2>2. Timers' = strayTimers' + 1
    BY <2>1 DEF Timers
  <2>3. reconnectAttempts' \in 0..maxReconnectAttempts
    BY <1>3, <2>1, Limits DEF TypeOK
  <2> QED BY <1>1, <2>1, <2>2, <2>3
<1> QED BY <1>2, <1>3

LEMMA EndedInv ==
    ASSUME Inv, NEW s \in Socket, readyState[s] # "closed", Ended(s) PROVE Inv'
<1>1. TypeOK /\ NoReconnectStorm /\ Quiet /\ button \in [Button -> ButtonState]
  BY DEF Inv, TypeOK, PageTypeOK, ButtonState
<1>2. /\ readyState' = [readyState EXCEPT ![s] = "closed"]
      /\ awaits' = [awaits EXCEPT ![s] = "none"]
      /\ ws' = NoSocket
      /\ member' = [member EXCEPT ![s] = FALSE]
      /\ inbox' = [inbox EXCEPT ![s] = <<>>]
      /\ UNCHANGED <<view, selectedFiles, listed, area, picker, roomCodeInputs,
                     currentRoomCode, intentionalClose, clicks>>
  BY DEF Ended
<1> DEFINE btns == IF reconnectAttempts = 0 THEN Enable(button, {awaits[s]})
                   ELSE button
<1>3. btns \in [Button -> ButtonState]
  BY <1>1, EnableType
<1>4. IF intentionalClose
      THEN /\ button' = btns
           /\ UNCHANGED <<reconnectAttempts, reconnectTimer, strayTimers>>
      ELSE ScheduleReconnect(btns)
  BY DEF Ended
<1> HIDE DEF btns
<1>5. /\ button' \in [Button -> ButtonState]
      /\ reconnectAttempts' \in 0..maxReconnectAttempts
      /\ strayTimers' \in Nat /\ reconnectTimer' \in BOOLEAN
      /\ Timers' \in Nat /\ Timers' <= Timers + 1
  <2>1. CASE intentionalClose
    <3>1. Timers' = Timers /\ Timers \in Nat
      BY <1>1, <1>4, <2>1, TimersType DEF Timers
    <3> QED BY <1>1, <1>3, <1>4, <2>1, <3>1 DEF TypeOK
  <2>2. CASE ~intentionalClose
    BY <1>1, <1>3, <1>4, <2>2, ScheduleType
  <2> QED BY <2>1, <2>2
<1>6. interrupted' \subseteq Button
  <2>1. \/ interrupted' = interrupted
        \/ interrupted' = {b \in Button : button'[b].connecting}
    BY DEF Ended
  <2> QED BY <1>1, <2>1 DEF TypeOK
<1>7. TypeOK'
  <2>1. PageTypeOK'
    BY <1>1, <1>2, <1>5 DEF TypeOK, PageTypeOK, ButtonState
  <2>2. inbox' \in [Socket -> Seq(Button \cup {"error"})]
    BY <1>1, <1>2 DEF TypeOK
  <2>3. /\ readyState' \in [Socket -> {"connecting", "open", "closing", "closed"}]
        /\ awaits' \in [Socket -> Button \cup {"none"}]
        /\ member' \in [Socket -> BOOLEAN]
    BY <1>1, <1>2 DEF TypeOK
  <2> QED BY <1>1, <1>2, <1>5, <1>6, <2>1, <2>2, <2>3 DEF TypeOK
<1>8. NoReconnectStorm'
  <2>1. Cardinality(Live') = Cardinality(Live) - 1
    BY <1>1, EndedLive
  <2>2. Cardinality(Live) \in Nat /\ Timers \in Nat /\ clicks \in Nat
    BY <1>1, LiveType, TimersType DEF TypeOK
  <2> QED BY <1>1, <1>2, <1>5, <2>1, <2>2 DEF NoReconnectStorm
<1>9. Quiet'
  <2>1. intentionalClose => UNCHANGED reconnectTimer
    BY <1>4
  <2> QED BY <1>1, <1>2, <2>1 DEF Quiet
<1> QED BY <1>2, <1>7, <1>8, <1>9 DEF Inv, ListIsTrue

LEMMA CancelTransferInv ==
    ASSUME Inv, CancelTransfer PROVE Inv'
<1>1. TypeOK /\ NoReconnectStorm /\ Quiet /\ PageTypeOK
  BY DEF Inv, TypeOK
<1>2. /\ intentionalClose' = TRUE /\ reconnectTimer' = FALSE
      /\ reconnectAttempts' = 0
      /\ ws' = NoSocket /\ currentRoomCode' = NoSocket
      /\ readyState' = [t \in Socket |-> IF t = ws THEN "closing" ELSE readyState[t]]
      /\ ResetViews({"send", "receive"})
      /\ view' = "home"
      /\ UNCHANGED <<picker, strayTimers, awaits, member, inbox, clicks, interrupted>>
  BY DEF CancelTransfer, Disconnect
<1>3. TypeOK'
  <2>1. PageTypeOK'
    BY <1>1, <1>2, ResetType DEF PageTypeOK, ButtonState
  <2>2. readyState' \in [Socket -> {"connecting", "open", "closing", "closed"}]
    BY <1>1, <1>2 DEF TypeOK
  <2>3. reconnectAttempts' \in 0..maxReconnectAttempts
    BY <1>2, Limits
  <2> QED BY <1>1, <1>2, <2>1, <2>2, <2>3 DEF TypeOK
<1>4. NoReconnectStorm'
  <2>1. Live' = Live
    BY <1>1, <1>2, Limits DEF Live, Quiet
  <2>2. Timers' \in Nat /\ Timers' <= Timers /\ Timers \in Nat
    BY <1>1, <1>2 DEF Timers, TypeOK
  <2>3. Cardinality(Live) \in Nat /\ clicks \in Nat
    BY <1>1, LiveType DEF TypeOK
  <2> QED BY <1>1, <1>2, <2>1, <2>2, <2>3 DEF NoReconnectStorm
<1>5. ListIsTrue'
  BY <1>2 DEF ResetViews, ListIsTrue
<1> QED BY <1>2, <1>3, <1>4, <1>5 DEF Inv, Quiet

LEMMA HandleMessageInv ==
    ASSUME Inv, NEW s \in Socket, HandleMessage(s) PROVE Inv'
<1>1. TypeOK /\ NoReconnectStorm /\ Quiet /\ button \in [Button -> ButtonState]
      /\ ListIsTrue
  BY DEF Inv, TypeOK, PageTypeOK, ButtonState
<1>2. /\ inbox[s] # <<>>
      /\ inbox' = [inbox EXCEPT ![s] = Tail(@)]
      /\ UNCHANGED <<ws, intentionalClose, reconnectAttempts, reconnectTimer,
                     strayTimers, readyState, awaits, member, clicks, interrupted>>
  BY DEF HandleMessage
<1>3. inbox' \in [Socket -> Seq(Button \cup {"error"})]
  <2>1. Tail(inbox[s]) \in Seq(Button \cup {"error"})
    BY <1>1, <1>2, HeadTailProperties DEF TypeOK
  <2> QED BY <1>1, <1>2, <2>1 DEF TypeOK
<1>4. PageTypeOK' /\ ListIsTrue' /\ currentRoomCode' \in Socket \cup {NoSocket}
  <2>1. CASE Head(inbox[s]) = "create"
    <3>1. currentRoomCode' = s /\ OnRoomCreated
      BY <2>1 DEF HandleMessage
    <3>2. button' \in [Button -> ButtonState]
      BY <1>1, <3>1 DEF OnRoomCreated, ButtonState, Button
    <3> QED BY <1>1, <3>1, <3>2 DEF OnRoomCreated, TypeOK, PageTypeOK, ButtonState,
                                    ListIsTrue
  <2>2. CASE Head(inbox[s]) = "join"
    <3>1. currentRoomCode' = s /\ OnRoomJoined
      BY <2>2 DEF HandleMessage
    <3>2. button' \in [Button -> ButtonState]
      BY <1>1, <3>1 DEF OnRoomJoined, ButtonState, Button
    <3> QED BY <1>1, <3>1, <3>2 DEF OnRoomJoined, TypeOK, PageTypeOK, ButtonState,
                                    ListIsTrue
  <2>3. CASE Head(inbox[s]) # "create" /\ Head(inbox[s]) # "join"
    <3>1. /\ button' = Enable(button, Button)
          /\ UNCHANGED <<currentRoomCode, view, selectedFiles, listed,
                         area, picker, roomCodeInputs>>
      BY <2>3 DEF HandleMessage
    <3>2. button' \in [Button -> ButtonState]
      BY <1>1, <3>1, EnableType
    <3> QED BY <1>1, <3>1, <3>2 DEF TypeOK, PageTypeOK, ButtonState, ListIsTrue
  <2> QED BY <2>1, <2>2, <2>3
<1>5. TypeOK'
  BY <1>1, <1>2, <1>3, <1>4 DEF TypeOK
<1>6. NoReconnectStorm'
  BY <1>1, <1>2 DEF NoReconnectStorm, Live, Timers
<1> QED BY <1>1, <1>2, <1>4, <1>5, <1>6 DEF Inv, Quiet

LEMMA NextInv == Inv /\ [Next]_vars => Inv'
<1> SUFFICES ASSUME Inv, [Next]_vars PROVE Inv'
  OBVIOUS
<1>0. TypeOK /\ PageTypeOK /\ ListIsTrue /\ NoReconnectStorm /\ Quiet
  BY DEF Inv, TypeOK
<1>1. CASE PageNext /\ UNCHANGED clientVars
  <2>1. PageTypeOK' /\ ListIsTrue'
    BY <1>0, <1>1, PageStep
  <2>2. NoReconnectStorm'
    BY <1>0, <1>1 DEF NoReconnectStorm, Live, Timers, clientVars
  <2> QED BY <1>0, <1>1, <2>1, <2>2 DEF Inv, TypeOK, Quiet, clientVars
<1>2. ASSUME NEW b \in Button, Click(b) PROVE Inv'
  BY <1>2, ClickInv
<1>3. CASE ReconnectTimer
  BY <1>3, ReconnectTimerInv
<1>4. CASE CancelTransfer
  BY <1>4, CancelTransferInv
<1>5. ASSUME NEW s \in Socket, OnOpen(s) PROVE Inv'
  BY <1>5, OnOpenInv
<1>6. ASSUME NEW s \in Socket, OnClose(s) \/ Lose(s) PROVE Inv'
  BY <1>6, EndedInv DEF OnClose, Lose
<1>7. ASSUME NEW s \in Socket, HandleMessage(s) PROVE Inv'
  BY <1>7, HandleMessageInv
<1>8. ASSUME NEW s \in Socket, RoomGoes(s) PROVE Inv'
  <2>1. /\ member' = [member EXCEPT ![s] = FALSE]
        /\ UNCHANGED <<pageVars, ws, currentRoomCode, intentionalClose,
                       reconnectAttempts, reconnectTimer, strayTimers, readyState,
                       awaits, inbox, clicks, interrupted>>
    BY <1>8 DEF RoomGoes
  <2>2. TypeOK'
    BY <1>0, <2>1 DEF TypeOK, PageTypeOK, pageVars
  <2> QED BY <1>0, <2>1, <2>2 DEF Inv, ListIsTrue, NoReconnectStorm, Live, Timers, Quiet,
                                  pageVars
<1>9. CASE UNCHANGED vars
  BY <1>0, <1>9 DEF vars, pageVars, clientVars, Inv, TypeOK, PageTypeOK, ListIsTrue,
                    NoReconnectStorm, Live, Timers, Quiet
<1> QED BY <1>1, <1>2, <1>3, <1>4, <1>5, <1>6, <1>7, <1>8, <1>9 DEF Next


-----------------------------------------------------------------------------
(* The buttons through the steps of the client.                            *)

LEMMA EnableAllAlive ==
    ASSUME NEW btns \in [Button -> ButtonState], button' = Enable(btns, Button)
    PROVE  NoDeadButton'
<1>1. \A b \in Button : button'[b].disabled = FALSE
  BY DEF Enable, ButtonState
<1> QED BY <1>1 DEF NoDeadButton

LEMMA EnableAlive ==
    ASSUME NEW which, TypeOK, NoDeadButton, button' = Enable(button, which),
           UNCHANGED <<selectedFiles, roomCodeInputs>>
    PROVE  NoDeadButton'
<1>1. ASSUME NEW b \in Button
      PROVE  button'[b].disabled = FALSE \/ button'[b] = button[b]
  <2>1. button[b] \in ButtonState
    BY DEF TypeOK, PageTypeOK, ButtonState
  <2> QED BY <2>1 DEF Enable, ButtonState
<1> QED BY <1>1 DEF NoDeadButton, Full

LEMMA FrameAlive ==
    ASSUME NoDeadButton, UNCHANGED <<selectedFiles, roomCodeInputs, button>>
    PROVE  NoDeadButton'
BY DEF NoDeadButton, Full

LEMMA PressAlive ==
    ASSUME NEW b \in Button, TypeOK, NoDeadButton, button' = Press(b),
           UNCHANGED <<selectedFiles, roomCodeInputs>>
    PROVE  NoDeadButton'
<1>1. button \in [Button -> ButtonState]
  BY DEF TypeOK, PageTypeOK, ButtonState
<1>2. button'[b].connecting
  BY <1>1 DEF Press, ButtonState
<1>3. \A c \in Button : c # b => button'[c] = button[c]
  BY <1>1 DEF Press
<1> QED BY <1>2, <1>3 DEF NoDeadButton, Full

LEMMA SendAlive ==
    ASSUME TypeOK, NoDeadButton, NEW b \in Button, NEW btns \in [Button -> ButtonState],
           btns = button \/ (\E c \in Button : btns = Press(c)), NEW states,
           Send(b, btns, states),
           UNCHANGED <<selectedFiles, roomCodeInputs>>
    PROVE  NoDeadButton'
<1>1. CASE Open(ws, states)
  <2>1. button' = btns
    BY <1>1 DEF Send
  <2> QED BY <2>1, FrameAlive, PressAlive
<1>2. CASE ~Open(ws, states)
  <2>1. button' = Enable(btns, Button)
    BY <1>2 DEF Send
  <2> QED BY <2>1, EnableAllAlive
<1> QED BY <1>1, <1>2

LEMMA NextAlive == Inv /\ NoDeadButton /\ [Next]_vars => NoDeadButton'
<1> SUFFICES ASSUME Inv, NoDeadButton, [Next]_vars PROVE NoDeadButton'
  OBVIOUS
<1>0. TypeOK /\ PageTypeOK /\ button \in [Button -> ButtonState]
  BY DEF Inv, TypeOK, PageTypeOK, ButtonState
<1>1. CASE PageNext /\ UNCHANGED clientVars
  BY <1>0, <1>1, PageAlive
<1>2. ASSUME NEW b \in Button, Click(b) PROVE NoDeadButton'
  <2>1. UNCHANGED <<selectedFiles, roomCodeInputs>> /\ Press(b) \in [Button -> ButtonState]
    BY <1>0, <1>2, PressType DEF Click
  <2>2. Send(b, Press(b), readyState) \/ button' = Press(b)
    BY <1>2 DEF Click
  <2> QED BY <1>0, <2>1, <2>2, SendAlive, PressAlive
<1>3. CASE ReconnectTimer
  BY <1>3, FrameAlive DEF ReconnectTimer, pageVars
<1>4. CASE CancelTransfer
  <2>1. ResetViews({"send", "receive"}) /\ {"send", "receive"} \in SUBSET {"send", "receive"}
    BY <1>4 DEF CancelTransfer
  <2> QED BY <1>0, <2>1, ResetAlive
<1>5. ASSUME NEW s \in Socket, OnOpen(s) PROVE NoDeadButton'
  <2>1. UNCHANGED <<selectedFiles, roomCodeInputs>>
    BY <1>5 DEF OnOpen
  <2>2. UNCHANGED button \/ (awaits[s] \in Button /\ Send(awaits[s], button, readyState'))
    BY <1>5 DEF OnOpen
  <2> QED BY <1>0, <2>1, <2>2, SendAlive, FrameAlive
<1>6. ASSUME NEW s \in Socket, OnClose(s) \/ Lose(s) PROVE NoDeadButton'
  <2> DEFINE btns == IF reconnectAttempts = 0 THEN Enable(button, {awaits[s]})
                     ELSE button
  <2>1. /\ UNCHANGED <<selectedFiles, roomCodeInputs>>
        /\ button' = btns \/ ScheduleReconnect(btns)
    BY <1>6 DEF OnClose, Lose, Ended
  <2>2. button' = btns \/ button' = Enable(btns, Button)
    BY <2>1 DEF ScheduleReconnect
  <2>3. btns \in [Button -> ButtonState]
    BY <1>0, EnableType
  <2>4. CASE button' = btns
    BY <1>0, <2>1, <2>4, EnableAlive, FrameAlive
  <2>5. CASE button' = Enable(btns, Button)
    <3> HIDE DEF btns
    <3> QED BY <2>3, <2>5, EnableAllAlive
  <2> QED BY <2>2, <2>4, <2>5
<1>7. ASSUME NEW s \in Socket, HandleMessage(s) PROVE NoDeadButton'
  <2>1. CASE Head(inbox[s]) = "create"
    <3>1. /\ button' = [button EXCEPT !["create"].hidden = TRUE,
                                      !["create"].connecting = FALSE]
          /\ UNCHANGED <<selectedFiles, roomCodeInputs>>
      BY <1>7, <2>1 DEF HandleMessage, OnRoomCreated
    <3>2. button'["create"].hidden
      BY <1>0, <3>1 DEF ButtonState, Button
    <3>3. \A b \in Button : b # "create" => button'[b] = button[b]
      BY <1>0, <3>1
    <3> QED BY <3>1, <3>2, <3>3 DEF NoDeadButton, Full
  <2>2. CASE Head(inbox[s]) = "join"
    <3>1. /\ button' = [button EXCEPT !["join"].hidden = TRUE]
          /\ UNCHANGED <<selectedFiles, roomCodeInputs>>
      BY <1>7, <2>2 DEF HandleMessage, OnRoomJoined
    <3>2. button'["join"].hidden
      BY <1>0, <3>1 DEF ButtonState, Button
    <3>3. \A b \in Button : b # "join" => button'[b] = button[b]
      BY <1>0, <3>1
    <3> QED BY <3>1, <3>2, <3>3 DEF NoDeadButton, Full
  <2>3. CASE Head(inbox[s]) # "create" /\ Head(inbox[s]) # "join"
    <3>1. button' = Enable(button, Button)
      BY <1>7, <2>3 DEF HandleMessage
    <3> QED BY <1>0, <3>1, EnableAllAlive
  <2> QED BY <2>1, <2>2, <2>3
<1>8. ASSUME NEW s \in Socket, RoomGoes(s) PROVE NoDeadButton'
  BY <1>8, FrameAlive DEF RoomGoes, pageVars
<1>9. CASE UNCHANGED vars
  BY <1>9, FrameAlive DEF vars, pageVars
<1> QED BY <1>1, <1>2, <1>3, <1>4, <1>5, <1>6, <1>7, <1>8, <1>9 DEF Next

-----------------------------------------------------------------------------
LEMMA Invariance == Spec => []Inv
<1> QED BY InitInv, NextInv, PTL DEF Spec

(* Every variable of the page and of the client keeps its type; there is   *)
(* always a closed socket for connect() to take, and the attempts stay     *)
(* within maxReconnectAttempts.                                            *)
THEOREM TypeCorrect == Spec => []TypeOK
<1>1. Inv => TypeOK
  BY DEF Inv
<1> QED BY <1>1, Invariance, PTL

(* Timers beget sockets and lost sockets beget timers one for one: however *)
(* often connections are lost, replaced or forgotten, a tab never has more *)
(* live sockets and pending timers than there have been clicks.            *)
THEOREM NoStorm == Spec => []NoReconnectStorm
<1>1. Inv => NoReconnectStorm
  BY DEF Inv
<1> QED BY <1>1, Invariance, PTL

(* The remove buttons, which go by index, act on the list that will be     *)
(* sent: whenever the list is on the screen it is selectedFiles.           *)
THEOREM ListTrue == Spec => []ListIsTrue
<1>1. Inv => ListIsTrue
  BY DEF Inv
<1> QED BY <1>1, Invariance, PTL

(* With files picked, or a code complete, and no click under way, the      *)
(* visible button is enabled, in whatever order the handlers of the page   *)
(* and of the connection have switched it.                                 *)
THEOREM ButtonsAlive == Spec => []NoDeadButton
<1>1. Init => NoDeadButton
  <2> SUFFICES ASSUME Init PROVE NoDeadButton
    OBVIOUS
  <2>1. selectedFiles = <<>> /\ roomCodeInputs = EmptyBoxes
    BY DEF Init, PageInit
  <2>2. 1 \in Boxes /\ ~roomCodeInputs[1]
    BY <2>1, PageAssumption DEF Boxes, EmptyBoxes
  <2> QED BY <2>1, <2>2 DEF NoDeadButton, Full
<1> QED BY <1>1, NextAlive, Invariance, PTL DEF Spec

(* After disconnect() the client goes on-line again by a click only, or by *)
(* a timer that had been overwritten when two connections were lost: the   *)
(* timer that disconnect() could see is cleared.                           *)
THEOREM UsersReconnect == Spec => OnlyUsersReconnect
<1>1. ASSUME Inv, [Next]_vars, intentionalClose, ~intentionalClose'
      PROVE  clicks' > clicks \/ strayTimers' < strayTimers
  <2>0. Quiet /\ clicks \in Nat /\ strayTimers \in Nat
    BY <1>1 DEF Inv, TypeOK
  <2>1. CASE \E b \in Button : Click(b)
    BY <2>0, <2>1 DEF Click
  <2>2. CASE ReconnectTimer
    <3>1. strayTimers > 0 /\ strayTimers' = strayTimers - 1
      BY <1>1, <2>0, <2>2 DEF ReconnectTimer, Quiet
    <3> QED BY <2>0, <3>1
  <2>3. CASE PageNext /\ UNCHANGED clientVars
    BY <1>1, <2>3 DEF clientVars
  <2>4. CASE CancelTransfer
    BY <1>1, <2>4 DEF CancelTransfer, Disconnect
  <2>5. CASE \E s \in Socket : OnOpen(s) \/ OnClose(s) \/ Lose(s) \/ HandleMessage(s)
                               \/ RoomGoes(s)
    BY <1>1, <2>5 DEF OnOpen, OnClose, Lose, Ended, HandleMessage, RoomGoes
  <2>6. CASE UNCHANGED vars
    BY <1>1, <2>6 DEF vars, clientVars
  <2> QED BY <1>1, <2>1, <2>2, <2>3, <2>4, <2>5, <2>6 DEF Next
<1>2. Inv /\ [Next]_vars =>
        [intentionalClose /\ ~intentionalClose'
            => clicks' > clicks \/ strayTimers' < strayTimers]_vars
  BY <1>1
<1> QED BY <1>2, Invariance, PTL DEF Spec, OnlyUsersReconnect
=============================================================================
