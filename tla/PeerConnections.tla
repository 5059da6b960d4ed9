--------------------------- MODULE PeerConnections ---------------------------
(***************************************************************************)
(* Two tabs that meet in one room after another, and what webrtc.js and    *)
(* app.js make of it: the negotiation of a peer connection through the     *)
(* server's relay, the data channel, a batch of one file over it, and its  *)
(* end.  A tab has one WebRTCManager, one progress bar and one set of      *)
(* handlers, and the events and continuations of an earlier connection     *)
(* find those of the present one there.                                    *)
(*                                                                         *)
(* What happens within a transfer is module BatchTransfer.                 *)
(***************************************************************************)
EXTENDS Naturals, Sequences

CONSTANTS
    Tab,                    \* two browser tabs
    First,                  \* the one that creates the first room
    NoPC,                   \* null
    MaxRooms                \* bound of the model: rooms entered

ASSUME ConnectionAssumption ==
    /\ First \in Tab
    /\ \E t \in Tab : t # First /\ Tab = {t, First}
    /\ MaxRooms \in Nat

(* In the n-th room the tab that created it makes the connection           *)
(* <<n, "sender">>, the one that joined <<n, "receiver">>.                 *)
PC == (1..MaxRooms) \X {"sender", "receiver"}

ASSUME NullAssumption == NoPC \notin PC

VARIABLES
    \* the server
    creator,            \* of each room so far
    room,               \* the room both sessions are in, 0 for none
    confirm,            \* room-joined has not been sent yet
    inbox,              \* signaling messages on their way to each tab
    \* each tab
    rtc, dataChannel, isSender,
    shown,              \* progress of "send" or "receive", or "none"
    transferSuccessful,
    hashing,            \* the batches sendNextFile awaits the hash for
    sending,            \* running send loops: batch, and channel it goes over
    fileSender,         \* the one in fileSender
    timers,             \* closing timers, by the batch that started them
    \* the connections
    remote,             \* whose description has been set
    end,                \* state of the tab's end of the data channel
    wire,               \* messages on their way to it
    \* history
    free,               \* rooms whose joiner had no connection
    leaky,              \* tabs that dropped a connection without closing it
    clean,              \* connections made by an idle tab that has not kept
                        \* them into another room
    disturbed           \* connections closed or fed by what was not theirs

serverVars == <<creator, room, confirm, inbox>>
managerVars == <<rtc, dataChannel, isSender>>
transferVars == <<shown, transferSuccessful, hashing, sending, fileSender, timers>>
pcVars == <<remote, end, wire>>
historyVars == <<free, leaky, clean, disturbed>>
vars == <<serverVars, managerVars, transferVars, pcVars, historyVars>>

-----------------------------------------------------------------------------
Other(t) == CHOOSE u \in Tab : u # t
Now == Len(creator)
TabOf(p) == IF p[2] = "sender" THEN creator[p[1]] ELSE Other(creator[p[1]])
Held(t) == {rtc[t], dataChannel[t]} \ {NoPC}
NoLoop == <<NoPC, NoPC>>
Msg(type, p) == [type |-> type, pc |-> p]
Underway(t) == shown[t] # "none"

(* A signaling message of tab t is taken from its inbox; what it sends     *)
(* itself the server relays to the other member of the room, if any.       *)
Answering(t, msgs) ==
    inbox' = [inbox EXCEPT ![t] = Tail(@),
                           ![Other(t)] = IF room = 0 THEN @ ELSE @ \o msgs]

Gets(t, type) == inbox[t] # <<>> /\ Head(inbox[t]).type = type

(* Peers that have each other's description and have not closed.           *)
Linked(p) ==
    /\ remote[p] # NoPC /\ remote[remote[p]] = p
    /\ end[remote[p]] \in {"connecting", "waiting", "open"}

(* sendMetadata and send on a channel, which does nothing unless it is     *)
(* open; "on" is what is on the wires before.                              *)
Transmit(on, ch, msgs) ==
    IF ch # NoPC /\ end[ch] = "open" /\ Linked(ch)
    THEN [on EXCEPT ![remote[ch]] = @ \o msgs]
    ELSE on

-----------------------------------------------------------------------------
Close_ReferencesOnly(t, causes, on) ==  \* mutant: forgotten, and not closed
    /\ wire' = on
    /\ UNCHANGED end
    /\ rtc' = [rtc EXCEPT ![t] = NoPC]
    /\ dataChannel' = [dataChannel EXCEPT ![t] = NoPC]
    /\ disturbed' = disturbed \cup (Held(t) \ causes)

(* close(), with "on" on the wires, on account of connections "causes":    *)
(* held ones, or one whose end has just closed.  The close event of an own *)
(* end is an event of its own where it may find a transfer to cancel.      *)
Close(t, causes, on) ==
    /\ wire' = [p \in PC |-> IF p \in Held(t) \cup causes THEN <<>> ELSE on[p]]
    /\ end' = [p \in PC |->
                  IF p \in Held(t) \ causes /\ end[p] = "open" THEN "closing"
                  ELSE IF p \in Held(t) \cup causes THEN "closed" ELSE end[p]]
    /\ rtc' = [rtc EXCEPT ![t] = NoPC]
    /\ dataChannel' = [dataChannel EXCEPT ![t] = NoPC]
    /\ disturbed' = disturbed \cup (Held(t) \ causes)

(* cancelTransfer: signaling.disconnect() makes the server end the room.   *)
CancelTransfer(t, causes, on) ==
    /\ sending' = [sending EXCEPT ![t] = @ \ {fileSender[t]}]
    /\ fileSender' = [fileSender EXCEPT ![t] = NoLoop]
    /\ Close(t, causes, on)
    /\ room' = 0
    /\ inbox' = [inbox EXCEPT ![t] = <<>>]
    /\ shown' = [shown EXCEPT ![t] = "none"]
    /\ UNCHANGED <<creator, confirm, isSender, transferSuccessful, hashing,
                   timers, remote, free, leaky, clean>>

-----------------------------------------------------------------------------
(* The server and its users.                                               *)

(* Tab c creates a room and the other one joins it.  People take seconds   *)
(* for that: by then messages and events of an earlier room are through,   *)
(* and nobody sees a progress bar.                                         *)
Meet(c) ==
    /\ room = 0 /\ Now < MaxRooms /\ ~confirm
    /\ Now = 0 => c = First
    /\ \A t \in Tab : inbox[t] = <<>> /\ ~Underway(t)
    /\ \A p \in PC : end[p] # "closing"
    /\ creator' = Append(creator, c)
    /\ room' = Now + 1
    /\ inbox' = [inbox EXCEPT ![c] = <<Msg("peer-joined", <<Now + 1, "sender">>)>>]
    /\ confirm' = TRUE
    /\ free' = IF rtc[Other(c)] = NoPC THEN free \cup {Now + 1} ELSE free
    /\ clean' = clean \ UNION {Held(t) : t \in Tab}
    /\ UNCHANGED <<managerVars, transferVars, pcVars, leaky, disturbed>>

(* handleJoinRoom goes on; an offer may have been relayed meanwhile.       *)
RoomJoined ==
    /\ confirm
    /\ confirm' = FALSE
    /\ inbox' = [inbox EXCEPT ![Other(creator[Now])] =
                     Append(@, Msg("room-joined", NoPC))]
    /\ UNCHANGED <<creator, room, managerVars, transferVars, pcVars, historyVars>>

(* The room expires, or a socket is lost with the messages on it.          *)
RoomEnds(lost) ==
    /\ room # 0
    /\ room' = 0
    /\ confirm' = (confirm /\ Other(creator[Now]) \notin lost)
    /\ inbox' = [t \in Tab |-> IF t \in lost THEN <<>> ELSE inbox[t]]
    /\ UNCHANGED <<creator, managerVars, transferVars, pcVars, historyVars>>

(* A tab is reloaded.                                                      *)
Reload(t) ==
    /\ room' = 0
    /\ confirm' = (confirm /\ t # Other(creator[Now]))
    /\ inbox' = [inbox EXCEPT ![t] = <<>>]
    /\ rtc' = [rtc EXCEPT ![t] = NoPC]
    /\ dataChannel' = [dataChannel EXCEPT ![t] = NoPC]
    /\ isSender' = [isSender EXCEPT ![t] = FALSE]
    /\ shown' = [shown EXCEPT ![t] = "none"]
    /\ transferSuccessful' = [transferSuccessful EXCEPT ![t] = FALSE]
    /\ hashing' = [hashing EXCEPT ![t] = {}]
    /\ sending' = [sending EXCEPT ![t] = {}]
    /\ fileSender' = [fileSender EXCEPT ![t] = NoLoop]
    /\ timers' = [timers EXCEPT ![t] = <<>>]
    /\ end' = [p \in PC |-> IF end[p] # "none" /\ TabOf(p) = t THEN "closed"
                            ELSE end[p]]
    /\ wire' = [p \in PC |-> IF end[p] # "none" /\ TabOf(p) = t THEN <<>> ELSE wire[p]]
    /\ leaky' = leaky \ {t}
    /\ UNCHANGED <<creator, remote, free, clean, disturbed>>

(* Back or the logo hides the progress; Cancel ends the transfer.          *)
Back(t) ==
    /\ Underway(t)
    /\ shown' = [shown EXCEPT ![t] = "none"]
    /\ UNCHANGED <<serverVars, managerVars, transferSuccessful, hashing, sending,
                   fileSender, timers, pcVars, historyVars>>

CancelClick(t) ==
    /\ Underway(t)
    /\ CancelTransfer(t, Held(t),
           Transmit(wire, dataChannel[t], <<Msg("transfer-cancelled", NoPC)>>))

-----------------------------------------------------------------------------
(* Negotiation.                                                            *)

(* History: nothing of an earlier connection is outstanding in tab t, no   *)
(* hash, closing timer or close event, and none was dropped unclosed.      *)
Idle(t) ==
    /\ rtc[t] = NoPC /\ hashing[t] = {} /\ timers[t] = <<>> /\ t \notin leaky
    /\ \A p \in PC : end[p] = "closing" => TabOf(p) # t

Initialize_KeepRole(t, p) ==    \* mutant: isSender is only ever set
    /\ isSender' = [isSender EXCEPT ![t] = @ \/ p[2] = "sender"]
    /\ rtc' = [rtc EXCEPT ![t] = p]
    /\ IF p[2] = "sender"
       THEN /\ dataChannel' = [dataChannel EXCEPT ![t] = p]
            /\ end' = [end EXCEPT ![p] = "connecting"]
       ELSE /\ end' = [end EXCEPT ![p] = "waiting"]
            /\ UNCHANGED dataChannel
    /\ leaky' = IF rtc[t] = NoPC THEN leaky ELSE leaky \cup {t}
    /\ clean' = IF Idle(t) THEN clean \cup {p} ELSE clean

(* initialize(isSender): a connection the tab has is not closed.           *)
Initialize(t, p) ==
    /\ isSender' = [isSender EXCEPT ![t] = p[2] = "sender"]
    /\ rtc' = [rtc EXCEPT ![t] = p]
    /\ IF p[2] = "sender"
       THEN /\ dataChannel' = [dataChannel EXCEPT ![t] = p]
            /\ end' = [end EXCEPT ![p] = "connecting"]
       ELSE /\ end' = [end EXCEPT ![p] = "waiting"]
            /\ UNCHANGED dataChannel
    /\ leaky' = IF rtc[t] = NoPC THEN leaky ELSE leaky \cup {t}
    /\ clean' = IF Idle(t) THEN clean \cup {p} ELSE clean

OnPeerJoined(t) ==
    /\ Gets(t, "peer-joined")
    /\ Initialize(t, Head(inbox[t]).pc)
    /\ Answering(t, <<Msg("offer", Head(inbox[t]).pc)>>)
    /\ UNCHANGED <<creator, room, confirm, transferVars, remote, wire, free,
                   disturbed>>

OnRoomJoined(t) ==
    /\ Gets(t, "room-joined")
    /\ Answering(t, <<>>)
    /\ UNCHANGED <<creator, room, confirm, managerVars, transferVars, pcVars,
                   historyVars>>

HandleOffer_AfterJoin(t) ==     \* mutant: no offer before room-joined
    /\ Gets(t, "offer")
    /\ LET p == Head(inbox[t]).pc
           q == <<p[1], "receiver">>
       IN  IF rtc[t] = NoPC /\ ~confirm
           THEN /\ Initialize(t, q)
                /\ remote' = [remote EXCEPT ![q] = p]
                /\ Answering(t, <<Msg("answer", q)>>)
           ELSE /\ Answering(t, <<>>)
                /\ UNCHANGED <<managerVars, remote, end, leaky, clean>>
    /\ UNCHANGED <<creator, room, confirm, transferVars, wire, free, disturbed>>

(* A connection the tab still has is used for the offer, whatever it was   *)
(* for, and may take it unless it is established with somebody else.       *)
HandleOffer(t) ==
    /\ Gets(t, "offer")
    /\ LET p == Head(inbox[t]).pc
           q == <<p[1], "receiver">>
       IN  \/ /\ rtc[t] = NoPC
              /\ Initialize(t, q)
              /\ remote' = [remote EXCEPT ![q] = p]
              /\ Answering(t, <<Msg("answer", q)>>)
              /\ UNCHANGED wire
           \/ /\ rtc[t] # NoPC /\ end[rtc[t]] \in {"connecting", "waiting"}
              /\ remote' = [remote EXCEPT ![rtc[t]] = p]
              /\ wire' = [wire EXCEPT ![rtc[t]] = <<>>]
              /\ Answering(t, <<Msg("answer", rtc[t])>>)
              /\ UNCHANGED <<managerVars, end, leaky, clean>>
           \/ /\ rtc[t] # NoPC
              /\ Answering(t, <<>>)
              /\ UNCHANGED <<managerVars, pcVars, leaky, clean>>
    /\ UNCHANGED <<creator, room, confirm, transferVars, free, disturbed>>

(* An answer is refused by a connection that has one.                      *)
HandleAnswer(t) ==
    /\ Gets(t, "answer")
    /\ remote' = IF rtc[t] # NoPC /\ remote[rtc[t]] = NoPC
                 THEN [remote EXCEPT ![rtc[t]] = Head(inbox[t]).pc]
                 ELSE remote
    /\ Answering(t, <<>>)
    /\ UNCHANGED <<creator, room, confirm, managerVars, transferVars, end, wire,
                   historyVars>>

-----------------------------------------------------------------------------
(* The data channel.                                                       *)
(* startBatchSend, because connection p has opened: batches are named      *)
(* after the connection held then, or after p when the tab holds none.     *)
StartBatchSend(t, p, ends) ==
    LET ch == dataChannel'[t]
        batch == IF ch = NoPC THEN p ELSE ch
    IN  /\ transferSuccessful' = [transferSuccessful EXCEPT ![t] = FALSE]
        /\ shown' = [shown EXCEPT ![t] = "send"]
        /\ hashing' = [hashing EXCEPT ![t] = @ \cup {batch}]
        /\ wire' = IF ch # NoPC /\ ends[ch] = "open"
                   THEN [wire EXCEPT ![remote[ch]] = Append(@, Msg("batch-start", ch))]
                   ELSE wire

(* onopen; a receiver gets its channel with it.  What the handler does     *)
(* depends on the role of the tab, not on the channel.                     *)
OnDataChannelOpen(p) ==
    /\ Linked(p)
    /\ end[p] \in {"connecting", "waiting"}
    /\ end' = [end EXCEPT ![p] = "open"]
    /\ dataChannel' = IF end[p] = "waiting"
                      THEN [dataChannel EXCEPT ![TabOf(p)] = p] ELSE dataChannel
    /\ IF isSender[TabOf(p)]
       THEN StartBatchSend(TabOf(p), p, end')
       ELSE UNCHANGED <<shown, transferSuccessful, hashing, wire>>
    /\ UNCHANGED <<serverVars, rtc, isSender, sending, fileSender, timers, remote,
                   historyVars>>

(* onclose: the peer has closed, or the connection is broken, or the tab   *)
(* itself has closed its end.                                              *)
OnDataChannelClose(p) ==
    /\ end[p] \in {"open", "closing"}
    /\ LET t == TabOf(p)
       IN  IF Underway(t) /\ ~transferSuccessful[t]
           THEN CancelTransfer(t, {p}, wire)
           ELSE /\ end' = [end EXCEPT ![p] = "closed"]
                /\ wire' = [wire EXCEPT ![p] = <<>>]
                /\ UNCHANGED <<serverVars, managerVars, transferVars, remote,
                               historyVars>>

HashDone_NoChannel(t, b) ==     \* mutant: a FileSender without a channel
    /\ b \in hashing[t]
    /\ hashing' = [hashing EXCEPT ![t] = @ \ {b}]
    /\ fileSender' = [fileSender EXCEPT ![t] = <<b, dataChannel[t]>>]
    /\ sending' = [sending EXCEPT ![t] = @ \cup {<<b, dataChannel[t]>>}]
    /\ UNCHANGED <<serverVars, managerVars, shown, transferSuccessful, timers,
                   pcVars, historyVars>>

(* sendNextFile after the await.  Without a channel it throws.             *)
HashDone(t, b) ==
    /\ b \in hashing[t]
    /\ hashing' = [hashing EXCEPT ![t] = @ \ {b}]
    /\ IF dataChannel[t] = NoPC
       THEN UNCHANGED <<sending, fileSender>>
       ELSE /\ fileSender' = [fileSender EXCEPT ![t] = <<b, dataChannel[t]>>]
            /\ sending' = [sending EXCEPT ![t] = @ \cup {<<b, dataChannel[t]>>}]
    /\ UNCHANGED <<serverVars, managerVars, shown, transferSuccessful, timers,
                   pcVars, historyVars>>

(* A send loop ends: the file is on its channel, and the batch complete.   *)
SendLoopEnds(t, loop) ==
    /\ loop \in sending[t]
    /\ sending' = [sending EXCEPT ![t] = @ \ {loop}]
    /\ IF end[loop[2]] = "open"
       THEN /\ wire' = Transmit(Transmit(wire, loop[2], <<Msg("file", loop[1])>>),
                               dataChannel[t], <<Msg("batch-complete", NoPC)>>)
            /\ shown' = [shown EXCEPT ![t] = "none"]
            /\ transferSuccessful' = [transferSuccessful EXCEPT ![t] = TRUE]
            /\ timers' = [timers EXCEPT ![t] = Append(@, loop[1])]
       ELSE UNCHANGED <<wire, shown, transferSuccessful, timers>>
    /\ UNCHANGED <<serverVars, managerVars, hashing, fileSender, remote, end,
                   historyVars>>

(* The timer closes the connection the tab has by now.                     *)
CloseTimer(t) ==
    /\ timers[t] # <<>>
    /\ timers' = [timers EXCEPT ![t] = Tail(@)]
    /\ Close(t, {Head(timers[t])} \cap Held(t), wire)
    /\ UNCHANGED <<serverVars, isSender, shown, transferSuccessful, hashing,
                   sending, fileSender, remote, free, leaky, clean>>

-----------------------------------------------------------------------------
(* A message reaches the end p; onMessage and onBinaryMessage.             *)
Arrives(p, type) ==
    /\ end[p] = "open" /\ wire[p] # <<>>
    /\ Head(wire[p]).type = type

Rest(p) == [wire EXCEPT ![p] = Tail(@)]

HandleBatchStart(p) ==
    /\ Arrives(p, "batch-start")
    /\ wire' = Rest(p)
    /\ transferSuccessful' = [transferSuccessful EXCEPT ![TabOf(p)] = FALSE]
    /\ shown' = [shown EXCEPT ![TabOf(p)] = "receive"]
    /\ UNCHANGED <<serverVars, managerVars, hashing, sending, fileSender, timers,
                   remote, end, historyVars>>

HandleFile(p) ==
    /\ Arrives(p, "file")
    /\ wire' = Rest(p)
    /\ disturbed' = IF Head(wire[p]).pc = remote[p] THEN disturbed
                    ELSE disturbed \cup {remote[p]}
    /\ UNCHANGED <<serverVars, managerVars, transferVars, remote, end, free, leaky,
                   clean>>

HandleBatchComplete(p) ==
    /\ Arrives(p, "batch-complete")
    /\ transferSuccessful' = [transferSuccessful EXCEPT ![TabOf(p)] = TRUE]
    /\ shown' = [shown EXCEPT ![TabOf(p)] = "none"]
    /\ Close(TabOf(p), {p} \cap Held(TabOf(p)), Rest(p))
    /\ UNCHANGED <<serverVars, isSender, hashing, sending, fileSender, timers,
                   remote, free, leaky, clean>>

HandleTransferCancelled(p) ==
    /\ Arrives(p, "transfer-cancelled")
    /\ CancelTransfer(TabOf(p), {p} \cap Held(TabOf(p)), Rest(p))

-----------------------------------------------------------------------------
Init ==
    /\ creator = <<>> /\ room = 0 /\ confirm = FALSE
    /\ inbox = [t \in Tab |-> <<>>]
    /\ rtc = [t \in Tab |-> NoPC]
    /\ dataChannel = [t \in Tab |-> NoPC]
    /\ isSender = [t \in Tab |-> FALSE]
    /\ shown = [t \in Tab |-> "none"]
    /\ transferSuccessful = [t \in Tab |-> FALSE]
    /\ hashing = [t \in Tab |-> {}]
    /\ sending = [t \in Tab |-> {}]
    /\ fileSender = [t \in Tab |-> NoLoop]
    /\ timers = [t \in Tab |-> <<>>]
    /\ remote = [p \in PC |-> NoPC]
    /\ end = [p \in PC |-> "none"]
    /\ wire = [p \in PC |-> <<>>]
    /\ free = {} /\ leaky = {} /\ clean = {} /\ disturbed = {}

Signaling(t) ==
    OnPeerJoined(t) \/ OnRoomJoined(t) \/ HandleOffer(t) \/ HandleAnswer(t)

Messages(p) ==
    HandleBatchStart(p) \/ HandleFile(p) \/ HandleBatchComplete(p)
    \/ HandleTransferCancelled(p)

Users(t) == Meet(t) \/ Back(t) \/ CancelClick(t) \/ (Now > 0 /\ Reload(t))

Next ==
    \/ RoomJoined \/ \E lost \in SUBSET Tab : RoomEnds(lost)
    \/ \E t \in Tab :
          \/ Users(t) \/ Signaling(t) \/ CloseTimer(t)
          \/ \E b \in hashing[t] : HashDone(t, b)
          \/ \E loop \in sending[t] : SendLoopEnds(t, loop)
    \/ \E p \in PC : OnDataChannelOpen(p) \/ OnDataChannelClose(p) \/ Messages(p)

Spec == Init /\ [][Next]_vars

(* The server finishes its handlers, signaling messages arrive, and peers  *)
(* that have each other's description get a channel.                       *)
Fairness ==
    /\ WF_vars(RoomJoined)
    /\ \A t \in Tab : WF_vars(Signaling(t))
    /\ \A p \in PC : WF_vars(OnDataChannelOpen(p))

FairSpec == Spec /\ Fairness

-----------------------------------------------------------------------------
TypeOK ==
    /\ creator \in Seq(Tab) /\ room \in 0..MaxRooms /\ confirm \in BOOLEAN
    /\ inbox \in [Tab -> Seq([type : {"peer-joined", "room-joined", "offer",
                                      "answer"}, pc : PC \cup {NoPC}])]
    /\ rtc \in [Tab -> PC \cup {NoPC}] /\ dataChannel \in [Tab -> PC \cup {NoPC}]
    /\ isSender \in [Tab -> BOOLEAN] /\ transferSuccessful \in [Tab -> BOOLEAN]
    /\ shown \in [Tab -> {"none", "send", "receive"}]
    /\ hashing \in [Tab -> SUBSET PC] /\ timers \in [Tab -> Seq(PC)]
    /\ sending \in [Tab -> SUBSET (PC \X PC)]
    /\ fileSender \in [Tab -> (PC \X PC) \cup {NoLoop}]
    /\ remote \in [PC -> PC \cup {NoPC}]
    /\ wire \in [PC -> Seq([type : {"batch-start", "file", "batch-complete",
                                    "transfer-cancelled"}, pc : PC \cup {NoPC}])]
    /\ end \in [PC -> {"none", "connecting", "waiting", "open", "closing", "closed"}]
    /\ free \subseteq 1..MaxRooms /\ leaky \subseteq Tab
    /\ clean \subseteq PC /\ disturbed \subseteq PC

(* One manager and one set of handlers serve every connection of a tab.    *)
(* Still, a connection made by a tab that is idle is closed by its own     *)
(* events alone and carries its own batch alone, however late those of     *)
(* earlier connections come, until a room is entered with it still there.  *)
IdleStartsClean == clean \cap disturbed = {}

(* Such a connection, while it is the tab's own, sends from the tab that   *)
(* created the room, never from the one that joined, whatever the tabs     *)
(* were in earlier rooms.                                                  *)
SendersSend ==
    \A t \in Tab : dataChannel[t] \in clean /\ rtc[t] = dataChannel[t] =>
        /\ isSender[t] <=> t = creator[dataChannel[t][1]]
        /\ hashing[t] # {} => isSender[t]

(* Two tabs that share a room get a data channel, although the offer may   *)
(* come before room-joined and although the creator may still have an old  *)
(* connection: unless the joiner has one, the room ends first, or          *)
(* something of an earlier connection closes the new one.                  *)
Connects ==
    \A n \in 1..MaxRooms :
        LET ends == {<<n, "sender">>, <<n, "receiver">>}
            sharing == room = n /\ n \in free
        IN  (sharing /\ \A p \in ends : end[p] \notin {"open", "closing", "closed"})
                ~> (~sharing \/ \E p \in ends : end[p] = "open" \/ p \in disturbed)
=============================================================================
