----------------------- MODULE PeerConnections_proofs -----------------------
(***************************************************************************)
(* Proofs about PeerConnections, for any number of rooms the two tabs meet *)
(* in: types, that a connection of an idle tab is disturbed by none of the *)
(* earlier ones, and that it sends from the tab that created the room.     *)
(***************************************************************************)
EXTENDS PeerConnections, SequenceTheorems, TLAPS

-----------------------------------------------------------------------------
(* The inductive invariant.                                                *)

(* The ends of the present room's connection, and its messages.            *)
Sender == <<Now, "sender">>
Receiver == <<Now, "receiver">>
PeerJoined == Msg("peer-joined", Sender)
Offer == Msg("offer", Sender)
Joined == Msg("room-joined", NoPC)
WithOffer == {<<Offer>>, <<Offer, Joined>>, <<Joined, Offer>>}

(* Only the messages of the present room are under way, each at most once. *)
Mail ==
    /\ Now = 0 => ~confirm /\ \A t \in Tab : inbox[t] = <<>>
    /\ Now # 0 =>
        LET c == creator[Now]
            o == Other(c)
        IN  /\ \/ inbox[c] = <<>>
               \/ inbox[c] = <<PeerJoined>> /\ end[Sender] = "none" /\ end[Receiver] = "none"
               \/ \E p \in PC : inbox[c] = <<Msg("answer", p)>> /\ end[p] # "none"
            /\ \/ inbox[o] \in {<<>>, <<Joined>>}
               \/ /\ inbox[o] \in WithOffer /\ inbox[c] = <<>>
                  /\ end[Sender] # "none" /\ end[Receiver] = "none"
            /\ confirm => inbox[o] \in {<<>>, <<Offer>>}

Known ==
    /\ room <= Now /\ Now <= MaxRooms
    /\ \A p \in PC : end[p] # "none" => p[1] <= Now

(* Nothing refers to a connection that has not been made.                  *)
Fresh == \A p \in PC : end[p] = "none" =>
    /\ p \notin clean /\ p \notin disturbed /\ remote[p] = NoPC
    /\ \A q \in PC : remote[q] # p
    /\ \A t \in Tab : p \notin Held(t) /\ \A loop \in sending[t] : loop[2] # p

Own == \A t \in Tab :
    /\ \A p \in Held(t) : TabOf(p) = t
    /\ \A loop \in sending[t] : TabOf(loop[2]) = t
    /\ rtc[t] # NoPC => (isSender[t] <=> rtc[t][2] = "sender")

Opened == \A p \in PC : end[p] = "open" => remote[p] # NoPC

(* A tab that has dropped none holds all it has not closed.                *)
Tight == \A t \in Tab : t \notin leaky =>
    /\ dataChannel[t] \in {NoPC, rtc[t]}
    /\ \A p \in PC : end[p] \in {"connecting", "waiting", "open"} /\ TabOf(p) = t
           => rtc[t] = p

Loops == \A t \in Tab : \A loop \in sending[t] : loop[2] \in clean => loop[1] = loop[2]

Alive == \A p \in clean : end[p] \in {"closing", "closed"} \/ rtc[TabOf(p)] = p

(* A clean connection that a tab holds is all the tab has.                 *)
Alone == \A t \in Tab : \A p \in clean \cap Held(t) :
    /\ p[1] = Now /\ rtc[t] = p /\ dataChannel[t] \in {NoPC, p}
    /\ \A q \in PC : end[q] \notin {"none", "closed"} /\ TabOf(q) = t => q = p
    /\ hashing[t] \subseteq {p} /\ (hashing[t] # {} => isSender[t])
    /\ \A i \in 1..Len(timers[t]) : timers[t][i] = p

(* A file on the way to the peer of a clean connection is of its batch.    *)
FilesOn(on) == \A p \in PC : \A i \in 1..Len(on[p]) : on[p][i].type = "file" =>
    /\ remote[p] # NoPC
    /\ remote[p] \in clean => on[p][i].pc = remote[p]

Files == FilesOn(wire)

Core ==
    /\ Known /\ Fresh /\ Own /\ Opened /\ Tight /\ Loops /\ Alive /\ Alone
    /\ Files /\ IdleStartsClean

Inv == TypeOK /\ Mail /\ Core

-----------------------------------------------------------------------------
Letter == [type : {"peer-joined", "room-joined", "offer", "answer"}, pc : PC \cup {NoPC}]
Message == [type : {"batch-start", "file", "batch-complete", "transfer-cancelled"},
            pc : PC \cup {NoPC}]

LEMMA TabFacts ==
    /\ \E t \in Tab : TRUE
    /\ \A t \in Tab : Other(t) \in Tab /\ Other(t) # t
    /\ \A t, u \in Tab : u # t => u = Other(t)
<1>1. PICK a \in Tab : a # First /\ Tab = {a, First}
  BY ConnectionAssumption
<1>2. \A t \in Tab : \E u \in Tab : u # t
  BY <1>1
<1>3. \A t \in Tab : Other(t) \in Tab /\ Other(t) # t
  BY <1>2 DEF Other
<1> QED BY <1>1, <1>3

LEMMA PairFacts ==
    /\ MaxRooms \in Nat /\ NoPC \notin PC
    /\ \A p \in PC : /\ p[1] \in 1..MaxRooms /\ p[1] \in Nat /\ p[1] # 0
                     /\ p[2] \in {"sender", "receiver"} /\ p = <<p[1], p[2]>>
    /\ \A n \in 1..MaxRooms : /\ <<n, "sender">> \in PC /\ <<n, "receiver">> \in PC
                              /\ <<n, "sender">>[1] = n /\ <<n, "receiver">>[1] = n
                              /\ <<n, "sender">>[2] = "sender"
                              /\ <<n, "receiver">>[2] = "receiver"
BY ConnectionAssumption, NullAssumption DEF PC

LEMMA HeldFacts ==
    ASSUME TypeOK, NEW t \in Tab
    PROVE  Held(t) \subseteq PC
BY DEF Held, TypeOK

LEMMA OwnTab ==
    ASSUME TypeOK, NEW p \in PC, p[1] <= Now
    PROVE  TabOf(p) \in Tab /\ creator[p[1]] \in Tab
<1>1. creator \in Seq(Tab) /\ p[1] \in Nat /\ p[1] # 0 /\ Len(creator) \in Nat
  BY PairFacts DEF TypeOK
<1>2. creator[p[1]] \in Tab
  BY <1>1 DEF Now
<1> QED BY <1>2, TabFacts DEF TabOf

LEMMA NowFacts ==
    ASSUME TypeOK, Known
    PROVE  /\ Now \in Nat /\ Now \in 0..MaxRooms
           /\ Now # 0 => /\ Sender \in PC /\ Receiver \in PC /\ creator[Now] \in Tab
                         /\ Sender[1] = Now /\ Receiver[1] = Now
                         /\ Sender[2] = "sender" /\ Receiver[2] = "receiver"
                         /\ TabOf(Sender) = creator[Now]
                         /\ TabOf(Receiver) = Other(creator[Now])
                         /\ Sender # Receiver
<1>1. Now \in Nat /\ Now \in 0..MaxRooms
  BY PairFacts DEF TypeOK, Known, Now
<1>2. ASSUME Now # 0 PROVE Now \in 1..MaxRooms /\ creator[Now] \in Tab
  BY <1>1, <1>2 DEF TypeOK, Now
<1> QED BY <1>1, <1>2, PairFacts DEF Sender, Receiver, TabOf

-----------------------------------------------------------------------------
(* Messages on the wires.                                                  *)
Wires == [PC -> Seq(Message)]

LEMMA AppendFiles ==
    ASSUME NEW on \in Wires, NEW q \in PC, NEW m \in Message, FilesOn(on),
           m.type = "file" => /\ remote[q] # NoPC
                              /\ remote[q] \in clean => m.pc = remote[q]
    PROVE  /\ [on EXCEPT ![q] = Append(@, m)] \in Wires
           /\ FilesOn([on EXCEPT ![q] = Append(@, m)])
<1> DEFINE new == [on EXCEPT ![q] = Append(@, m)]
<1>1. on[q] \in Seq(Message) /\ Append(on[q], m) \in Seq(Message)
  BY DEF Wires
<1>2. new \in Wires
  BY <1>1 DEF Wires
<1>3. ASSUME NEW p \in PC, NEW i \in 1..Len(new[p]), new[p][i].type = "file"
      PROVE  /\ remote[p] # NoPC
             /\ remote[p] \in clean => new[p][i].pc = remote[p]
  <2>1. CASE p # q
    BY <1>3, <2>1 DEF FilesOn, Wires
  <2>2. CASE p = q
    <3>1. new[p] = Append(on[q], m)
      BY <2>2 DEF Wires
    <3>2. \/ i \in 1..Len(on[q]) /\ new[p][i] = on[q][i]
          \/ new[p][i] = m
      <4> HIDE DEF new
      <4> QED BY <1>1, <3>1
    <3> QED BY <1>3, <2>2, <3>2 DEF FilesOn
  <2> QED BY <2>1, <2>2
<1> QED BY <1>2, <1>3 DEF FilesOn

LEMMA TransmitFiles ==
    ASSUME TypeOK, NEW on \in Wires, NEW ch \in PC \cup {NoPC}, NEW m \in Message, FilesOn(on),
           m.type = "file" /\ ch \in clean => m.pc = ch
    PROVE  /\ Transmit(on, ch, <<m>>) \in Wires
           /\ FilesOn(Transmit(on, ch, <<m>>))
<1>1. CASE ch # NoPC /\ end[ch] = "open" /\ Linked(ch)
  <2> DEFINE q == remote[ch]
  <2>1. q \in PC /\ remote[q] = ch
    BY <1>1 DEF Linked, TypeOK
  <2>2. on[q] \o <<m>> = Append(on[q], m)
    BY <2>1 DEF Wires
  <2>3. Transmit(on, ch, <<m>>) = [on EXCEPT ![q] = Append(@, m)]
    BY <1>1, <2>2 DEF Transmit
  <2> HIDE DEF q
  <2> QED BY <1>1, <2>1, <2>3, AppendFiles
<1>2. CASE ~(ch # NoPC /\ end[ch] = "open" /\ Linked(ch))
  BY <1>2 DEF Transmit
<1> QED BY <1>1, <1>2

LEMMA RestFiles ==
    ASSUME TypeOK, Files, NEW p \in PC, wire[p] # <<>>
    PROVE  Rest(p) \in Wires /\ FilesOn(Rest(p)) /\ Head(wire[p]) \in Message
<1> DEFINE new == Rest(p)
           s == wire[p]
<1>1. wire \in Wires /\ s \in Seq(Message) /\ s # <<>>
  BY DEF TypeOK, Wires, Message
<1>2. Rest(p) = [wire EXCEPT ![p] = Tail(s)]
  BY <1>1 DEF Rest, Wires
<1> HIDE DEF s
<1>3. /\ Tail(s) \in Seq(Message) /\ Head(s) \in Message
      /\ \A i \in 1..Len(Tail(s)) : i + 1 \in 1..Len(s) /\ Tail(s)[i] = s[i + 1]
  BY <1>1
<1>4. Rest(p) \in Wires
  BY <1>1, <1>2, <1>3 DEF Wires
<1>5. ASSUME NEW q \in PC, NEW i \in 1..Len(new[q]), new[q][i].type = "file"
      PROVE  /\ remote[q] # NoPC
             /\ remote[q] \in clean => new[q][i].pc = remote[q]
  <2>1. CASE q # p
    BY <1>1, <1>2, <1>5, <2>1 DEF Files, FilesOn, Wires
  <2>2. CASE q = p
    <3>1. new[q] = Tail(s)
      BY <1>1, <1>2, <2>2 DEF Wires
    <3>2. i + 1 \in 1..Len(s) /\ new[q][i] = s[i + 1]
      BY <1>3, <1>5, <3>1
    <3>3. i + 1 \in 1..Len(wire[q]) /\ new[q][i] = wire[q][i + 1]
      BY <2>2, <3>2 DEF s
    <3> QED BY <1>5, <3>3 DEF Files, FilesOn
  <2> QED BY <2>1, <2>2
<1> QED BY <1>3, <1>4, <1>5 DEF FilesOn, s

(* Of the ends only whether they exist matters to the messages.            *)
LEMMA MailKept ==
    ASSUME TypeOK, Known, Mail, UNCHANGED creator, confirm' => confirm,
           \A t \in Tab : inbox'[t] = inbox[t] \/ inbox'[t] = <<>>,
           \A p \in PC : end'[p] = "none" <=> end[p] = "none"
    PROVE  Mail'
<1> DEFINE c == creator[Now]
           o == Other(c)
<1>1. Now' = Now /\ creator' = creator /\ Sender' = Sender /\ Receiver' = Receiver
      /\ PeerJoined' = PeerJoined /\ Offer' = Offer /\ Joined' = Joined /\ WithOffer' = WithOffer
  BY DEF Now, Sender, Receiver, PeerJoined, Offer, Joined, WithOffer, Msg
<1>2. CASE Now = 0
  BY <1>1, <1>2 DEF Mail
<1>3. CASE Now # 0
  <2>1. c \in Tab /\ o \in Tab /\ Sender \in PC /\ Receiver \in PC
    BY <1>3, NowFacts, TabFacts
  <2>2. c' = c /\ o' = o
    BY <1>1 DEF Other
  <2>3. inbox'[c] = inbox[c] \/ inbox'[c] = <<>>
    BY <2>1
  <2>4. inbox'[o] = inbox[o] \/ inbox'[o] = <<>>
    BY <2>1
  <2>5. /\ \/ inbox[c] = <<>>
           \/ inbox[c] = <<PeerJoined>> /\ end[Sender] = "none" /\ end[Receiver] = "none"
           \/ \E p \in PC : inbox[c] = <<Msg("answer", p)>> /\ end[p] # "none"
        /\ \/ inbox[o] \in {<<>>, <<Joined>>}
           \/ /\ inbox[o] \in WithOffer /\ inbox[c] = <<>>
              /\ end[Sender] # "none" /\ end[Receiver] = "none"
        /\ confirm => inbox[o] \in {<<>>, <<Offer>>}
    BY <1>3 DEF Mail
  <2>6. /\ \/ inbox'[c] = <<>>
           \/ inbox'[c] = <<PeerJoined>> /\ end'[Sender] = "none" /\ end'[Receiver] = "none"
           \/ \E p \in PC : inbox'[c] = <<Msg("answer", p)>> /\ end'[p] # "none"
        /\ \/ inbox'[o] \in {<<>>, <<Joined>>}
           \/ /\ inbox'[o] \in WithOffer /\ inbox'[c] = <<>>
              /\ end'[Sender] # "none" /\ end'[Receiver] = "none"
        /\ confirm' => inbox'[o] \in {<<>>, <<Offer>>}
    <3> HIDE DEF c, o
    <3> QED BY <2>1, <2>3, <2>4, <2>5
  <2> QED BY <1>1, <1>3, <2>2, <2>6 DEF Mail, Msg
<1> QED BY <1>2, <1>3

LEMMA SameTab ==
    ASSUME UNCHANGED creator
    PROVE  Now' = Now /\ \A p : TabOf(p)' = TabOf(p)
BY DEF Now, TabOf, Other

-----------------------------------------------------------------------------
(* What close() does, for every step that calls it.                        *)
LEMMA CloseFields ==
    ASSUME TypeOK, NEW t \in Tab, NEW causes \in SUBSET PC, NEW on \in Wires,
           Fresh, \A p \in causes : end[p] # "none", Close(t, causes, on)
    PROVE  /\ rtc'[t] = NoPC /\ dataChannel'[t] = NoPC
           /\ \A u \in Tab \ {t} : rtc'[u] = rtc[u] /\ dataChannel'[u] = dataChannel[u]
           /\ rtc' \in [Tab -> PC \cup {NoPC}] /\ dataChannel' \in [Tab -> PC \cup {NoPC}]
           /\ end' \in [PC -> {"none", "connecting", "waiting", "open", "closing", "closed"}]
           /\ \A p \in PC : p \notin Held(t) \cup causes => end'[p] = end[p]
           /\ \A p \in Held(t) \cup causes : end'[p] \in {"closing", "closed"}
           /\ \A p \in PC : end'[p] = "none" <=> end[p] = "none"
           /\ wire' \in Wires
           /\ disturbed' = disturbed \cup (Held(t) \ causes)
<1>1. Held(t) \subseteq PC
  BY HeldFacts
<1>2. /\ wire' = [p \in PC |-> IF p \in Held(t) \cup causes THEN <<>> ELSE on[p]]
      /\ end' = [p \in PC |->
                    IF p \in Held(t) \ causes /\ end[p] = "open" THEN "closing"
                    ELSE IF p \in Held(t) \cup causes THEN "closed" ELSE end[p]]
      /\ rtc' = [rtc EXCEPT ![t] = NoPC]
      /\ dataChannel' = [dataChannel EXCEPT ![t] = NoPC]
      /\ disturbed' = disturbed \cup (Held(t) \ causes)
  BY DEF Close
<1>3. /\ rtc'[t] = NoPC /\ dataChannel'[t] = NoPC
      /\ \A u \in Tab \ {t} : rtc'[u] = rtc[u] /\ dataChannel'[u] = dataChannel[u]
      /\ rtc' \in [Tab -> PC \cup {NoPC}] /\ dataChannel' \in [Tab -> PC \cup {NoPC}]
  BY <1>2 DEF TypeOK
<1>5. \A p \in Held(t) \cup causes : end[p] # "none"
  BY <1>1 DEF Fresh
<1>6. end \in [PC -> {"none", "connecting", "waiting", "open", "closing", "closed"}]
  BY DEF TypeOK
<1> DEFINE held == Held(t)
<1> HIDE DEF held
<1>7. /\ end' \in [PC -> {"none", "connecting", "waiting", "open", "closing", "closed"}]
      /\ \A p \in PC : p \notin held \cup causes => end'[p] = end[p]
      /\ \A p \in held \cup causes : end'[p] \in {"closing", "closed"}
      /\ \A p \in PC : end'[p] = "none" <=> end[p] = "none"
  BY <1>1, <1>2, <1>5, <1>6 DEF held
<1>8. wire' \in Wires
  <2> DEFINE none == <<>>
  <2>1. none \in Seq(Message)
    OBVIOUS
  <2>2. wire' = [p \in PC |-> IF p \in Held(t) \cup causes THEN none ELSE on[p]]
    BY <1>2
  <2> HIDE DEF none
  <2> QED BY <2>1, <2>2 DEF Wires
<1> QED BY <1>2, <1>3, <1>7, <1>8 DEF held

(* A step that closes what tab t holds, whatever else of the tab it ends,  *)
(* provided that it is on account of the tab's clean connection.           *)
LEMMA ClosingStep ==
    ASSUME Inv, TypeOK', NEW t \in Tab, NEW causes \in SUBSET PC, NEW on \in Wires,
           \A p \in causes : end[p] # "none" /\ TabOf(p) = t,
           FilesOn(on), clean \cap Held(t) \subseteq causes,
           Close(t, causes, on),
           UNCHANGED <<creator, isSender, remote, leaky, clean>>,
           room' <= Now,
           \A u \in Tab : sending'[u] \subseteq sending[u],
           \A u \in Tab \ {t} : hashing'[u] = hashing[u] /\ timers'[u] = timers[u]
    PROVE  Core'
<1>1. TypeOK /\ Core
  BY DEF Inv
<1>2. /\ rtc'[t] = NoPC /\ dataChannel'[t] = NoPC
      /\ \A u \in Tab \ {t} : rtc'[u] = rtc[u] /\ dataChannel'[u] = dataChannel[u]
      /\ \A p \in PC : p \notin Held(t) \cup causes => end'[p] = end[p]
      /\ \A p \in Held(t) \cup causes : end'[p] \in {"closing", "closed"}
      /\ \A p \in PC : end'[p] = "none" <=> end[p] = "none"
      /\ disturbed' = disturbed \cup (Held(t) \ causes)
  <2>1. Fresh /\ \A p \in causes : end[p] # "none"
    BY <1>1 DEF Core
  <2> QED BY <1>1, <2>1, CloseFields
<1>h. (\A u \in Tab \ {t} : Held(u)' = Held(u)) /\ Held(t)' = {}
  BY <1>2 DEF Held
<1>3. Now' = Now /\ \A p : TabOf(p)' = TabOf(p)
  BY SameTab
<1>4. Held(t) \subseteq PC /\ \A p \in Held(t) \cup causes : TabOf(p) = t /\ end[p] # "none"
  BY <1>1, HeldFacts DEF Core, Own, Fresh
<1>5. Known'
  BY <1>1, <1>2, <1>3 DEF Core, Known
<1>6. Fresh'
  <2> SUFFICES ASSUME NEW p \in PC, end[p] = "none"
               PROVE  /\ p \notin clean /\ p \notin disturbed' /\ remote[p] = NoPC
                      /\ \A q \in PC : remote[q] # p
                      /\ \A u \in Tab : p \notin Held(u)' /\ \A loop \in sending'[u] : loop[2] # p
    BY <1>2 DEF Fresh
  <2>1. /\ p \notin clean /\ p \notin disturbed /\ remote[p] = NoPC
        /\ \A q \in PC : remote[q] # p
        /\ \A u \in Tab : p \notin Held(u) /\ \A loop \in sending[u] : loop[2] # p
    BY <1>1 DEF Core, Fresh
  <2> QED BY <1>2, <1>h, <2>1
<1>7. Own'
  <2> SUFFICES ASSUME NEW u \in Tab
               PROVE  /\ \A p \in Held(u)' : TabOf(p) = u
                      /\ \A loop \in sending'[u] : TabOf(loop[2]) = u
                      /\ rtc'[u] # NoPC => (isSender[u] <=> rtc'[u][2] = "sender")
    BY <1>3 DEF Own
  <2> QED BY <1>1, <1>2, <1>h DEF Core, Own
<1>8. Opened'
  <2>1. \A p \in PC : end'[p] = "open" => end[p] = "open"
    BY <1>2
  <2> QED BY <1>1, <2>1 DEF Core, Opened
<1>9. Tight'
  <2> SUFFICES ASSUME NEW u \in Tab, u \notin leaky
               PROVE  /\ dataChannel'[u] \in {NoPC, rtc'[u]}
                      /\ \A p \in PC : end'[p] \in {"connecting", "waiting", "open"} /\ TabOf(p) = u
                             => rtc'[u] = p
    BY <1>3 DEF Tight
  <2>1. dataChannel[u] \in {NoPC, rtc[u]}
    BY <1>1 DEF Core, Tight
  <2>2. ASSUME NEW p \in PC, end'[p] \in {"connecting", "waiting", "open"}, TabOf(p) = u
        PROVE  rtc'[u] = p
    <3>1. p \notin Held(t) \cup causes /\ end'[p] = end[p]
      BY <1>2, <2>2
    <3>2. rtc[u] = p
      BY <1>1, <2>2, <3>1 DEF Core, Tight
    <3>3. u # t
      BY <2>2, <3>1, <3>2, PairFacts DEF Held
    <3> QED BY <1>2, <3>2, <3>3
  <2> QED BY <1>2, <2>1, <2>2
<1>10. Loops'
  BY <1>1 DEF Core, Loops
<1>11. Alive'
  <2> SUFFICES ASSUME NEW p \in clean
               PROVE  end'[p] \in {"closing", "closed"} \/ rtc'[TabOf(p)] = p
    BY <1>3 DEF Alive
  <2>1. p \in PC /\ end[p] # "none" /\ TabOf(p) \in Tab
    BY <1>1, OwnTab DEF Core, Fresh, Known, TypeOK
  <2>2. end[p] \in {"closing", "closed"} \/ rtc[TabOf(p)] = p
    BY <1>1 DEF Core, Alive
  <2>3. CASE p \in Held(t) \cup causes
    BY <1>2, <2>3
  <2>4. CASE p \notin Held(t) \cup causes
    <3>1. end'[p] = end[p]
      BY <1>2, <2>1, <2>4
    <3>2. rtc[TabOf(p)] = p => TabOf(p) # t
      BY <2>1, <2>4, PairFacts DEF Held
    <3> QED BY <1>2, <2>1, <2>2, <3>1, <3>2
  <2> QED BY <2>3, <2>4
<1>12. Alone'
  <2> SUFFICES ASSUME NEW u \in Tab, NEW p \in clean \cap Held(u)'
               PROVE  /\ p[1] = Now /\ rtc'[u] = p /\ dataChannel'[u] \in {NoPC, p}
                      /\ \A q \in PC : end'[q] \notin {"none", "closed"} /\ TabOf(q) = u => q = p
                      /\ hashing'[u] \subseteq {p} /\ (hashing'[u] # {} => isSender[u])
                      /\ \A i \in 1..Len(timers'[u]) : timers'[u][i] = p
    BY <1>3 DEF Alone
  <2>1. u # t /\ p \in clean \cap Held(u)
    BY <1>h
  <2>2. /\ p[1] = Now /\ rtc[u] = p /\ dataChannel[u] \in {NoPC, p}
        /\ \A q \in PC : end[q] \notin {"none", "closed"} /\ TabOf(q) = u => q = p
        /\ hashing[u] \subseteq {p} /\ (hashing[u] # {} => isSender[u])
        /\ \A i \in 1..Len(timers[u]) : timers[u][i] = p
    BY <1>1, <2>1 DEF Core, Alone
  <2>3. \A q \in PC : TabOf(q) = u => end'[q] = end[q]
    BY <1>2, <1>4, <2>1
  <2> QED BY <1>2, <2>1, <2>2, <2>3
<1>13. Files'
  <2>1. \A p \in PC : \A i \in 1..Len(wire'[p]) : wire'[p] = on[p]
    <3> DEFINE none == <<>>
    <3>1. 1..Len(none) = {}
      OBVIOUS
    <3>2. wire' = [p \in PC |-> IF p \in Held(t) \cup causes THEN none ELSE on[p]]
      BY DEF Close
    <3> HIDE DEF none
    <3> QED BY <3>1, <3>2
  <2> QED BY <2>1 DEF Files, FilesOn
<1>14. IdleStartsClean'
  BY <1>1, <1>2 DEF Core, IdleStartsClean
<1> QED BY <1>5, <1>6, <1>7, <1>8, <1>9, <1>10, <1>11, <1>12, <1>13, <1>14 DEF Core

-----------------------------------------------------------------------------
(* Short inboxes.                                                          *)

LEMMA Pairs ==
    ASSUME NEW a, NEW b
    PROVE  /\ Append(<<a>>, b) = <<a, b>> /\ <<a>> \o <<b>> = <<a, b>>
           /\ Tail(<<a, b>>) = <<b>> /\ Head(<<a, b>>) = a
<1> DEFINE S == {a, b}
           p == <<a>>
           r == <<b>>
           d == <<a, b>>
<1>1. /\ p \in Seq(S) /\ Len(p) = 1 /\ p[1] = a
      /\ r \in Seq(S) /\ Len(r) = 1 /\ r[1] = b
      /\ d \in Seq(S) /\ Len(d) = 2 /\ d[1] = a /\ d[2] = b
      /\ a \in S /\ b \in S
  OBVIOUS
<1> HIDE DEF p, r, d, S
<1>2. Append(p, b) = d
  <2>1. /\ Append(p, b) \in Seq(S) /\ Len(Append(p, b)) = Len(d)
        /\ Append(p, b)[1] = a /\ Append(p, b)[2] = b
    <3>1. /\ Append(p, b) \in Seq(S) /\ Len(Append(p, b)) = Len(p) + 1
          /\ \A i \in 1..Len(p) : Append(p, b)[i] = p[i]
          /\ Append(p, b)[Len(p) + 1] = b
      BY <1>1, AppendProperties
    <3> QED BY <1>1, <3>1
  <2>2. \A i \in 1..Len(d) : Append(p, b)[i] = d[i]
    BY <1>1, <2>1
  <2> QED BY <1>1, <2>1, <2>2, SeqEqual
<1>3. p \o r = d
  <2>1. /\ p \o r \in Seq(S) /\ Len(p \o r) = Len(d)
        /\ (p \o r)[1] = a /\ (p \o r)[2] = b
    BY <1>1, ConcatProperties
  <2>2. \A i \in 1..Len(d) : (p \o r)[i] = d[i]
    BY <1>1, <2>1
  <2> QED BY <1>1, <2>1, <2>2, SeqEqual
<1>4. Tail(d) = r
  <2>1. Tail(d) \in Seq(S) /\ Len(Tail(d)) = Len(r)
    BY <1>1
  <2>2. \A i \in 1..Len(r) : Tail(d)[i] = r[i]
    BY <1>1
  <2> QED BY <1>1, <2>1, <2>2, SeqEqual
<1>5. Head(d) = a
  BY <1>1
<1> QED BY <1>2, <1>3, <1>4, <1>5 DEF p, r, d

LEMMA Singles ==
    ASSUME NEW a
    PROVE  /\ Append(<<>>, a) = <<a>> /\ <<>> \o <<a>> = <<a>>
           /\ <<a>> \o <<>> = <<a>>
           /\ Tail(<<a>>) = <<>> /\ Head(<<a>>) = a /\ <<a>> # <<>>
<1> DEFINE S == {a}
           e == <<>>
           p == <<a>>
<1>1. /\ p \in Seq(S) /\ Len(p) = 1 /\ p[1] = a /\ e \in Seq(S) /\ Len(e) = 0 /\ a \in S
  OBVIOUS
<1>2. p # e
  BY <1>1
<1>3. Append(<<>>, a) = <<a>>
  OBVIOUS
<1> HIDE DEF p, e
<1>4. e \o p = p /\ p \o e = p
  <2>1. e \o p \in Seq(S) /\ Len(e \o p) = Len(p) /\ p \o e \in Seq(S) /\ Len(p \o e) = Len(p)
    BY <1>1
  <2>2. \A i \in 1..Len(p) : (e \o p)[i] = p[i] /\ (p \o e)[i] = p[i]
    BY <1>1, SMTT(30)
  <2> HIDE DEF S
  <2> QED BY <1>1, <2>1, <2>2, SeqEqual
<1>5. Tail(p) = e
  <2>1. Tail(p) \in Seq(S) /\ Len(Tail(p)) = 0
    BY <1>1
  <2>2. \A i \in 1..Len(e) : Tail(p)[i] = e[i]
    BY <1>1
  <2> HIDE DEF S
  <2> QED BY <1>1, <2>1, <2>2, SeqEqual
<1>6. Head(p) = a
  BY <1>1
<1> QED BY <1>2, <1>3, <1>4, <1>5, <1>6 DEF p, e

(* What a message in an inbox tells, by its type.                          *)
LEMMA Letters ==
    ASSUME TypeOK, Known, Mail, NEW t \in Tab, inbox[t] # <<>>
    PROVE  /\ Now # 0 /\ Now \in 1..MaxRooms
           /\ \/ /\ Gets(t, "peer-joined") /\ t = creator[Now]
                 /\ inbox[t] = <<PeerJoined>> /\ Head(inbox[t]) = PeerJoined
                 /\ Tail(inbox[t]) = <<>> /\ inbox[Other(t)] \in {<<>>, <<Joined>>}
                 /\ end[Sender] = "none" /\ end[Receiver] = "none"
              \/ /\ Gets(t, "answer") /\ t = creator[Now] /\ Tail(inbox[t]) = <<>>
                 /\ inbox[Other(t)] \in {<<>>, <<Joined>>}
                 /\ \E p \in PC : Head(inbox[t]) = Msg("answer", p) /\ end[p] # "none"
              \/ /\ Gets(t, "offer") /\ t = Other(creator[Now]) /\ Head(inbox[t]) = Offer
                 /\ inbox[creator[Now]] = <<>> /\ Tail(inbox[t]) \in {<<>>, <<Joined>>}
                 /\ Tail(inbox[t]) # <<>> => ~confirm
                 /\ end[Sender] # "none" /\ end[Receiver] = "none"
              \/ /\ Gets(t, "room-joined") /\ t = Other(creator[Now]) /\ ~confirm
                 /\ \/ Tail(inbox[t]) = <<>>
                    \/ /\ Tail(inbox[t]) = <<Offer>> /\ inbox[creator[Now]] = <<>>
                       /\ end[Sender] # "none" /\ end[Receiver] = "none"
<1> DEFINE c == creator[Now]
           o == Other(c)
<1>1. Now # 0 /\ Now \in 1..MaxRooms
  BY NowFacts DEF Mail
<1>2. c \in Tab /\ o \in Tab /\ o # c /\ Other(o) = c /\ (t = c \/ t = o)
  BY <1>1, NowFacts, TabFacts
<1>3. /\ \/ inbox[c] = <<>>
         \/ inbox[c] = <<PeerJoined>> /\ end[Sender] = "none" /\ end[Receiver] = "none"
         \/ \E p \in PC : inbox[c] = <<Msg("answer", p)>> /\ end[p] # "none"
      /\ \/ inbox[o] \in {<<>>, <<Joined>>}
         \/ /\ inbox[o] \in WithOffer /\ inbox[c] = <<>>
            /\ end[Sender] # "none" /\ end[Receiver] = "none"
      /\ confirm => inbox[o] \in {<<>>, <<Offer>>}
  BY <1>1 DEF Mail
<1>4. /\ PeerJoined.type = "peer-joined" /\ Offer.type = "offer" /\ Joined.type = "room-joined"
      /\ \A p : Msg("answer", p).type = "answer"
  BY DEF PeerJoined, Offer, Joined, Msg
<1>5. CASE t = c /\ inbox[c] = <<PeerJoined>> /\ end[Sender] = "none" /\ end[Receiver] = "none"
  <2>1. Head(inbox[t]) = PeerJoined /\ Tail(inbox[t]) = <<>> /\ inbox[t] # <<>>
    BY <1>5, Singles
  <2>2. inbox[o] \in {<<>>, <<Joined>>}
    BY <1>3, <1>5
  <2>3. Gets(t, "peer-joined")
    BY <1>4, <2>1 DEF Gets
  <2> HIDE DEF c, o
  <2> QED BY <1>1, <1>5, <2>1, <2>2, <2>3 DEF c, o
<1>6. CASE t = c /\ \E p \in PC : inbox[c] = <<Msg("answer", p)>> /\ end[p] # "none"
  <2>1. PICK p \in PC : inbox[c] = <<Msg("answer", p)>> /\ end[p] # "none"
    BY <1>6
  <2>2. Head(inbox[t]) = Msg("answer", p) /\ Tail(inbox[t]) = <<>> /\ inbox[t] # <<>>
    BY <1>6, <2>1, Singles
  <2>3. inbox[c] # <<>>
    BY <1>6, <2>2
  <2>4. inbox[o] \in {<<>>, <<Joined>>}
    BY <1>3, <2>3
  <2>5. Gets(t, "answer")
    BY <1>4, <2>2 DEF Gets
  <2> HIDE DEF c, o
  <2> QED BY <1>1, <1>6, <2>1, <2>2, <2>4, <2>5 DEF c, o
<1>7. CASE t = o /\ inbox[o] = <<Joined>>
  <2>1. Head(inbox[t]) = Joined /\ Tail(inbox[t]) = <<>> /\ inbox[t] # <<>>
    BY <1>7, Singles
  <2>2. Gets(t, "room-joined")
    BY <1>4, <2>1 DEF Gets
  <2>3. ~confirm
    <3>1. inbox[o] # <<>> /\ inbox[o] # <<Offer>>
      <4>1. Head(<<Offer>>) = Offer /\ Offer # Joined
        BY <1>4, Singles
      <4> QED BY <1>7, <2>1, <4>1
    <3> QED BY <1>3, <3>1
  <2> HIDE DEF c, o
  <2> QED BY <1>1, <1>7, <2>1, <2>2, <2>3 DEF c, o
<1>8. CASE t = o /\ inbox[o] \in WithOffer /\ inbox[c] = <<>>
           /\ end[Sender] # "none" /\ end[Receiver] = "none"
  <2>1. CASE inbox[o] = <<Offer>>
    <3>1. Head(inbox[t]) = Offer /\ Tail(inbox[t]) = <<>> /\ inbox[t] # <<>>
      BY <1>8, <2>1, Singles
    <3>2. Gets(t, "offer")
      BY <1>4, <3>1 DEF Gets
    <3> HIDE DEF c, o
    <3> QED BY <1>1, <1>8, <3>1, <3>2 DEF c, o
  <2>2. CASE inbox[o] = <<Offer, Joined>>
    <3>1. Head(inbox[t]) = Offer /\ Tail(inbox[t]) = <<Joined>>
      BY <1>8, <2>2, Pairs
    <3>2. Gets(t, "offer")
      BY <1>4, <3>1 DEF Gets
    <3>3. ~confirm
      <4>1. inbox[o] # <<>> /\ inbox[o] # <<Offer>>
        <5>1. Tail(<<Offer>>) = <<>> /\ <<Joined>> # <<>>
          BY Singles
        <5> QED BY <1>8, <2>2, <3>1, <5>1
      <4> QED BY <1>3, <4>1
    <3> HIDE DEF c, o
    <3> QED BY <1>1, <1>8, <3>1, <3>2, <3>3 DEF c, o
  <2>3. CASE inbox[o] = <<Joined, Offer>>
    <3>1. Head(inbox[t]) = Joined /\ Tail(inbox[t]) = <<Offer>>
      BY <1>8, <2>3, Pairs
    <3>2. Gets(t, "room-joined")
      BY <1>4, <3>1 DEF Gets
    <3>3. ~confirm
      <4>1. inbox[o] # <<>> /\ inbox[o] # <<Offer>>
        <5>1. Tail(<<Offer>>) = <<>> /\ <<Offer>> # <<>>
          BY Singles
        <5> QED BY <1>8, <2>3, <3>1, <5>1
      <4> QED BY <1>3, <4>1
    <3> HIDE DEF c, o
    <3> QED BY <1>1, <1>8, <3>1, <3>2, <3>3 DEF c, o
  <2> QED BY <1>8, <2>1, <2>2, <2>3 DEF WithOffer
<1>9. inbox[c] # <<>> \/ t = o
  BY <1>2
<1> HIDE DEF c, o
<1>10. \/ t = c /\ inbox[c] = <<PeerJoined>> /\ end[Sender] = "none" /\ end[Receiver] = "none"
       \/ t = c /\ \E p \in PC : inbox[c] = <<Msg("answer", p)>> /\ end[p] # "none"
       \/ t = o /\ inbox[o] = <<Joined>>
       \/ /\ t = o /\ inbox[o] \in WithOffer /\ inbox[c] = <<>>
          /\ end[Sender] # "none" /\ end[Receiver] = "none"
  BY <1>2, <1>3
<1> QED BY <1>5, <1>6, <1>7, <1>8, <1>10

-----------------------------------------------------------------------------
(* Every step keeps the types.                                             *)

(* TypeOK, with names for its sets of messages.                            *)
Typed ==
    /\ creator \in Seq(Tab) /\ room \in 0..MaxRooms /\ confirm \in BOOLEAN
    /\ inbox \in [Tab -> Seq(Letter)]
    /\ rtc \in [Tab -> PC \cup {NoPC}] /\ dataChannel \in [Tab -> PC \cup {NoPC}]
    /\ isSender \in [Tab -> BOOLEAN] /\ transferSuccessful \in [Tab -> BOOLEAN]
    /\ shown \in [Tab -> {"none", "send", "receive"}]
    /\ hashing \in [Tab -> SUBSET PC] /\ timers \in [Tab -> Seq(PC)]
    /\ sending \in [Tab -> SUBSET (PC \X PC)]
    /\ fileSender \in [Tab -> (PC \X PC) \cup {NoLoop}]
    /\ remote \in [PC -> PC \cup {NoPC}]
    /\ wire \in Wires
    /\ end \in [PC -> {"none", "connecting", "waiting", "open", "closing", "closed"}]
    /\ free \subseteq 1..MaxRooms /\ leaky \subseteq Tab
    /\ clean \subseteq PC /\ disturbed \subseteq PC

LEMMA TypedIsTypeOK == TypeOK <=> Typed
BY DEF TypeOK, Typed, Letter, Wires, Message

LEMMA LetterTypes ==
    /\ \A p \in PC : /\ Msg("peer-joined", p) \in Letter /\ Msg("offer", p) \in Letter
                     /\ Msg("answer", p) \in Letter
                     /\ Msg("batch-start", p) \in Message /\ Msg("file", p) \in Message
    /\ Msg("room-joined", NoPC) \in Letter
    /\ Msg("batch-complete", NoPC) \in Message /\ Msg("transfer-cancelled", NoPC) \in Message
BY DEF Msg, Letter, Message

(* A message taken from an inbox, and answered.                            *)
LEMMA Answers ==
    ASSUME TypeOK, NEW t \in Tab, inbox[t] # <<>>, NEW m \in Letter, Answering(t, <<m>>)
    PROVE  /\ inbox' \in [Tab -> Seq(Letter)] /\ inbox'[t] = Tail(inbox[t])
           /\ inbox'[Other(t)] = IF room = 0 THEN inbox[Other(t)]
                                 ELSE Append(inbox[Other(t)], m)
<1> DEFINE o == Other(t)
           one == <<m>>
<1>1. o \in Tab /\ o # t /\ \A u \in Tab : u = t \/ u = o
  BY TabFacts
<1>2. inbox \in [Tab -> Seq(Letter)]
  BY TypedIsTypeOK DEF Typed
<1>3. inbox' = [inbox EXCEPT ![t] = Tail(@), ![o] = IF room = 0 THEN @ ELSE @ \o one]
  BY DEF Answering
<1>4. inbox[o] \o one = Append(inbox[o], m)
  BY <1>1, <1>2
<1> HIDE DEF o, one
<1>5. inbox'[t] = Tail(inbox[t])
      /\ inbox'[o] = IF room = 0 THEN inbox[o] ELSE inbox[o] \o one
  BY <1>1, <1>2, <1>3
<1>6. Tail(inbox[t]) \in Seq(Letter)
  BY <1>2
<1>7. Append(inbox[o], m) \in Seq(Letter) /\ inbox[o] \in Seq(Letter)
  BY <1>1, <1>2
<1>8. inbox' \in [Tab -> Seq(Letter)]
  BY <1>1, <1>2, <1>3, <1>4, <1>6, <1>7
<1> QED BY <1>4, <1>5, <1>8 DEF o

(* A message taken from an inbox, and not answered.                        *)
LEMMA Takes ==
    ASSUME TypeOK, NEW t \in Tab, inbox[t] # <<>>, Answering(t, <<>>)
    PROVE  /\ inbox' \in [Tab -> Seq(Letter)] /\ inbox'[t] = Tail(inbox[t])
           /\ inbox'[Other(t)] = inbox[Other(t)]
<1> DEFINE o == Other(t)
           none == <<>>
<1>1. o \in Tab /\ o # t /\ \A u \in Tab : u = t \/ u = o
  BY TabFacts
<1>2. inbox \in [Tab -> Seq(Letter)]
  BY TypedIsTypeOK DEF Typed
<1>3. inbox' = [inbox EXCEPT ![t] = Tail(@), ![o] = IF room = 0 THEN @ ELSE @ \o none]
  BY DEF Answering
<1>4. inbox[o] \o none = inbox[o]
  BY <1>1, <1>2, ConcatEmptySeq
<1> HIDE DEF o, none
<1>5. inbox'[t] = Tail(inbox[t]) /\ inbox'[o] = inbox[o]
  BY <1>1, <1>2, <1>3, <1>4
<1>6. Tail(inbox[t]) \in Seq(Letter)
  BY <1>2
<1>8. inbox' \in [Tab -> Seq(Letter)]
  BY <1>1, <1>2, <1>3, <1>4, <1>6
<1> QED BY <1>5, <1>8 DEF o

LEMMA ServerTypes ==
    ASSUME TypeOK, Mail, Known,
           \/ RoomJoined
           \/ \E lost \in SUBSET Tab : RoomEnds(lost)
           \/ \E t \in Tab : Meet(t) \/ Back(t) \/ (Now > 0 /\ Reload(t))
    PROVE  TypeOK'
<1> DEFINE none == <<>>
<1>1. Typed
  BY TypedIsTypeOK
<1>n. none \in Seq(Letter) /\ none \in Seq(Message) /\ none \in Seq(PC)
  OBVIOUS
<1> HIDE DEF none
<1>2. CASE RoomJoined
  <2>1. Now # 0
    BY <1>2 DEF RoomJoined, Mail
  <2>2. Other(creator[Now]) \in Tab
    BY <2>1, NowFacts, TabFacts
  <2>3. inbox' \in [Tab -> Seq(Letter)]
    BY <1>1, <1>2, <2>2, LetterTypes DEF RoomJoined, Typed
  <2>4. Typed'
    BY <1>1, <1>2, <2>3 DEF RoomJoined, Typed, managerVars, transferVars, pcVars, historyVars
  <2> QED BY <2>4, TypedIsTypeOK, PTL
<1>3. ASSUME NEW lost \in SUBSET Tab, RoomEnds(lost) PROVE TypeOK'
  <2>1. inbox' = [t \in Tab |-> IF t \in lost THEN none ELSE inbox[t]]
    BY <1>3 DEF RoomEnds, none
  <2>2. inbox' \in [Tab -> Seq(Letter)]
    BY <1>1, <1>n, <2>1 DEF Typed
  <2>3. room' \in 0..MaxRooms /\ confirm' \in BOOLEAN
    BY <1>1, <1>3, PairFacts DEF RoomEnds, Typed
  <2>4. Typed'
    BY <1>1, <1>3, <2>2, <2>3 DEF RoomEnds, Typed, managerVars, transferVars, pcVars, historyVars
  <2> QED BY <2>4, TypedIsTypeOK, PTL
<1>4. ASSUME NEW c \in Tab, Meet(c) PROVE TypeOK'
  <2>1. Now \in Nat /\ Now + 1 \in 1..MaxRooms /\ Now + 1 \in 0..MaxRooms
    BY <1>4, NowFacts, PairFacts DEF Meet
  <2> DEFINE m == Msg("peer-joined", <<Now + 1, "sender">>)
             one == <<m>>
  <2>2. m \in Letter
    BY <2>1, PairFacts, LetterTypes
  <2>3. one \in Seq(Letter)
    BY <2>2
  <2>4. inbox' = [inbox EXCEPT ![c] = one]
    BY <1>4 DEF Meet
  <2> HIDE DEF m, one
  <2>5. inbox' \in [Tab -> Seq(Letter)]
    BY <1>1, <2>3, <2>4 DEF Typed
  <2>6. creator' \in Seq(Tab)
    BY <1>1, <1>4 DEF Meet, Typed
  <2>7. free' \subseteq 1..MaxRooms /\ clean' \subseteq PC /\ room' \in 0..MaxRooms /\ confirm' \in BOOLEAN
    BY <1>1, <1>4, <2>1 DEF Meet, Typed
  <2>8. Typed'
    BY <1>1, <1>4, <2>5, <2>6, <2>7 DEF Meet, Typed, managerVars, transferVars, pcVars
  <2> QED BY <2>8, TypedIsTypeOK, PTL
<1>5. ASSUME NEW t \in Tab, Back(t) PROVE TypeOK'
  <2>1. Typed'
    BY <1>1, <1>5 DEF Back, Typed, serverVars, managerVars, pcVars, historyVars
  <2> QED BY <2>1, TypedIsTypeOK, PTL
<1>6. ASSUME NEW t \in Tab, Reload(t) PROVE TypeOK'
  <2>1. /\ inbox' = [inbox EXCEPT ![t] = none]
        /\ timers' = [timers EXCEPT ![t] = none]
        /\ wire' = [p \in PC |-> IF end[p] # "none" /\ TabOf(p) = t THEN none ELSE wire[p]]
    BY <1>6 DEF Reload, none
  <2>2. inbox' \in [Tab -> Seq(Letter)] /\ timers' \in [Tab -> Seq(PC)]
    BY <1>1, <1>n, <2>1 DEF Typed
  <2>3. wire' \in Wires
    BY <1>1, <1>n, <2>1 DEF Typed, Wires
  <2>4. end' \in [PC -> {"none", "connecting", "waiting", "open", "closing", "closed"}]
    BY <1>1, <1>6 DEF Reload, Typed
  <2>5. room' \in 0..MaxRooms /\ confirm' \in BOOLEAN
    BY <1>1, <1>6, PairFacts DEF Reload, Typed
  <2>6. /\ rtc' \in [Tab -> PC \cup {NoPC}] /\ dataChannel' \in [Tab -> PC \cup {NoPC}]
        /\ isSender' \in [Tab -> BOOLEAN] /\ transferSuccessful' \in [Tab -> BOOLEAN]
        /\ shown' \in [Tab -> {"none", "send", "receive"}]
    BY <1>1, <1>6 DEF Reload, Typed
  <2>7. /\ hashing' \in [Tab -> SUBSET PC] /\ sending' \in [Tab -> SUBSET (PC \X PC)]
        /\ fileSender' \in [Tab -> (PC \X PC) \cup {NoLoop}] /\ leaky' \subseteq Tab
    BY <1>1, <1>6 DEF Reload, Typed
  <2>8. Typed'
    BY <1>1, <1>6, <2>2, <2>3, <2>4, <2>5, <2>6, <2>7 DEF Reload, Typed
  <2> QED BY <2>8, TypedIsTypeOK, PTL
<1> QED BY <1>2, <1>3, <1>4, <1>5, <1>6

LEMMA InitializeTypes ==
    ASSUME TypeOK, NEW t \in Tab, NEW p \in PC, Initialize(t, p)
    PROVE  /\ isSender' \in [Tab -> BOOLEAN] /\ rtc' \in [Tab -> PC \cup {NoPC}]
           /\ dataChannel' \in [Tab -> PC \cup {NoPC}]
           /\ end' \in [PC -> {"none", "connecting", "waiting", "open", "closing", "closed"}]
           /\ leaky' \subseteq Tab /\ clean' \subseteq PC
<1>1. isSender' \in [Tab -> BOOLEAN] /\ rtc' \in [Tab -> PC \cup {NoPC}]
  BY DEF TypeOK, Initialize
<1>2. dataChannel' \in [Tab -> PC \cup {NoPC}]
  BY DEF TypeOK, Initialize
<1>3. end' \in [PC -> {"none", "connecting", "waiting", "open", "closing", "closed"}]
  <2>1. end' = [end EXCEPT ![p] = "connecting"] \/ end' = [end EXCEPT ![p] = "waiting"]
    BY DEF Initialize
  <2>2. end \in [PC -> {"none", "connecting", "waiting", "open", "closing", "closed"}]
    BY DEF TypeOK
  <2> QED BY <2>1, <2>2
<1>4. leaky' \subseteq Tab /\ clean' \subseteq PC
  BY DEF TypeOK, Initialize
<1> QED BY <1>1, <1>2, <1>3, <1>4

LEMMA SignalingTypes ==
    ASSUME TypeOK, Mail, Known, NEW t \in Tab, Signaling(t)
    PROVE  TypeOK'
<1>1. Typed
  BY TypedIsTypeOK
<1>2. inbox[t] # <<>>
  BY DEF Signaling, OnPeerJoined, OnRoomJoined, HandleOffer, HandleAnswer, Gets
<1>3. Now # 0 /\ Now \in 1..MaxRooms /\ Sender \in PC /\ Receiver \in PC
      /\ Sender[1] = Now
  BY <1>2, Letters, NowFacts
<1>4. PeerJoined.type = "peer-joined" /\ PeerJoined.pc = Sender
      /\ Offer.type = "offer" /\ Offer.pc = Sender /\ Joined.type = "room-joined"
      /\ \A p : Msg("answer", p).type = "answer" /\ Msg("answer", p).pc = p
  BY DEF PeerJoined, Offer, Joined, Msg
<1>5. CASE OnPeerJoined(t)
  <2>1. Head(inbox[t]).pc = Sender
    BY <1>2, <1>4, <1>5, Letters DEF OnPeerJoined, Gets
  <2>2. Initialize(t, Sender) /\ Answering(t, <<Msg("offer", Sender)>>)
    BY <1>5, <2>1 DEF OnPeerJoined
  <2>3. inbox' \in [Tab -> Seq(Letter)]
    BY <1>2, <1>3, <2>2, Answers, LetterTypes
  <2>4. Typed'
    BY <1>1, <1>3, <1>5, <2>2, <2>3, InitializeTypes DEF OnPeerJoined, Typed, transferVars
  <2> QED BY <2>4, TypedIsTypeOK, PTL
<1>6. CASE OnRoomJoined(t)
  <2>1. inbox' \in [Tab -> Seq(Letter)]
    BY <1>2, <1>6, Takes DEF OnRoomJoined
  <2>2. Typed'
    BY <1>1, <1>6, <2>1 DEF OnRoomJoined, Typed, managerVars, transferVars, pcVars, historyVars
  <2> QED BY <2>2, TypedIsTypeOK, PTL
<1>7. CASE HandleOffer(t)
  <2>1. Head(inbox[t]).pc = Sender
    BY <1>2, <1>4, <1>7, Letters DEF HandleOffer, Gets
  <2>2. UNCHANGED <<creator, room, confirm, transferVars, free, disturbed>>
    BY <1>7 DEF HandleOffer
  <2>3. \/ /\ Initialize(t, Receiver)
           /\ remote' = [remote EXCEPT ![Receiver] = Sender]
           /\ Answering(t, <<Msg("answer", Receiver)>>)
           /\ UNCHANGED wire
        \/ /\ rtc[t] # NoPC
           /\ remote' = [remote EXCEPT ![rtc[t]] = Sender]
           /\ wire' = [wire EXCEPT ![rtc[t]] = <<>>]
           /\ Answering(t, <<Msg("answer", rtc[t])>>)
           /\ UNCHANGED <<managerVars, end, leaky, clean>>
        \/ /\ Answering(t, <<>>)
           /\ UNCHANGED <<managerVars, pcVars, leaky, clean>>
    BY <1>3, <1>7, <2>1 DEF HandleOffer, Receiver
  <2>4. CASE /\ Initialize(t, Receiver)
             /\ remote' = [remote EXCEPT ![Receiver] = Sender]
             /\ Answering(t, <<Msg("answer", Receiver)>>)
             /\ UNCHANGED wire
    <3>1. inbox' \in [Tab -> Seq(Letter)]
      BY <1>2, <1>3, <2>4, Answers, LetterTypes
    <3>2. remote' \in [PC -> PC \cup {NoPC}]
      BY <1>1, <1>3, <2>4 DEF Typed
    <3>3. Typed'
      BY <1>1, <1>3, <2>2, <2>4, <3>1, <3>2, InitializeTypes DEF Typed, transferVars
    <3> QED BY <3>3, TypedIsTypeOK, PTL
  <2>5. CASE /\ rtc[t] # NoPC
             /\ remote' = [remote EXCEPT ![rtc[t]] = Sender]
             /\ wire' = [wire EXCEPT ![rtc[t]] = <<>>]
             /\ Answering(t, <<Msg("answer", rtc[t])>>)
             /\ UNCHANGED <<managerVars, end, leaky, clean>>
    <3>1. rtc[t] \in PC
      BY <1>1, <2>5 DEF Typed
    <3>2. inbox' \in [Tab -> Seq(Letter)]
      BY <1>2, <2>5, <3>1, Answers, LetterTypes
    <3>3. wire' \in Wires
      <4> DEFINE none == <<>>
      <4>1. none \in Seq(Message) /\ wire' = [wire EXCEPT ![rtc[t]] = none]
        BY <2>5
      <4> HIDE DEF none
      <4> QED BY <1>1, <4>1 DEF Typed, Wires
    <3>4. Typed'
      BY <1>1, <1>3, <2>2, <2>5, <3>1, <3>2, <3>3 DEF Typed, managerVars, transferVars
    <3> QED BY <3>4, TypedIsTypeOK, PTL
  <2>6. CASE /\ Answering(t, <<>>)
             /\ UNCHANGED <<managerVars, pcVars, leaky, clean>>
    <3>1. inbox' \in [Tab -> Seq(Letter)]
      BY <1>2, <2>6, Takes
    <3>2. Typed'
      BY <1>1, <2>2, <2>6, <3>1 DEF Typed, managerVars, transferVars, pcVars
    <3> QED BY <3>2, TypedIsTypeOK, PTL
  <2> QED BY <2>3, <2>4, <2>5, <2>6
<1>8. CASE HandleAnswer(t)
  <2>1. inbox' \in [Tab -> Seq(Letter)]
    BY <1>2, <1>8, Takes DEF HandleAnswer
  <2>2. Head(inbox[t]).pc \in PC
    BY <1>2, <1>4, <1>8, Letters DEF HandleAnswer, Gets
  <2>3. remote' \in [PC -> PC \cup {NoPC}]
    BY <1>1, <1>8, <2>2 DEF HandleAnswer, Typed
  <2>4. Typed'
    BY <1>1, <1>8, <2>1, <2>3 DEF HandleAnswer, Typed, managerVars, transferVars, historyVars
  <2> QED BY <2>4, TypedIsTypeOK, PTL
<1> QED BY <1>5, <1>6, <1>7, <1>8 DEF Signaling

LEMMA CancelTypes ==
    ASSUME TypeOK, Fresh, Known, NEW t \in Tab, NEW causes \in SUBSET PC, NEW on \in Wires,
           \A p \in causes : end[p] # "none", CancelTransfer(t, causes, on)
    PROVE  TypeOK'
<1>1. Typed
  BY TypedIsTypeOK
<1>2. /\ rtc' \in [Tab -> PC \cup {NoPC}] /\ dataChannel' \in [Tab -> PC \cup {NoPC}]
      /\ end' \in [PC -> {"none", "connecting", "waiting", "open", "closing", "closed"}]
      /\ wire' \in Wires /\ disturbed' = disturbed \cup (Held(t) \ causes)
  BY CloseFields DEF CancelTransfer
<1>3. disturbed' \subseteq PC
  BY <1>1, <1>2, HeldFacts DEF Typed
<1>4. inbox' \in [Tab -> Seq(Letter)]
  <2> DEFINE none == <<>>
  <2>1. none \in Seq(Letter) /\ inbox' = [inbox EXCEPT ![t] = none]
    BY DEF CancelTransfer
  <2> HIDE DEF none
  <2> QED BY <1>1, <2>1 DEF Typed
<1>5. /\ sending' = [sending EXCEPT ![t] = @ \ {fileSender[t]}]
      /\ fileSender' = [fileSender EXCEPT ![t] = NoLoop]
      /\ room' = 0
      /\ shown' = [shown EXCEPT ![t] = "none"]
      /\ UNCHANGED <<creator, confirm, isSender, transferSuccessful, hashing,
                     timers, remote, free, leaky, clean>>
  BY DEF CancelTransfer
<1>6. Typed'
  BY <1>1, <1>2, <1>3, <1>4, <1>5, PairFacts, SMTT(30) DEF Typed
<1> QED BY <1>6, TypedIsTypeOK, PTL

(* What onopen does: to the channel, and as the start of a batch.          *)
LEMMA OpenFields ==
    ASSUME TypeOK, Known, Opened, Files, NEW p \in PC, OnDataChannelOpen(p)
    PROVE  LET t == TabOf(p)
           IN  /\ t \in Tab /\ end[p] \in {"connecting", "waiting"} /\ remote[p] # NoPC
               /\ end' = [end EXCEPT ![p] = "open"]
               /\ \/ dataChannel' = [dataChannel EXCEPT ![t] = p]
                  \/ dataChannel' = dataChannel /\ end[p] = "connecting"
               /\ dataChannel' \in [Tab -> PC \cup {NoPC}]
               /\ wire' \in Wires /\ FilesOn(wire')
               /\ \/ UNCHANGED <<shown, transferSuccessful, hashing>>
                  \/ /\ isSender[t]
                     /\ transferSuccessful' = [transferSuccessful EXCEPT ![t] = FALSE]
                     /\ shown' = [shown EXCEPT ![t] = "send"]
                     /\ \E b \in {p, dataChannel'[t]} \ {NoPC} :
                           hashing' = [hashing EXCEPT ![t] = @ \cup {b}]
               /\ UNCHANGED <<serverVars, rtc, isSender, sending, fileSender, timers, remote,
                              historyVars>>
<1> DEFINE t == TabOf(p)
           ch == dataChannel'[t]
<1>1. Typed
  BY TypedIsTypeOK
<1>2. end[p] \in {"connecting", "waiting"} /\ remote[p] # NoPC /\ t \in Tab
  BY OwnTab DEF OnDataChannelOpen, Linked, Known
<1>3. /\ end' = [end EXCEPT ![p] = "open"]
      /\ UNCHANGED <<serverVars, rtc, isSender, sending, fileSender, timers, remote, historyVars>>
      /\ dataChannel' = IF end[p] = "waiting"
                        THEN [dataChannel EXCEPT ![t] = p] ELSE dataChannel
      /\ \/ UNCHANGED <<shown, transferSuccessful, hashing, wire>>
         \/ isSender[t] /\ StartBatchSend(t, p, end')
  BY DEF OnDataChannelOpen
<1>4. dataChannel' \in [Tab -> PC \cup {NoPC}]
  BY <1>1, <1>2, <1>3 DEF Typed
<1>5. wire \in Wires /\ FilesOn(wire)
  BY <1>1 DEF Typed, Files
<1>6. CASE UNCHANGED <<shown, transferSuccessful, hashing, wire>>
  <2> HIDE DEF t
  <2> QED BY <1>2, <1>3, <1>4, <1>5, <1>6 DEF t
<1>7. CASE isSender[t] /\ StartBatchSend(t, p, end')
  <2> DEFINE b == IF ch = NoPC THEN p ELSE ch
  <2>1. /\ transferSuccessful' = [transferSuccessful EXCEPT ![t] = FALSE]
        /\ shown' = [shown EXCEPT ![t] = "send"]
        /\ hashing' = [hashing EXCEPT ![t] = @ \cup {b}]
        /\ wire' = IF ch # NoPC /\ end'[ch] = "open"
                   THEN [wire EXCEPT ![remote[ch]] = Append(@, Msg("batch-start", ch))]
                   ELSE wire
    BY <1>7 DEF StartBatchSend
  <2>2. b \in {p, ch} \ {NoPC}
    BY PairFacts
  <2>3. wire' \in Wires /\ FilesOn(wire')
    <3> DEFINE m == Msg("batch-start", ch)
               q == remote[ch]
    <3>1. CASE ch # NoPC /\ end'[ch] = "open"
      <4>1. ch \in PC
        BY <1>2, <1>4, <3>1
      <4>2. q \in PC
        BY <1>1, <1>2, <1>3, <3>1, <4>1 DEF Opened, Typed
      <4>3. m \in Message /\ m.type # "file"
        BY <4>1, LetterTypes DEF Msg
      <4>4. wire' = [wire EXCEPT ![q] = Append(@, m)]
        BY <2>1, <3>1
      <4> HIDE DEF m, q
      <4> QED BY <1>5, <4>2, <4>3, <4>4, AppendFiles
    <3>2. CASE ~(ch # NoPC /\ end'[ch] = "open")
      BY <1>5, <2>1, <3>2
    <3> QED BY <3>1, <3>2
  <2>4. dataChannel'[TabOf(p)] = ch /\ t = TabOf(p)
    OBVIOUS
  <2> HIDE DEF b, ch, t
  <2> QED BY <1>2, <1>3, <1>4, <1>7, <2>1, <2>2, <2>3, <2>4
<1> QED BY <1>3, <1>6, <1>7

(* The messages a send loop leaves behind.                                 *)
LEMMA LoopWires ==
    ASSUME TypeOK, Known, Loops, Files, NEW t \in Tab, NEW loop \in sending[t],
           SendLoopEnds(t, loop)
    PROVE  wire' \in Wires /\ FilesOn(wire') /\ loop \in PC \X PC
<1>1. Typed
  BY TypedIsTypeOK
<1>2. loop \in PC \X PC /\ loop[1] \in PC /\ loop[2] \in PC
  BY <1>1 DEF Typed
<1>3. wire \in Wires /\ FilesOn(wire) /\ dataChannel[t] \in PC \cup {NoPC}
  BY <1>1 DEF Typed, Files
<1>4. CASE end[loop[2]] = "open"
  <2> DEFINE m == Msg("file", loop[1])
             d == Msg("batch-complete", NoPC)
             on == Transmit(wire, loop[2], <<m>>)
             ch == dataChannel[t]
  <2>1. wire' = Transmit(on, ch, <<d>>)
    BY <1>4 DEF SendLoopEnds
  <2>2. m \in Message /\ m.pc = loop[1] /\ d \in Message /\ d.type # "file"
    BY <1>2, LetterTypes DEF Msg
  <2>3. loop[2] \in clean => m.pc = loop[2]
    BY <2>2 DEF Loops
  <2>4. on \in Wires /\ FilesOn(on)
    <3> HIDE DEF m
    <3> QED BY <1>2, <1>3, <2>2, <2>3, TransmitFiles
  <2>5. ch \in PC \cup {NoPC}
    BY <1>3
  <2> HIDE DEF on, d, ch
  <2> QED BY <1>2, <2>1, <2>2, <2>4, <2>5, TransmitFiles
<1>5. CASE end[loop[2]] # "open"
  BY <1>2, <1>3, <1>5 DEF SendLoopEnds
<1> QED BY <1>2, <1>4, <1>5

LEMMA ChannelTypes ==
    ASSUME Inv, NEW p \in PC,
           \/ OnDataChannelOpen(p) \/ OnDataChannelClose(p) \/ Messages(p)
    PROVE  TypeOK'
<1>1. TypeOK /\ Typed /\ Known /\ Fresh /\ Opened /\ Files
  BY TypedIsTypeOK DEF Inv, Core
<1>2. CASE OnDataChannelOpen(p)
  <2> DEFINE t == TabOf(p)
  <2>1. /\ t \in Tab
        /\ end' = [end EXCEPT ![p] = "open"]
        /\ dataChannel' \in [Tab -> PC \cup {NoPC}]
        /\ wire' \in Wires
        /\ \/ UNCHANGED <<shown, transferSuccessful, hashing>>
           \/ /\ isSender[t]
              /\ transferSuccessful' = [transferSuccessful EXCEPT ![t] = FALSE]
              /\ shown' = [shown EXCEPT ![t] = "send"]
              /\ \E b \in {p, dataChannel'[t]} \ {NoPC} :
                    hashing' = [hashing EXCEPT ![t] = @ \cup {b}]
        /\ UNCHANGED <<serverVars, rtc, isSender, sending, fileSender, timers, remote, historyVars>>
    BY <1>1, <1>2, OpenFields
  <2> HIDE DEF t
  <2>2. /\ end' \in [PC -> {"none", "connecting", "waiting", "open", "closing", "closed"}]
        /\ shown' \in [Tab -> {"none", "send", "receive"}]
        /\ transferSuccessful' \in [Tab -> BOOLEAN]
    BY <1>1, <2>1 DEF Typed
  <2>3. hashing' \in [Tab -> SUBSET PC]
    <3>1. hashing \in [Tab -> SUBSET PC]
      BY <1>1 DEF Typed
    <3>2. {p, dataChannel'[t]} \ {NoPC} \subseteq PC
      BY <2>1
    <3>3. hashing' = hashing \/ \E b \in PC : hashing' = [hashing EXCEPT ![t] = @ \cup {b}]
      BY <2>1, <3>2
    <3> QED BY <3>1, <3>3
  <2>4. Typed'
    BY <1>1, <2>1, <2>2, <2>3 DEF Typed, serverVars, historyVars
  <2> QED BY <2>4, TypedIsTypeOK, PTL
<1>3. ASSUME end[p] # "none" PROVE TabOf(p) \in Tab
  BY <1>1, <1>3, OwnTab DEF Known
<1>4. wire \in Wires
  BY <1>1 DEF Typed
<1>5. CASE OnDataChannelClose(p)
  <2>1. end[p] # "none" /\ TabOf(p) \in Tab
    BY <1>3, <1>5 DEF OnDataChannelClose
  <2>2. CASE CancelTransfer(TabOf(p), {p}, wire)
    BY <1>1, <1>4, <2>1, <2>2, CancelTypes
  <2>3. CASE /\ end' = [end EXCEPT ![p] = "closed"]
             /\ wire' = [wire EXCEPT ![p] = <<>>]
             /\ UNCHANGED <<serverVars, managerVars, transferVars, remote, historyVars>>
    <3> DEFINE none == <<>>
    <3>1. none \in Seq(Message) /\ wire' = [wire EXCEPT ![p] = none]
      BY <2>3
    <3> HIDE DEF none
    <3>2. wire' \in Wires
      BY <1>4, <3>1 DEF Wires
    <3>3. Typed'
      BY <1>1, <2>3, <3>2 DEF Typed, serverVars, managerVars, transferVars, historyVars
    <3> QED BY <3>3, TypedIsTypeOK, PTL
  <2> QED BY <1>5, <2>2, <2>3 DEF OnDataChannelClose
<1>6. ASSUME end[p] = "open", wire[p] # <<>>
      PROVE  Rest(p) \in Wires /\ Head(wire[p]) \in Message /\ TabOf(p) \in Tab
             /\ remote[p] \in PC
  <2>1. remote[p] \in PC
    BY <1>1, <1>6 DEF Opened, Typed
  <2> QED BY <1>1, <1>3, <1>6, <2>1, RestFiles
<1>7. CASE HandleBatchStart(p)
  <2>1. Rest(p) \in Wires /\ TabOf(p) \in Tab
    BY <1>6, <1>7 DEF HandleBatchStart, Arrives
  <2>2. Typed'
    BY <1>1, <1>7, <2>1 DEF HandleBatchStart, Typed, serverVars, managerVars, historyVars
  <2> QED BY <2>2, TypedIsTypeOK, PTL
<1>8. CASE HandleFile(p)
  <2>1. Rest(p) \in Wires /\ remote[p] \in PC
    BY <1>6, <1>8 DEF HandleFile, Arrives
  <2>2. Typed'
    BY <1>1, <1>8, <2>1 DEF HandleFile, Typed, serverVars, managerVars, transferVars
  <2> QED BY <2>2, TypedIsTypeOK, PTL
<1>9. CASE HandleBatchComplete(p)
  <2> DEFINE t == TabOf(p)
             causes == {p} \cap Held(t)
  <2>1. Rest(p) \in Wires /\ t \in Tab /\ end[p] # "none"
    BY <1>6, <1>9 DEF HandleBatchComplete, Arrives
  <2>2. Close(t, causes, Rest(p)) /\ causes \in SUBSET PC /\ \A q \in causes : end[q] # "none"
    BY <1>9, <2>1 DEF HandleBatchComplete
  <2> HIDE DEF causes, t
  <2>3. /\ rtc' \in [Tab -> PC \cup {NoPC}] /\ dataChannel' \in [Tab -> PC \cup {NoPC}]
        /\ end' \in [PC -> {"none", "connecting", "waiting", "open", "closing", "closed"}]
        /\ wire' \in Wires /\ disturbed' = disturbed \cup (Held(t) \ causes)
    BY <1>1, <2>1, <2>2, CloseFields
  <2>4. disturbed' \subseteq PC
    BY <1>1, <2>1, <2>3, HeldFacts DEF Typed
  <2>5. /\ shown' \in [Tab -> {"none", "send", "receive"}]
        /\ transferSuccessful' \in [Tab -> BOOLEAN]
    BY <1>1, <1>9, <2>1 DEF HandleBatchComplete, Typed
  <2>6. Typed'
    BY <1>1, <1>9, <2>3, <2>4, <2>5 DEF HandleBatchComplete, Typed, serverVars
  <2> QED BY <2>6, TypedIsTypeOK, PTL
<1>10. CASE HandleTransferCancelled(p)
  <2> DEFINE t == TabOf(p)
             causes == {p} \cap Held(t)
  <2>1. Rest(p) \in Wires /\ t \in Tab /\ end[p] # "none"
    BY <1>6, <1>10 DEF HandleTransferCancelled, Arrives
  <2>2. CancelTransfer(t, causes, Rest(p)) /\ causes \in SUBSET PC /\ \A q \in causes : end[q] # "none"
    BY <1>10, <2>1 DEF HandleTransferCancelled
  <2> HIDE DEF causes, t
  <2> QED BY <1>1, <2>1, <2>2, CancelTypes
<1> QED BY <1>2, <1>5, <1>7, <1>8, <1>9, <1>10 DEF Messages

LEMMA TransferTypes ==
    ASSUME Inv, NEW t \in Tab,
           \/ CancelClick(t) \/ CloseTimer(t)
           \/ \E b \in hashing[t] : HashDone(t, b)
           \/ \E loop \in sending[t] : SendLoopEnds(t, loop)
    PROVE  TypeOK'
<1>1. TypeOK /\ Typed /\ Known /\ Fresh /\ Opened /\ Files /\ Loops
  BY TypedIsTypeOK DEF Inv, Core
<1>2. Held(t) \in SUBSET PC /\ \A q \in Held(t) : end[q] # "none"
  BY <1>1, HeldFacts DEF Fresh
<1>3. wire \in Wires /\ FilesOn(wire)
  BY <1>1 DEF Typed, Files
<1>4. CASE CancelClick(t)
  <2> DEFINE m == Msg("transfer-cancelled", NoPC)
             on == Transmit(wire, dataChannel[t], <<m>>)
             held == Held(t)
  <2>1. m \in Message /\ m.type # "file" /\ dataChannel[t] \in PC \cup {NoPC}
    BY <1>1, LetterTypes DEF Msg, Typed
  <2>2. on \in Wires
    <3> HIDE DEF m
    <3> QED BY <1>1, <1>3, <2>1, TransmitFiles
  <2>3. CancelTransfer(t, held, on)
    BY <1>4 DEF CancelClick
  <2>4. held \in SUBSET PC /\ \A q \in held : end[q] # "none"
    BY <1>2
  <2> HIDE DEF held, on
  <2> QED BY <1>1, <2>2, <2>3, <2>4, CancelTypes
<1>5. CASE CloseTimer(t)
  <2> DEFINE causes == {Head(timers[t])} \cap Held(t)
  <2>1. Close(t, causes, wire) /\ causes \in SUBSET PC /\ \A q \in causes : end[q] # "none"
    BY <1>2, <1>5 DEF CloseTimer
  <2>2. timers' = [timers EXCEPT ![t] = Tail(@)] /\ timers[t] # <<>>
    BY <1>5 DEF CloseTimer
  <2>3. timers' \in [Tab -> Seq(PC)]
    BY <1>1, <2>2 DEF Typed
  <2> HIDE DEF causes
  <2>4. /\ rtc' \in [Tab -> PC \cup {NoPC}] /\ dataChannel' \in [Tab -> PC \cup {NoPC}]
        /\ end' \in [PC -> {"none", "connecting", "waiting", "open", "closing", "closed"}]
        /\ wire' \in Wires /\ disturbed' = disturbed \cup (Held(t) \ causes)
    BY <1>1, <1>3, <2>1, CloseFields
  <2>5. disturbed' \subseteq PC
    BY <1>1, <1>2, <2>4 DEF Typed
  <2>6. Typed'
    BY <1>1, <1>5, <2>3, <2>4, <2>5 DEF CloseTimer, Typed, serverVars
  <2> QED BY <2>6, TypedIsTypeOK, PTL
<1>6. ASSUME NEW b \in hashing[t], HashDone(t, b) PROVE TypeOK'
  <2>1. b \in PC /\ dataChannel[t] \in PC \cup {NoPC}
    BY <1>1 DEF Typed
  <2>2. hashing' = [hashing EXCEPT ![t] = @ \ {b}]
    BY <1>6 DEF HashDone
  <2>3. hashing' \in [Tab -> SUBSET PC]
    BY <1>1, <2>2 DEF Typed
  <2>4. /\ fileSender' \in [Tab -> (PC \X PC) \cup {NoLoop}]
        /\ sending' \in [Tab -> SUBSET (PC \X PC)]
    <3> DEFINE loop == <<b, dataChannel[t]>>
               LoopSet == PC \X PC
    <3>1. \/ UNCHANGED <<sending, fileSender>>
          \/ /\ loop \in LoopSet
             /\ fileSender' = [fileSender EXCEPT ![t] = loop]
             /\ sending' = [sending EXCEPT ![t] = @ \cup {loop}]
      BY <1>6, <2>1 DEF HashDone
    <3>2. fileSender \in [Tab -> LoopSet \cup {NoLoop}] /\ sending \in [Tab -> SUBSET LoopSet]
      BY <1>1 DEF Typed
    <3>3. /\ fileSender' \in [Tab -> LoopSet \cup {NoLoop}]
          /\ sending' \in [Tab -> SUBSET LoopSet]
      <4> HIDE DEF loop, LoopSet
      <4> QED BY <3>1, <3>2
    <3> QED BY <3>3
  <2>5. Typed'
    BY <1>1, <1>6, <2>3, <2>4 DEF HashDone, Typed, serverVars, managerVars, pcVars, historyVars
  <2> QED BY <2>5, TypedIsTypeOK, PTL
<1>7. ASSUME NEW loop \in sending[t], SendLoopEnds(t, loop) PROVE TypeOK'
  <2>1. wire' \in Wires /\ loop \in PC \X PC
    BY <1>1, <1>7, LoopWires
  <2>2. sending' \in [Tab -> SUBSET (PC \X PC)]
    BY <1>1, <1>7 DEF SendLoopEnds, Typed
  <2> DEFINE b == loop[1]
  <2>e. \/ UNCHANGED <<shown, transferSuccessful, timers>>
        \/ /\ shown' = [shown EXCEPT ![t] = "none"]
           /\ transferSuccessful' = [transferSuccessful EXCEPT ![t] = TRUE]
           /\ timers' = [timers EXCEPT ![t] = Append(@, b)]
    BY <1>7 DEF SendLoopEnds
  <2>b. b \in PC
    BY <2>1
  <2> HIDE DEF b
  <2>3. /\ shown' \in [Tab -> {"none", "send", "receive"}]
        /\ transferSuccessful' \in [Tab -> BOOLEAN]
    <3>1. shown \in [Tab -> {"none", "send", "receive"}]
          /\ transferSuccessful \in [Tab -> BOOLEAN]
      BY <1>1 DEF Typed
    <3> QED BY <2>e, <3>1
  <2>4. timers' \in [Tab -> Seq(PC)]
    <3>1. timers \in [Tab -> Seq(PC)]
      BY <1>1 DEF Typed
    <3>2. timers[t] \in Seq(PC) /\ Append(timers[t], b) \in Seq(PC)
      BY <2>b, <3>1
    <3> QED BY <2>e, <3>1, <3>2
  <2>5. Typed'
    BY <1>1, <1>7, <2>1, <2>2, <2>3, <2>4 DEF SendLoopEnds, Typed, serverVars, managerVars, historyVars
  <2> QED BY <2>5, TypedIsTypeOK, PTL
<1> QED BY <1>4, <1>5, <1>6, <1>7

-----------------------------------------------------------------------------
(* Every step keeps the inboxes short.                                     *)

LEMMA MailNext ==
    ASSUME TypeOK, Known, Now # 0, UNCHANGED creator,
           \/ inbox'[creator[Now]] = <<>>
           \/ inbox'[creator[Now]] = <<PeerJoined>> /\ end'[Sender] = "none" /\ end'[Receiver] = "none"
           \/ \E p \in PC : inbox'[creator[Now]] = <<Msg("answer", p)>> /\ end'[p] # "none",
           \/ inbox'[Other(creator[Now])] \in {<<>>, <<Joined>>}
           \/ /\ inbox'[Other(creator[Now])] \in WithOffer /\ inbox'[creator[Now]] = <<>>
              /\ end'[Sender] # "none" /\ end'[Receiver] = "none",
           confirm' => inbox'[Other(creator[Now])] \in {<<>>, <<Offer>>}
    PROVE  Mail'
<1>1. Now' = Now /\ creator' = creator /\ Sender' = Sender /\ Receiver' = Receiver
      /\ PeerJoined' = PeerJoined /\ Offer' = Offer /\ Joined' = Joined /\ WithOffer' = WithOffer
  BY DEF Now, Sender, Receiver, PeerJoined, Offer, Joined, WithOffer, Msg
<1>2. Other(creator[Now])' = Other(creator[Now])
  BY <1>1 DEF Other
<1> QED BY <1>1, <1>2 DEF Mail, Msg

LEMMA SignalingMail ==
    ASSUME TypeOK, Known, Fresh, Mail, NEW t \in Tab, Signaling(t)
    PROVE  Mail'
<1> DEFINE c == creator[Now]
           o == Other(c)
<1>2. inbox[t] # <<>>
  BY DEF Signaling, OnPeerJoined, OnRoomJoined, HandleOffer, HandleAnswer, Gets
<1>3. /\ Now # 0 /\ Now \in 1..MaxRooms /\ Sender \in PC /\ Receiver \in PC
      /\ Sender[1] = Now /\ Sender # Receiver /\ Sender[2] = "sender" /\ Receiver[2] = "receiver"
      /\ c \in Tab /\ o \in Tab /\ o # c /\ Other(o) = c
  BY <1>2, Letters, NowFacts, TabFacts
<1>4. /\ PeerJoined.type = "peer-joined" /\ PeerJoined.pc = Sender
      /\ Offer.type = "offer" /\ Offer.pc = Sender /\ Joined.type = "room-joined"
      /\ \A p : Msg("answer", p).type = "answer" /\ Msg("answer", p).pc = p
  BY DEF PeerJoined, Offer, Joined, Msg
<1>5. /\ UNCHANGED <<creator, confirm>>
      /\ confirm => inbox[o] \in {<<>>, <<Offer>>}
  BY <1>3 DEF Signaling, OnPeerJoined, OnRoomJoined, HandleOffer, HandleAnswer, Mail
<1>6. CASE OnPeerJoined(t)
  <2>1. /\ t = c /\ Head(inbox[t]) = PeerJoined /\ Tail(inbox[t]) = <<>>
        /\ inbox[o] \in {<<>>, <<Joined>>}
        /\ end[Sender] = "none" /\ end[Receiver] = "none"
    BY <1>2, <1>4, <1>6, Letters DEF OnPeerJoined, Gets
  <2>2. Initialize(t, Sender) /\ Answering(t, <<Offer>>)
    BY <1>4, <1>6, <2>1 DEF OnPeerJoined, Offer
  <2>3. end'[Sender] # "none" /\ end'[Receiver] = "none"
    BY <1>3, <2>1, <2>2 DEF Initialize, TypeOK
  <2>4. Offer \in Letter
    BY <1>3, LetterTypes DEF Offer
  <2>5. inbox'[c] = <<>> /\ inbox'[o] \in {inbox[o], Append(inbox[o], Offer)}
    BY <1>2, <2>1, <2>2, <2>4, Answers
  <2>6. Append(<<>>, Offer) = <<Offer>> /\ Append(<<Joined>>, Offer) = <<Joined, Offer>>
    BY Pairs, Singles
  <2>7. \/ inbox'[o] \in {<<>>, <<Joined>>}
        \/ inbox'[o] \in WithOffer
    BY <2>1, <2>5, <2>6 DEF WithOffer
  <2>8. confirm => inbox'[o] \in {<<>>, <<Offer>>}
    <3>1. <<Joined>> # <<>> /\ <<Joined>> # <<Offer>>
      BY <1>4, Singles
    <3>2. confirm => inbox[o] = <<>>
      BY <1>5, <2>1, <3>1
    <3> QED BY <2>5, <2>6, <3>2
  <2> QED BY <1>3, <1>5, <2>3, <2>5, <2>7, <2>8, MailNext
<1>7. CASE OnRoomJoined(t)
  <2>1. /\ t = o
        /\ \/ Tail(inbox[t]) = <<>>
           \/ /\ Tail(inbox[t]) = <<Offer>> /\ inbox[c] = <<>>
              /\ end[Sender] # "none" /\ end[Receiver] = "none"
    BY <1>2, <1>4, <1>7, Letters DEF OnRoomJoined, Gets
  <2>2. UNCHANGED end /\ Answering(t, <<>>)
    BY <1>7 DEF OnRoomJoined, pcVars
  <2>3. inbox'[o] = Tail(inbox[t]) /\ inbox'[c] = inbox[c]
    BY <1>2, <1>3, <2>1, <2>2, Takes
  <2>4. \/ inbox[c] = <<>>
        \/ inbox[c] = <<PeerJoined>> /\ end[Sender] = "none" /\ end[Receiver] = "none"
        \/ \E p \in PC : inbox[c] = <<Msg("answer", p)>> /\ end[p] # "none"
    BY <1>3 DEF Mail
  <2>5. \/ inbox'[o] \in {<<>>, <<Joined>>}
        \/ /\ inbox'[o] \in WithOffer /\ inbox'[c] = <<>>
           /\ end'[Sender] # "none" /\ end'[Receiver] = "none"
    BY <2>1, <2>2, <2>3 DEF WithOffer
  <2>6. inbox'[o] \in {<<>>, <<Offer>>}
    BY <2>1, <2>3
  <2> QED BY <1>3, <1>5, <2>2, <2>3, <2>4, <2>5, <2>6, MailNext
<1>8. CASE HandleOffer(t)
  <2>1. /\ t = o /\ Head(inbox[t]).pc = Sender /\ inbox[c] = <<>>
        /\ Tail(inbox[t]) \in {<<>>, <<Joined>>}
        /\ Tail(inbox[t]) # <<>> => ~confirm
    BY <1>2, <1>4, <1>8, Letters DEF HandleOffer, Gets
  <2>2. \/ \E q \in PC : Answering(t, <<Msg("answer", q)>>) /\ end'[q] # "none"
        \/ Answering(t, <<>>)
    <3>1. CASE Initialize(t, Receiver) /\ Answering(t, <<Msg("answer", Receiver)>>)
      <4>1. end'[Receiver] # "none"
        BY <1>3, <3>1 DEF Initialize, TypeOK
      <4> QED BY <1>3, <3>1, <4>1
    <3>2. CASE /\ rtc[t] # NoPC /\ end[rtc[t]] \in {"connecting", "waiting"}
               /\ Answering(t, <<Msg("answer", rtc[t])>>) /\ UNCHANGED end
      <4>1. rtc[t] \in PC
        BY <3>2 DEF TypeOK
      <4> QED BY <3>2, <4>1
    <3>3. CASE Answering(t, <<>>)
      BY <1>3, <3>3
    <3> QED BY <1>8, <2>1, <1>3, <3>1, <3>2, <3>3 DEF HandleOffer, Receiver
  <2>3. \/ inbox'[c] = <<>>
        \/ \E p \in PC : inbox'[c] = <<Msg("answer", p)>> /\ end'[p] # "none"
    <3>1. ASSUME NEW q \in PC, Answering(t, <<Msg("answer", q)>>), end'[q] # "none"
          PROVE  \/ inbox'[c] = <<>>
                 \/ inbox'[c] = <<Msg("answer", q)>>
      <4>1. Msg("answer", q) \in Letter
        BY LetterTypes
      <4>2. inbox'[c] \in {inbox[c], Append(inbox[c], Msg("answer", q))}
        BY <1>2, <1>3, <2>1, <3>1, <4>1, Answers
      <4>3. Append(<<>>, Msg("answer", q)) = <<Msg("answer", q)>>
        BY Singles
      <4> QED BY <2>1, <4>2, <4>3
    <3>2. ASSUME Answering(t, <<>>) PROVE inbox'[c] = <<>>
      BY <1>2, <1>3, <2>1, <3>2, Takes
    <3> QED BY <2>2, <3>1, <3>2
  <2>4. inbox'[o] = Tail(inbox[t])
    <3>1. ASSUME NEW q \in PC, Answering(t, <<Msg("answer", q)>>) PROVE inbox'[t] = Tail(inbox[t])
      BY <1>2, <3>1, Answers, LetterTypes
    <3>2. ASSUME Answering(t, <<>>) PROVE inbox'[t] = Tail(inbox[t])
      BY <1>2, <3>2, Takes
    <3> QED BY <2>1, <2>2, <3>1, <3>2
  <2> QED BY <1>3, <1>5, <2>1, <2>3, <2>4, MailNext
<1>9. CASE HandleAnswer(t)
  <2>1. t = c /\ Tail(inbox[t]) = <<>> /\ inbox[o] \in {<<>>, <<Joined>>}
    BY <1>2, <1>4, <1>9, Letters DEF HandleAnswer, Gets
  <2>2. inbox'[c] = <<>> /\ inbox'[o] = inbox[o]
    BY <1>2, <1>9, <2>1, Takes DEF HandleAnswer
  <2> QED BY <1>3, <1>5, <2>1, <2>2, MailNext
<1> QED BY <1>6, <1>7, <1>8, <1>9 DEF Signaling

LEMMA ServerMail ==
    ASSUME TypeOK, Known, Mail,
           \/ RoomJoined
           \/ \E lost \in SUBSET Tab : RoomEnds(lost)
           \/ \E t \in Tab : Meet(t) \/ Back(t) \/ (Now > 0 /\ Reload(t))
    PROVE  Mail'
<1>1. CASE RoomJoined
  <2> DEFINE c == creator[Now]
             o == Other(c)
  <2>1. /\ Now # 0 /\ c \in Tab /\ o \in Tab /\ o # c /\ inbox[o] \in {<<>>, <<Offer>>}
        /\ UNCHANGED <<creator, end>> /\ ~confirm'
    BY <1>1, NowFacts, TabFacts DEF RoomJoined, Mail, pcVars
  <2>2. inbox' = [inbox EXCEPT ![o] = Append(@, Joined)] /\ inbox \in [Tab -> Seq(Letter)]
    BY <1>1, TypedIsTypeOK DEF RoomJoined, Joined, Typed
  <2>3. inbox'[c] = inbox[c] /\ inbox'[o] = Append(inbox[o], Joined)
    <3> HIDE DEF c, o
    <3> QED BY <2>1, <2>2
  <2>4. Append(<<>>, Joined) = <<Joined>> /\ Append(<<Offer>>, Joined) = <<Offer, Joined>>
    BY Pairs, Singles
  <2>5. /\ \/ inbox[c] = <<>>
           \/ inbox[c] = <<PeerJoined>> /\ end[Sender] = "none" /\ end[Receiver] = "none"
           \/ \E p \in PC : inbox[c] = <<Msg("answer", p)>> /\ end[p] # "none"
        /\ \/ inbox[o] \in {<<>>, <<Joined>>}
           \/ /\ inbox[o] \in WithOffer /\ inbox[c] = <<>>
              /\ end[Sender] # "none" /\ end[Receiver] = "none"
    BY <2>1 DEF Mail
  <2>6. <<Offer>> # <<>> /\ <<Offer>> # <<Joined>>
    <3>1. Offer # Joined
      BY DEF Offer, Joined, Msg
    <3> QED BY <3>1, Singles
  <2>7. \/ inbox'[o] \in {<<>>, <<Joined>>}
        \/ /\ inbox'[o] \in WithOffer /\ inbox'[c] = <<>>
           /\ end'[Sender] # "none" /\ end'[Receiver] = "none"
    BY <2>1, <2>3, <2>4, <2>5, <2>6 DEF WithOffer
  <2> QED BY <2>1, <2>3, <2>5, <2>7, MailNext
<1>2. ASSUME NEW lost \in SUBSET Tab, RoomEnds(lost) PROVE Mail'
  <2>1. \A t \in Tab : inbox'[t] = inbox[t] \/ inbox'[t] = <<>>
    BY <1>2 DEF RoomEnds
  <2>2. UNCHANGED <<creator, end>> /\ (confirm' => confirm)
    BY <1>2 DEF RoomEnds, pcVars
  <2> QED BY <2>1, <2>2, MailKept
<1>3. ASSUME NEW c \in Tab, Meet(c) PROVE Mail'
  <2> DEFINE n == Now + 1
             o == Other(c)
             m == Msg("peer-joined", <<n, "sender">>)
  <2>1. Now \in Nat /\ n \in 1..MaxRooms /\ n # 0 /\ o \in Tab /\ o # c
    BY <1>3, NowFacts, PairFacts, TabFacts DEF Meet
  <2>2. /\ creator' = Append(creator, c) /\ creator \in Seq(Tab)
        /\ inbox' = [inbox EXCEPT ![c] = <<m>>] /\ UNCHANGED end
        /\ \A t \in Tab : inbox[t] = <<>>
    BY <1>3 DEF Meet, TypeOK, pcVars
  <2>3. Now' = n /\ creator'[n] = c
    BY <2>1, <2>2 DEF Now
  <2>4. inbox'[c] = <<m>> /\ inbox'[o] = <<>>
    <3>1. inbox \in [Tab -> Seq(Letter)]
      BY TypedIsTypeOK DEF Typed
    <3> HIDE DEF m
    <3> QED BY <2>1, <2>2, <3>1
  <2>5. /\ Sender' = <<n, "sender">> /\ Receiver' = <<n, "receiver">> /\ PeerJoined' = m
        /\ creator'[Now'] = c /\ Other(creator'[Now']) = o
    BY <2>3 DEF Sender, Receiver, PeerJoined, Msg
  <2>6. end'[<<n, "sender">>] = "none" /\ end'[<<n, "receiver">>] = "none"
    <3>1. ASSUME NEW p \in PC, p[1] = n PROVE end[p] = "none"
      <4>1. ~(n <= Now)
        BY <2>1
      <4> HIDE DEF n
      <4> QED BY <3>1, <4>1 DEF Known
    <3>2. <<n, "sender">> \in PC /\ <<n, "receiver">> \in PC
          /\ <<n, "sender">>[1] = n /\ <<n, "receiver">>[1] = n
      BY <2>1, PairFacts
    <3> HIDE DEF n
    <3> QED BY <2>2, <3>1, <3>2
  <2>7. /\ inbox'[c] = <<PeerJoined'>> /\ end'[Sender'] = "none" /\ end'[Receiver'] = "none"
        /\ inbox'[o] = <<>>
    BY <2>4, <2>5, <2>6
  <2>8. Now' # 0
    BY <2>1, <2>3
  <2> HIDE DEF o, m, n
  <2> QED BY <2>5, <2>7, <2>8 DEF Mail
<1>4. ASSUME NEW t \in Tab, Back(t) PROVE Mail'
  <2>1. UNCHANGED <<creator, inbox, confirm, end>>
    BY <1>4 DEF Back, serverVars, pcVars
  <2> QED BY <2>1, MailKept
<1>5. ASSUME NEW t \in Tab, Reload(t) PROVE Mail'
  <2>1. inbox' = [inbox EXCEPT ![t] = <<>>] /\ inbox \in [Tab -> Seq(Letter)]
        /\ UNCHANGED creator /\ (confirm' => confirm)
    BY <1>5, TypedIsTypeOK DEF Reload, Typed
  <2>2. \A u \in Tab : inbox'[u] = inbox[u] \/ inbox'[u] = <<>>
    BY <2>1
  <2>3. \A p \in PC : end'[p] = "none" <=> end[p] = "none"
    BY <1>5 DEF Reload, TypeOK
  <2> QED BY <2>1, <2>2, <2>3, MailKept
<1> QED BY <1>1, <1>2, <1>3, <1>4, <1>5

(* Steps of a connection leave the inboxes alone, or empty one.            *)
LEMMA ConnectionMail ==
    ASSUME Inv,
           \/ \E t \in Tab :
                 \/ CancelClick(t) \/ CloseTimer(t)
                 \/ \E b \in hashing[t] : HashDone(t, b)
                 \/ \E loop \in sending[t] : SendLoopEnds(t, loop)
           \/ \E p \in PC : OnDataChannelOpen(p) \/ OnDataChannelClose(p) \/ Messages(p)
    PROVE  Mail'
<1>1. TypeOK /\ Typed /\ Known /\ Fresh /\ Opened /\ Files /\ Mail
  BY TypedIsTypeOK DEF Inv, Core
<1>0. wire \in Wires /\ inbox \in [Tab -> Seq(Letter)]
  BY <1>1 DEF Typed
<1>2. ASSUME NEW t \in Tab, NEW causes \in SUBSET PC, NEW on \in Wires,
             \A p \in causes : end[p] # "none", CancelTransfer(t, causes, on)
      PROVE  Mail'
  <2>1. UNCHANGED <<creator, confirm>> /\ inbox' = [inbox EXCEPT ![t] = <<>>]
        /\ Close(t, causes, on)
    BY <1>2 DEF CancelTransfer
  <2>2. \A u \in Tab : inbox'[u] = inbox[u] \/ inbox'[u] = <<>>
    BY <1>0, <2>1
  <2>3. \A p \in PC : end'[p] = "none" <=> end[p] = "none"
    BY <1>1, <1>2, <2>1, CloseFields
  <2> QED BY <1>1, <2>1, <2>2, <2>3, MailKept
<1>3. ASSUME NEW t \in Tab, NEW causes \in SUBSET PC, NEW on \in Wires,
             \A p \in causes : end[p] # "none", Close(t, causes, on), UNCHANGED serverVars
      PROVE  Mail'
  <2>1. \A p \in PC : end'[p] = "none" <=> end[p] = "none"
    BY <1>1, <1>3, CloseFields
  <2> QED BY <1>1, <1>3, <2>1, MailKept DEF serverVars
<1>4. ASSUME NEW p \in PC, end[p] = "open", wire[p] # <<>>
      PROVE  Rest(p) \in Wires /\ TabOf(p) \in Tab
  BY <1>1, <1>4, RestFiles, OwnTab DEF Known
<1>5. ASSUME NEW t \in Tab
      PROVE  Held(t) \in SUBSET PC /\ \A q \in Held(t) : end[q] # "none"
  BY <1>1, HeldFacts DEF Fresh
<1>6. ASSUME NEW t \in Tab, CancelClick(t) PROVE Mail'
  <2> DEFINE m == Msg("transfer-cancelled", NoPC)
             on == Transmit(wire, dataChannel[t], <<m>>)
             held == Held(t)
  <2>1. m \in Message /\ m.type # "file" /\ dataChannel[t] \in PC \cup {NoPC} /\ FilesOn(wire)
    BY <1>1, LetterTypes DEF Msg, Typed, Files
  <2>2. on \in Wires
    <3> HIDE DEF m
    <3> QED BY <1>0, <1>1, <2>1, TransmitFiles
  <2>3. CancelTransfer(t, held, on)
    BY <1>6 DEF CancelClick
  <2>4. held \in SUBSET PC /\ \A q \in held : end[q] # "none"
    BY <1>5
  <2> HIDE DEF held, on
  <2> QED BY <1>2, <2>2, <2>3, <2>4
<1>7. ASSUME NEW t \in Tab, CloseTimer(t) PROVE Mail'
  <2> DEFINE causes == {Head(timers[t])} \cap Held(t)
  <2>1. Close(t, causes, wire) /\ causes \in SUBSET PC /\ \A q \in causes : end[q] # "none"
    BY <1>5, <1>7 DEF CloseTimer
  <2>2. UNCHANGED serverVars
    BY <1>7 DEF CloseTimer
  <2> HIDE DEF causes
  <2> QED BY <1>0, <1>3, <2>1, <2>2
<1>8. ASSUME NEW t \in Tab,
             \/ \E b \in hashing[t] : HashDone(t, b)
             \/ \E loop \in sending[t] : SendLoopEnds(t, loop)
      PROVE  Mail'
  <2>1. UNCHANGED <<creator, confirm, inbox, end>>
    BY <1>8 DEF HashDone, SendLoopEnds, serverVars, pcVars
  <2> QED BY <1>1, <2>1, MailKept
<1>9. ASSUME NEW p \in PC, OnDataChannelOpen(p) PROVE Mail'
  <2>1. UNCHANGED serverVars /\ end' = [end EXCEPT ![p] = "open"]
        /\ end[p] \in {"connecting", "waiting"}
    BY <1>9 DEF OnDataChannelOpen
  <2>2. \A q \in PC : end'[q] = "none" <=> end[q] = "none"
    BY <1>1, <2>1 DEF Typed
  <2> QED BY <1>1, <2>1, <2>2, MailKept DEF serverVars
<1>10. ASSUME NEW p \in PC, OnDataChannelClose(p) PROVE Mail'
  <2>1. end[p] # "none" /\ TabOf(p) \in Tab
    BY <1>1, <1>10, OwnTab DEF OnDataChannelClose, Known
  <2>2. CASE CancelTransfer(TabOf(p), {p}, wire)
    BY <1>0, <1>2, <2>1, <2>2
  <2>3. CASE end' = [end EXCEPT ![p] = "closed"] /\ UNCHANGED serverVars
    <3>1. \A q \in PC : end'[q] = "none" <=> end[q] = "none"
      BY <1>1, <2>1, <2>3 DEF Typed
    <3> QED BY <1>1, <2>3, <3>1, MailKept DEF serverVars
  <2> QED BY <1>10, <2>2, <2>3 DEF OnDataChannelClose
<1>11. ASSUME NEW p \in PC, Messages(p) PROVE Mail'
  <2> DEFINE t == TabOf(p)
             causes == {p} \cap Held(t)
  <2>1. end[p] = "open" /\ wire[p] # <<>>
    BY <1>11 DEF Messages, HandleBatchStart, HandleFile, HandleBatchComplete,
                 HandleTransferCancelled, Arrives
  <2>2. Rest(p) \in Wires /\ t \in Tab /\ end[p] # "none"
    BY <1>4, <2>1
  <2>3. causes \in SUBSET PC /\ \A q \in causes : end[q] # "none"
    BY <2>2
  <2>4. \/ UNCHANGED <<creator, confirm, inbox, end>>
        \/ UNCHANGED serverVars /\ Close(t, causes, Rest(p))
        \/ CancelTransfer(t, causes, Rest(p))
    BY <1>11 DEF Messages, HandleBatchStart, HandleFile, HandleBatchComplete,
                 HandleTransferCancelled, serverVars
  <2> HIDE DEF t, causes
  <2>5. CASE UNCHANGED <<creator, confirm, inbox, end>>
    BY <1>1, <2>5, MailKept
  <2>6. CASE UNCHANGED serverVars /\ Close(t, causes, Rest(p))
    BY <1>3, <2>2, <2>3, <2>6
  <2>7. CASE CancelTransfer(t, causes, Rest(p))
    BY <1>2, <2>2, <2>3, <2>7
  <2> QED BY <2>4, <2>5, <2>6, <2>7
<1> QED BY <1>6, <1>7, <1>8, <1>9, <1>10, <1>11

-----------------------------------------------------------------------------
(* Every step keeps the rest of the invariant.                             *)

(* A tab makes one connection in a room.                                   *)
LEMMA SameRoom ==
    ASSUME TypeOK, Known, NEW p \in PC, NEW q \in PC, p[1] = q[1], p[1] <= Now,
           TabOf(p) = TabOf(q)
    PROVE  p = q
<1> DEFINE c == creator[p[1]]
<1>1. c \in Tab /\ Other(c) # c
  BY OwnTab, TabFacts
<1>2. p[2] = q[2]
  BY <1>1, PairFacts DEF TabOf
<1> QED BY <1>2, PairFacts

(* initialize(), whatever else of the negotiation it comes with.           *)
LEMMA InitializeStep ==
    ASSUME Inv, NEW t \in Tab, NEW p \in PC, end[p] = "none", p[1] = Now, TabOf(p) = t,
           Initialize(t, p),
           \/ UNCHANGED remote
           \/ \E q \in PC : end[q] # "none" /\ remote' = [remote EXCEPT ![p] = q],
           UNCHANGED <<creator, room, transferVars, wire, disturbed>>
    PROVE  Core'
<1>1. TypeOK /\ Core
  BY DEF Inv
<1>2. /\ isSender'[t] = (p[2] = "sender") /\ rtc'[t] = p /\ dataChannel'[t] \in {dataChannel[t], p}
      /\ \A u \in Tab \ {t} : /\ isSender'[u] = isSender[u] /\ rtc'[u] = rtc[u]
                              /\ dataChannel'[u] = dataChannel[u]
      /\ end'[p] \in {"connecting", "waiting"}
      /\ \A q \in PC \ {p} : end'[q] = end[q]
      /\ leaky' = IF rtc[t] = NoPC THEN leaky ELSE leaky \cup {t}
      /\ clean' = IF Idle(t) THEN clean \cup {p} ELSE clean
  BY <1>1 DEF Initialize, TypeOK
<1>3. /\ \A q \in PC \ {p} : remote'[q] = remote[q]
      /\ remote'[p] = remote[p] \/ \E q \in PC : end[q] # "none" /\ remote'[p] = q
  BY <1>1 DEF TypeOK
<1>h. /\ Held(t)' \subseteq Held(t) \cup {p}
      /\ \A u \in Tab \ {t} : Held(u)' = Held(u)
  BY <1>2 DEF Held
<1>4. Now' = Now /\ \A q : TabOf(q)' = TabOf(q)
  BY SameTab
<1>5. UNCHANGED <<room, hashing, sending, timers, wire, disturbed>>
  BY DEF transferVars
<1>6. /\ p \notin clean /\ p \notin disturbed /\ remote[p] = NoPC
      /\ \A q \in PC : remote[q] # p
      /\ \A u \in Tab : p \notin Held(u) /\ \A loop \in sending[u] : loop[2] # p
  BY <1>1 DEF Core, Fresh
<1>7. Now \in Nat
  BY <1>1, NowFacts DEF Core
<1>8. clean \cap Held(t) = {}
  <2> SUFFICES ASSUME NEW q \in clean \cap Held(t) PROVE FALSE
    OBVIOUS
  <2>1. q[1] = Now /\ q \in PC /\ TabOf(q) = t
    BY <1>1, HeldFacts DEF Core, Alone, Own
  <2>2. q = p
    BY <1>1, <1>7, <2>1, SameRoom DEF Core
  <2> QED BY <1>6, <2>2
<1>9. Known'
  BY <1>1, <1>2, <1>4, <1>5, <1>7 DEF Core, Known
<1>10. Fresh'
  <2> SUFFICES ASSUME NEW q \in PC, end'[q] = "none"
               PROVE  /\ q \notin clean' /\ q \notin disturbed' /\ remote'[q] = NoPC
                      /\ \A r \in PC : remote'[r] # q
                      /\ \A u \in Tab : q \notin Held(u)' /\ \A loop \in sending'[u] : loop[2] # q
    BY DEF Fresh
  <2>1. q # p /\ end[q] = "none"
    BY <1>2
  <2>2. /\ q \notin clean /\ q \notin disturbed /\ remote[q] = NoPC
        /\ \A r \in PC : remote[r] # q
        /\ \A u \in Tab : q \notin Held(u) /\ \A loop \in sending[u] : loop[2] # q
    BY <1>1, <2>1 DEF Core, Fresh
  <2>3. \A r \in PC : remote'[r] # q
    BY <1>3, <2>1, <2>2
  <2> QED BY <1>2, <1>3, <1>5, <1>h, <2>1, <2>2, <2>3
<1>11. Own'
  <2> SUFFICES ASSUME NEW u \in Tab
               PROVE  /\ \A q \in Held(u)' : TabOf(q) = u
                      /\ \A loop \in sending'[u] : TabOf(loop[2]) = u
                      /\ rtc'[u] # NoPC => (isSender'[u] <=> rtc'[u][2] = "sender")
    BY <1>4 DEF Own
  <2>1. /\ \A q \in Held(u) : TabOf(q) = u
        /\ \A loop \in sending[u] : TabOf(loop[2]) = u
        /\ rtc[u] # NoPC => (isSender[u] <=> rtc[u][2] = "sender")
    BY <1>1 DEF Core, Own
  <2>2. (\A q \in Held(u)' : TabOf(q) = u) /\ \A loop \in sending'[u] : TabOf(loop[2]) = u
    BY <1>5, <1>h, <2>1
  <2>3. rtc'[u] # NoPC => (isSender'[u] <=> rtc'[u][2] = "sender")
    <3>1. CASE u = t
      BY <1>2, <3>1
    <3>2. CASE u # t
      <4>1. isSender'[u] = isSender[u] /\ rtc'[u] = rtc[u]
        BY <1>2, <3>2
      <4> QED BY <2>1, <4>1
    <3> QED BY <3>1, <3>2
  <2> QED BY <2>2, <2>3
<1>12. Opened'
  BY <1>1, <1>2, <1>3 DEF Core, Opened
<1>13. Tight'
  <2> SUFFICES ASSUME NEW u \in Tab, u \notin leaky'
               PROVE  /\ dataChannel'[u] \in {NoPC, rtc'[u]}
                      /\ \A q \in PC : end'[q] \in {"connecting", "waiting", "open"} /\ TabOf(q) = u
                             => rtc'[u] = q
    BY <1>4 DEF Tight
  <2>1. u \notin leaky /\ (u = t => rtc[u] = NoPC)
    BY <1>2
  <2>2. /\ dataChannel[u] \in {NoPC, rtc[u]}
        /\ \A q \in PC : end[q] \in {"connecting", "waiting", "open"} /\ TabOf(q) = u
               => rtc[u] = q
    BY <1>1, <2>1 DEF Core, Tight
  <2> QED BY <1>2, <2>1, <2>2, PairFacts
<1>14. Loops'
  <2> SUFFICES ASSUME NEW u \in Tab, NEW loop \in sending[u], loop[2] \in clean'
               PROVE  loop[1] = loop[2]
    BY <1>5 DEF Loops
  <2>1. loop[2] \in clean
    BY <1>2, <1>6
  <2> QED BY <1>1, <2>1 DEF Core, Loops
<1>15. Alive'
  <2> SUFFICES ASSUME NEW q \in clean'
               PROVE  end'[q] \in {"closing", "closed"} \/ rtc'[TabOf(q)] = q
    BY <1>4 DEF Alive
  <2>1. CASE q = p
    BY <1>2, <2>1
  <2>2. CASE q # p
    <3>1. q \in clean /\ q \in PC /\ end'[q] = end[q] /\ TabOf(q) \in Tab
      <4>1. q \in clean /\ q \in PC
        BY <1>1, <1>2, <2>2 DEF TypeOK
      <4> QED BY <1>1, <1>2, <2>2, <4>1, OwnTab DEF Core, Fresh, Known
    <3>2. end[q] \in {"closing", "closed"} \/ rtc[TabOf(q)] = q
      BY <1>1, <3>1 DEF Core, Alive
    <3>3. CASE rtc[TabOf(q)] = q
      <4>1. q \in Held(TabOf(q))
        BY <3>1, <3>3, PairFacts DEF Held
      <4>2. TabOf(q) # t
        BY <1>8, <3>1, <4>1
      <4> QED BY <1>2, <3>1, <3>3, <4>2
    <3> QED BY <3>1, <3>2, <3>3
  <2> QED BY <2>1, <2>2
<1>16. Alone'
  <2> SUFFICES ASSUME NEW u \in Tab, NEW q \in clean' \cap Held(u)'
               PROVE  /\ q[1] = Now /\ rtc'[u] = q /\ dataChannel'[u] \in {NoPC, q}
                      /\ \A r \in PC : end'[r] \notin {"none", "closed"} /\ TabOf(r) = u => r = q
                      /\ hashing[u] \subseteq {q} /\ (hashing[u] # {} => isSender'[u])
                      /\ \A i \in 1..Len(timers[u]) : timers[u][i] = q
    BY <1>4, <1>5 DEF Alone
  <2>1. CASE u # t
    <3>1. q \in clean \cap Held(u)
      BY <1>2, <1>6, <1>h, <2>1
    <3>2. /\ q[1] = Now /\ rtc[u] = q /\ dataChannel[u] \in {NoPC, q}
          /\ \A r \in PC : end[r] \notin {"none", "closed"} /\ TabOf(r) = u => r = q
          /\ hashing[u] \subseteq {q} /\ (hashing[u] # {} => isSender[u])
          /\ \A i \in 1..Len(timers[u]) : timers[u][i] = q
      BY <1>1, <3>1 DEF Core, Alone
    <3> QED BY <1>2, <2>1, <3>2
  <2>2. CASE u = t
    <3>1. q = p /\ Idle(t)
      BY <1>2, <1>6, <1>8, <1>h, <2>2
    <3>2. /\ rtc[t] = NoPC /\ hashing[t] = {} /\ timers[t] = <<>> /\ t \notin leaky
          /\ \A r \in PC : end[r] = "closing" => TabOf(r) # t
      BY <3>1 DEF Idle
    <3>3. /\ dataChannel[t] = NoPC
          /\ \A r \in PC : end[r] \in {"connecting", "waiting", "open"} => TabOf(r) # t
      BY <1>1, <3>2, PairFacts DEF Core, Tight
    <3>4. 1..Len(timers[t]) = {}
      BY <3>2
    <3>5. \A r \in PC : end'[r] \notin {"none", "closed"} /\ TabOf(r) = t => r = p
      <4>1. \A r \in PC : end[r] \in {"none", "connecting", "waiting", "open", "closing", "closed"}
        BY <1>1 DEF TypeOK
      <4> QED BY <1>2, <3>2, <3>3, <4>1
    <3> QED BY <1>2, <2>2, <3>1, <3>2, <3>3, <3>4, <3>5
  <2> QED BY <2>1, <2>2
<1>17. Files'
  <2> SUFFICES ASSUME NEW q \in PC, NEW i \in 1..Len(wire[q]), wire[q][i].type = "file"
               PROVE  /\ remote'[q] # NoPC
                      /\ remote'[q] \in clean' => wire[q][i].pc = remote'[q]
    BY <1>5 DEF Files, FilesOn
  <2>1. remote[q] # NoPC /\ (remote[q] \in clean => wire[q][i].pc = remote[q])
    BY <1>1 DEF Core, Files, FilesOn
  <2>2. q # p /\ remote'[q] = remote[q] /\ remote[q] # p
    BY <1>3, <1>6, <2>1
  <2> QED BY <1>2, <2>1, <2>2
<1>18. IdleStartsClean'
  BY <1>1, <1>2, <1>5, <1>6 DEF Core, IdleStartsClean
<1> QED BY <1>9, <1>10, <1>11, <1>12, <1>13, <1>14, <1>15, <1>16, <1>17, <1>18 DEF Core

(* A step that neither makes nor closes a connection: it may set the peer  *)
(* of one, take or send messages, and start or end parts of a batch.       *)
LEMMA KeepStep ==
    ASSUME Inv, TypeOK', UNCHANGED <<creator, managerVars, end, leaky, clean>>, room' <= Now,
           \/ UNCHANGED remote
           \/ \E x, q \in PC : /\ end[x] # "none" /\ end[q] # "none"
                               /\ remote' = [remote EXCEPT ![x] = q],
           \A x \in disturbed' \ disturbed : end[x] # "none" /\ x \notin clean,
           \A p \in PC : \A i \in 1..Len(wire'[p]) : wire'[p][i].type = "file" =>
               /\ remote'[p] # NoPC
               /\ remote'[p] \in clean => wire'[p][i].pc = remote'[p],
           \A u \in Tab : \A loop \in sending'[u] \ sending[u] :
               loop[2] \in Held(u) /\ (loop[2] \in clean => loop[1] = loop[2]),
           \A u \in Tab : hashing'[u] \subseteq hashing[u],
           \A u \in Tab : \/ timers'[u] = timers[u]
                          \/ \E b \in PC : /\ timers'[u] = Append(timers[u], b)
                                           /\ \A p \in clean \cap Held(u) : b = p
    PROVE  Core'
<1>1. TypeOK /\ Core /\ UNCHANGED <<rtc, dataChannel, isSender>>
  BY DEF Inv, managerVars
<1>h. \A u \in Tab : Held(u)' = Held(u)
  BY <1>1 DEF Held
<1>2. Now' = Now /\ \A q : TabOf(q)' = TabOf(q)
  BY SameTab
<1>3. /\ \A r \in PC : remote[r] # NoPC => remote'[r] # NoPC
      /\ \A r \in PC : remote'[r] = remote[r]
                       \/ (end[r] # "none" /\ \E q \in PC : end[q] # "none" /\ remote'[r] = q)
  BY <1>1, PairFacts DEF TypeOK
<1>4. Known'
  BY <1>1, <1>2 DEF Core, Known
<1>5. Fresh'
  <2> SUFFICES ASSUME NEW q \in PC, end[q] = "none"
               PROVE  /\ q \notin clean' /\ q \notin disturbed' /\ remote'[q] = NoPC
                      /\ \A r \in PC : remote'[r] # q
                      /\ \A u \in Tab : q \notin Held(u)' /\ \A loop \in sending'[u] : loop[2] # q
    BY DEF Fresh
  <2>2. /\ q \notin clean /\ q \notin disturbed /\ remote[q] = NoPC
        /\ \A r \in PC : remote[r] # q
        /\ \A u \in Tab : q \notin Held(u) /\ \A loop \in sending[u] : loop[2] # q
    BY <1>1 DEF Core, Fresh
  <2>3. remote'[q] = NoPC /\ \A r \in PC : remote'[r] # q
    BY <1>3, <2>2
  <2>4. \A u \in Tab : q \notin Held(u)' /\ \A loop \in sending'[u] : loop[2] # q
    BY <1>h, <2>2
  <2> QED BY <2>2, <2>3, <2>4
<1>6. Own'
  <2> SUFFICES ASSUME NEW u \in Tab
               PROVE  /\ \A q \in Held(u)' : TabOf(q) = u
                      /\ \A loop \in sending'[u] : TabOf(loop[2]) = u
                      /\ rtc'[u] # NoPC => (isSender'[u] <=> rtc'[u][2] = "sender")
    BY <1>2 DEF Own
  <2>1. /\ \A q \in Held(u) : TabOf(q) = u
        /\ \A loop \in sending[u] : TabOf(loop[2]) = u
        /\ rtc[u] # NoPC => (isSender[u] <=> rtc[u][2] = "sender")
    BY <1>1 DEF Core, Own
  <2> QED BY <1>1, <1>h, <2>1
<1>7. Opened'
  BY <1>1, <1>3 DEF Core, Opened
<1>8. Tight'
  BY <1>1, <1>2 DEF Core, Tight
<1>9. Loops'
  <2> SUFFICES ASSUME NEW u \in Tab, NEW loop \in sending'[u], loop[2] \in clean
               PROVE  loop[1] = loop[2]
    BY DEF Loops
  <2> QED BY <1>1 DEF Core, Loops
<1>10. Alive'
  BY <1>1, <1>2 DEF Core, Alive
<1>11. Alone'
  <2> SUFFICES ASSUME NEW u \in Tab, NEW q \in clean \cap Held(u)
               PROVE  /\ q[1] = Now /\ rtc[u] = q /\ dataChannel[u] \in {NoPC, q}
                      /\ \A r \in PC : end[r] \notin {"none", "closed"} /\ TabOf(r) = u => r = q
                      /\ hashing'[u] \subseteq {q} /\ (hashing'[u] # {} => isSender[u])
                      /\ \A i \in 1..Len(timers'[u]) : timers'[u][i] = q
    <3>1. \A u \in Tab : (clean \cap Held(u))' = clean \cap Held(u)
      BY <1>h
    <3> QED BY <1>1, <1>2, <3>1 DEF Alone
  <2>1. /\ q[1] = Now /\ rtc[u] = q /\ dataChannel[u] \in {NoPC, q}
        /\ \A r \in PC : end[r] \notin {"none", "closed"} /\ TabOf(r) = u => r = q
        /\ hashing[u] \subseteq {q} /\ (hashing[u] # {} => isSender[u])
        /\ \A i \in 1..Len(timers[u]) : timers[u][i] = q
    BY <1>1 DEF Core, Alone
  <2>2. hashing'[u] \subseteq {q} /\ (hashing'[u] # {} => isSender[u])
    BY <2>1
  <2>3. \A i \in 1..Len(timers'[u]) : timers'[u][i] = q
    <3>1. CASE timers'[u] = timers[u]
      BY <2>1, <3>1
    <3>2. ASSUME NEW b \in PC, timers'[u] = Append(timers[u], b), b = q
          PROVE  \A i \in 1..Len(timers'[u]) : timers'[u][i] = q
      <4>1. timers[u] \in Seq(PC)
        BY <1>1 DEF TypeOK
      <4>2. \A i \in 1..Len(Append(timers[u], b)) :
                (i \in 1..Len(timers[u]) /\ Append(timers[u], b)[i] = timers[u][i])
                \/ Append(timers[u], b)[i] = b
        BY <4>1
      <4> QED BY <2>1, <3>2, <4>2
    <3> QED BY <3>1, <3>2
  <2> QED BY <2>1, <2>2, <2>3
<1>12. Files'
  BY DEF Files, FilesOn
<1>13. IdleStartsClean'
  BY <1>1 DEF Core, IdleStartsClean
<1> QED BY <1>4, <1>5, <1>6, <1>7, <1>8, <1>9, <1>10, <1>11, <1>12, <1>13 DEF Core

LEMMA KnownEnds ==
    ASSUME Inv
    PROVE  /\ \A t \in Tab : \A q \in Held(t) : q \in PC /\ end[q] # "none" /\ TabOf(q) = t
           /\ \A t \in Tab : rtc[t] # NoPC => rtc[t] \in Held(t)
           /\ \A t \in Tab : dataChannel[t] # NoPC => dataChannel[t] \in Held(t)
           /\ \A p \in PC : end[p] # "none" => TabOf(p) \in Tab
           /\ \A t \in Tab, p \in PC, x \in clean :
                  x \in Held(t) /\ end[p] \notin {"none", "closed"} /\ TabOf(p) = t => x = p
           /\ wire \in Wires /\ FilesOn(wire)
<1>1. TypeOK /\ Core
  BY DEF Inv
<1>2. \A t \in Tab : \A q \in Held(t) : q \in PC /\ end[q] # "none" /\ TabOf(q) = t
  BY <1>1, HeldFacts DEF Core, Own, Fresh
<1>3. /\ \A t \in Tab : rtc[t] # NoPC => rtc[t] \in Held(t)
      /\ \A t \in Tab : dataChannel[t] # NoPC => dataChannel[t] \in Held(t)
  BY DEF Held
<1>4. \A p \in PC : end[p] # "none" => TabOf(p) \in Tab
  BY <1>1, OwnTab DEF Core, Known
<1>5. \A t \in Tab, p \in PC, x \in clean :
          x \in Held(t) /\ end[p] \notin {"none", "closed"} /\ TabOf(p) = t => x = p
  BY <1>1 DEF Core, Alone
<1>6. wire \in Wires /\ FilesOn(wire)
  BY <1>1, TypedIsTypeOK DEF Core, Typed, Files
<1> QED BY <1>2, <1>3, <1>4, <1>5, <1>6

LEMMA SignalingCore ==
    ASSUME Inv, TypeOK', NEW t \in Tab, Signaling(t)
    PROVE  Core'
<1>1. TypeOK /\ Core /\ Known /\ Fresh /\ Mail
  BY DEF Inv, Core
<1>2. inbox[t] # <<>>
  BY DEF Signaling, OnPeerJoined, OnRoomJoined, HandleOffer, HandleAnswer, Gets
<1>3. /\ Now \in Nat /\ Sender \in PC /\ Receiver \in PC /\ Sender[1] = Now /\ Receiver[1] = Now
      /\ TabOf(Sender) = creator[Now] /\ TabOf(Receiver) = Other(creator[Now])
  BY <1>1, <1>2, Letters, NowFacts
<1>4. /\ PeerJoined.type = "peer-joined" /\ PeerJoined.pc = Sender
      /\ Offer.type = "offer" /\ Offer.pc = Sender /\ Joined.type = "room-joined"
      /\ \A p : Msg("answer", p).type = "answer" /\ Msg("answer", p).pc = p
  BY DEF PeerJoined, Offer, Joined, Msg
<1>5. /\ \A p \in PC : \A i \in 1..Len(wire[p]) : wire[p][i].type = "file" =>
             /\ remote[p] # NoPC
             /\ remote[p] \in clean => wire[p][i].pc = remote[p]
      /\ room <= Now
  BY <1>1 DEF Core, Known, Files, FilesOn
<1>k. ASSUME UNCHANGED <<creator, room, transferVars, wire, disturbed, managerVars, end, remote,
                         leaky, clean>>
      PROVE  Core'
  <2>1. UNCHANGED <<wire, remote, disturbed, sending, hashing, timers, room>>
    BY <1>k DEF transferVars
  <2> QED BY <1>5, <1>k, <2>1, KeepStep
<1>6. CASE OnPeerJoined(t)
  <2>1. Head(inbox[t]) = PeerJoined /\ t = creator[Now] /\ end[Sender] = "none"
    BY <1>1, <1>2, <1>4, <1>6, Letters DEF OnPeerJoined, Gets
  <2>2. Initialize(t, Sender)
    BY <1>4, <1>6, <2>1 DEF OnPeerJoined
  <2>3. UNCHANGED <<creator, room, transferVars, wire, disturbed, remote>>
    BY <1>6 DEF OnPeerJoined
  <2> QED BY <1>3, <2>1, <2>2, <2>3, InitializeStep
<1>7. CASE OnRoomJoined(t)
  BY <1>k, <1>7 DEF OnRoomJoined, pcVars, historyVars
<1>8. CASE HandleOffer(t)
  <2>1. /\ t = Other(creator[Now]) /\ Head(inbox[t]).pc = Sender
        /\ end[Sender] # "none" /\ end[Receiver] = "none"
    BY <1>1, <1>2, <1>4, <1>8, Letters DEF HandleOffer, Gets
  <2>2. UNCHANGED <<creator, room, transferVars, disturbed>>
    BY <1>8 DEF HandleOffer
  <2>3. CASE /\ Initialize(t, Receiver)
             /\ remote' = [remote EXCEPT ![Receiver] = Sender]
             /\ UNCHANGED wire
    BY <1>3, <2>1, <2>2, <2>3, InitializeStep
  <2>4. CASE /\ rtc[t] # NoPC
             /\ remote' = [remote EXCEPT ![rtc[t]] = Sender]
             /\ wire' = [wire EXCEPT ![rtc[t]] = <<>>]
             /\ UNCHANGED <<managerVars, end, leaky, clean>>
    <3> DEFINE x == rtc[t]
               none == <<>>
    <3>1. x \in PC /\ end[x] # "none"
      BY <2>4, KnownEnds
    <3>2. 1..Len(none) = {} /\ wire' = [wire EXCEPT ![x] = none]
      BY <2>4
    <3>3. remote' = [remote EXCEPT ![x] = Sender] /\ wire \in Wires /\ remote \in [PC -> PC \cup {NoPC}]
      BY <1>1, <2>4, KnownEnds DEF TypeOK
    <3> HIDE DEF x, none
    <3>4. \A p \in PC : \A i \in 1..Len(wire'[p]) : wire'[p][i].type = "file" =>
              /\ remote'[p] # NoPC
              /\ remote'[p] \in clean => wire'[p][i].pc = remote'[p]
      <4> SUFFICES ASSUME NEW p \in PC, NEW i \in 1..Len(wire'[p]), wire'[p][i].type = "file"
                   PROVE  /\ remote'[p] # NoPC
                          /\ remote'[p] \in clean => wire'[p][i].pc = remote'[p]
        OBVIOUS
      <4>1. p # x /\ wire'[p] = wire[p] /\ remote'[p] = remote[p]
        BY <3>1, <3>2, <3>3 DEF Wires
      <4> QED BY <1>5, <4>1
    <3>5. UNCHANGED <<disturbed, sending, hashing, timers, room>>
      BY <2>2 DEF transferVars
    <3>6. /\ \E y, q \in PC : /\ end[y] # "none" /\ end[q] # "none"
                            /\ remote' = [remote EXCEPT ![y] = q]
          /\ UNCHANGED <<creator, managerVars, end, leaky, clean>> /\ room' <= Now
      <4>1. Sender \in PC /\ end[Sender] # "none" /\ room' <= Now
        BY <1>3, <1>5, <2>1, <3>5
      <4>2. UNCHANGED <<creator, managerVars, end, leaky, clean>>
        BY <2>2, <2>4
      <4> QED BY <3>1, <3>3, <4>1, <4>2
    <3> QED BY <3>4, <3>5, <3>6, KeepStep
  <2>5. CASE UNCHANGED <<managerVars, pcVars, leaky, clean>>
    BY <1>k, <2>2, <2>5 DEF pcVars
  <2> QED BY <1>3, <1>8, <2>1, <2>3, <2>4, <2>5 DEF HandleOffer, Receiver
<1>9. CASE HandleAnswer(t)
  <2>1. UNCHANGED <<creator, room, managerVars, transferVars, end, wire, historyVars>>
    BY <1>9 DEF HandleAnswer
  <2>2. PICK q \in PC : Head(inbox[t]).pc = q /\ end[q] # "none"
    BY <1>1, <1>2, <1>4, <1>9, Letters DEF HandleAnswer, Gets
  <2>3. CASE rtc[t] # NoPC /\ remote[rtc[t]] = NoPC
    <3> DEFINE x == rtc[t]
    <3>1. x \in PC /\ end[x] # "none" /\ remote[x] = NoPC
      BY <2>3, KnownEnds
    <3>2. remote' = [remote EXCEPT ![x] = q] /\ remote \in [PC -> PC \cup {NoPC}]
      BY <1>1, <1>9, <2>2, <2>3 DEF HandleAnswer, TypeOK
    <3> HIDE DEF x
    <3>3. \A p \in PC : \A i \in 1..Len(wire'[p]) : wire'[p][i].type = "file" =>
              /\ remote'[p] # NoPC
              /\ remote'[p] \in clean => wire'[p][i].pc = remote'[p]
      BY <1>5, <2>1, <3>1, <3>2
    <3>4. UNCHANGED <<disturbed, sending, hashing, timers, room, leaky, clean>>
      BY <2>1 DEF transferVars, historyVars
    <3> QED BY <1>5, <2>1, <2>2, <3>1, <3>2, <3>3, <3>4, KeepStep
  <2>4. CASE ~(rtc[t] # NoPC /\ remote[rtc[t]] = NoPC)
    <3>1. UNCHANGED remote
      BY <1>9, <2>4 DEF HandleAnswer
    <3> QED BY <1>k, <2>1, <3>1 DEF historyVars
  <2> QED BY <2>3, <2>4
<1> QED BY <1>6, <1>7, <1>8, <1>9 DEF Signaling

LEMMA MeetCore ==
    ASSUME Inv, NEW c \in Tab, Meet(c)
    PROVE  Core'
<1>1. TypeOK /\ Core
  BY DEF Inv
<1>2. Now \in Nat /\ Now < MaxRooms /\ MaxRooms \in Nat
  BY <1>1, NowFacts, PairFacts DEF Meet, Core
<1>3. /\ creator' = Append(creator, c) /\ creator \in Seq(Tab) /\ room' = Now + 1
      /\ clean' = clean \ UNION {Held(t) : t \in Tab}
      /\ UNCHANGED <<managerVars, transferVars, pcVars, leaky, disturbed>>
  BY <1>1 DEF Meet, TypeOK
<1>4. UNCHANGED <<rtc, dataChannel, isSender, hashing, sending, timers, remote, end, wire, leaky,
                  disturbed>>
  BY <1>3 DEF managerVars, transferVars, pcVars
<1>5. Now' = Now + 1 /\ \A n \in 1..Now : creator'[n] = creator[n]
  BY <1>2, <1>3 DEF Now
<1>h. /\ \A u \in Tab : Held(u)' = Held(u)
      /\ \A u \in Tab : clean' \cap Held(u) = {}
      /\ clean' \subseteq clean
  BY <1>3, <1>4 DEF Held
<1>6. \A p \in PC : end[p] # "none" => TabOf(p)' = TabOf(p)
  <2> SUFFICES ASSUME NEW p \in PC, end[p] # "none" PROVE TabOf(p)' = TabOf(p)
    OBVIOUS
  <2>1. p[1] \in 1..Now
    BY <1>1, <1>2, PairFacts DEF Core, Known
  <2>2. creator'[p[1]] = creator[p[1]]
    BY <1>5, <2>1
  <2> QED BY <2>2 DEF TabOf
<1>7. Known'
  BY <1>1, <1>2, <1>3, <1>4, <1>5, PairFacts DEF Core, Known
<1>8. Fresh'
  <2> SUFFICES ASSUME NEW q \in PC, end[q] = "none"
               PROVE  /\ q \notin clean' /\ q \notin disturbed /\ remote[q] = NoPC
                      /\ \A r \in PC : remote[r] # q
                      /\ \A u \in Tab : q \notin Held(u) /\ \A loop \in sending[u] : loop[2] # q
    BY <1>4, <1>h DEF Fresh
  <2> QED BY <1>1, <1>h DEF Core, Fresh
<1>9. Own'
  <2> SUFFICES ASSUME NEW u \in Tab
               PROVE  /\ \A p \in Held(u) : TabOf(p)' = u
                      /\ \A loop \in sending[u] : TabOf(loop[2])' = u
                      /\ rtc[u] # NoPC => (isSender[u] <=> rtc[u][2] = "sender")
    <3>1. \A u \in Tab : Held(u)' = Held(u)
      BY <1>h
    <3> QED BY <1>4, <3>1 DEF Own
  <2>1. /\ \A p \in Held(u) : TabOf(p) = u
        /\ \A loop \in sending[u] : TabOf(loop[2]) = u
        /\ rtc[u] # NoPC => (isSender[u] <=> rtc[u][2] = "sender")
    BY <1>1 DEF Core, Own
  <2>2. \A p \in Held(u) : p \in PC /\ end[p] # "none"
    BY KnownEnds
  <2>3. \A loop \in sending[u] : loop[2] \in PC /\ end[loop[2]] # "none"
    <3>1. \A loop \in sending[u] : loop[2] \in PC
      BY <1>1 DEF TypeOK
    <3> QED BY <1>1, <3>1 DEF Core, Fresh
  <2> QED BY <1>6, <2>1, <2>2, <2>3
<1>10. Opened'
  BY <1>1, <1>4 DEF Core, Opened
<1>11. Tight'
  <2> SUFFICES ASSUME NEW u \in Tab, u \notin leaky
               PROVE  /\ dataChannel[u] \in {NoPC, rtc[u]}
                      /\ \A q \in PC : end[q] \in {"connecting", "waiting", "open"} /\ TabOf(q)' = u
                             => rtc[u] = q
    BY <1>4 DEF Tight
  <2> QED BY <1>1, <1>6 DEF Core, Tight
<1>12. Loops'
  BY <1>1, <1>4, <1>h DEF Core, Loops
<1>13. Alive'
  <2> SUFFICES ASSUME NEW p \in clean' PROVE end[p] \in {"closing", "closed"}
    BY <1>4 DEF Alive
  <2>1. p \in PC /\ p \in clean /\ end[p] # "none" /\ TabOf(p) \in Tab
    <3>1. p \in PC /\ p \in clean /\ end[p] # "none"
      BY <1>1, <1>h DEF Core, Fresh, TypeOK
    <3> QED BY <3>1, KnownEnds
  <2>2. rtc[TabOf(p)] # p
    <3>1. p \notin Held(TabOf(p)) /\ p # NoPC
      BY <1>h, <2>1, PairFacts
    <3> QED BY <3>1 DEF Held
  <2> QED BY <1>1, <2>1, <2>2 DEF Core, Alive
<1>14. Alone'
  BY <1>h DEF Alone
<1>15. Files'
  BY <1>1, <1>4, <1>h DEF Core, Files, FilesOn
<1>16. IdleStartsClean'
  BY <1>1, <1>4, <1>h DEF Core, IdleStartsClean
<1> QED BY <1>7, <1>8, <1>9, <1>10, <1>11, <1>12, <1>13, <1>14, <1>15, <1>16 DEF Core

LEMMA ReloadCore ==
    ASSUME Inv, TypeOK', NEW t \in Tab, Reload(t)
    PROVE  Core'
<1>1. TypeOK /\ Core
  BY DEF Inv
<1>2. /\ room' = 0 /\ rtc'[t] = NoPC /\ dataChannel'[t] = NoPC /\ sending'[t] = {}
      /\ \A u \in Tab \ {t} : /\ rtc'[u] = rtc[u] /\ dataChannel'[u] = dataChannel[u]
                              /\ isSender'[u] = isSender[u] /\ hashing'[u] = hashing[u]
                              /\ sending'[u] = sending[u] /\ timers'[u] = timers[u]
      /\ \A p \in PC : end'[p] = IF end[p] # "none" /\ TabOf(p) = t THEN "closed" ELSE end[p]
      /\ leaky' = leaky \ {t}
      /\ UNCHANGED <<creator, remote, clean, disturbed>>
  BY <1>1 DEF Reload, TypeOK
<1>h. (\A u \in Tab \ {t} : Held(u)' = Held(u)) /\ Held(t)' = {}
  BY <1>2 DEF Held
<1>3. Now' = Now /\ Now \in Nat /\ \A p : TabOf(p)' = TabOf(p)
  BY <1>1, <1>2, SameTab, NowFacts DEF Core
<1>4. \A u \in Tab : sending'[u] \subseteq sending[u]
  BY <1>2
<1>5. Known'
  BY <1>1, <1>2, <1>3 DEF Core, Known
<1>6. Fresh'
  <2> SUFFICES ASSUME NEW p \in PC, end[p] = "none"
               PROVE  /\ p \notin clean /\ p \notin disturbed /\ remote[p] = NoPC
                      /\ \A q \in PC : remote[q] # p
                      /\ \A u \in Tab : p \notin Held(u)' /\ \A loop \in sending'[u] : loop[2] # p
    <3>1. \A p \in PC : end'[p] = "none" => end[p] = "none"
      BY <1>2
    <3> QED BY <1>2, <3>1 DEF Fresh
  <2>1. /\ p \notin clean /\ p \notin disturbed /\ remote[p] = NoPC
        /\ \A q \in PC : remote[q] # p
        /\ \A u \in Tab : p \notin Held(u) /\ \A loop \in sending[u] : loop[2] # p
    BY <1>1 DEF Core, Fresh
  <2> QED BY <1>4, <1>h, <2>1
<1>7. Own'
  <2> SUFFICES ASSUME NEW u \in Tab
               PROVE  /\ \A p \in Held(u)' : TabOf(p) = u
                      /\ \A loop \in sending'[u] : TabOf(loop[2]) = u
                      /\ rtc'[u] # NoPC => (isSender'[u] <=> rtc'[u][2] = "sender")
    BY <1>3 DEF Own
  <2>1. /\ \A p \in Held(u) : TabOf(p) = u
        /\ \A loop \in sending[u] : TabOf(loop[2]) = u
        /\ rtc[u] # NoPC => (isSender[u] <=> rtc[u][2] = "sender")
    BY <1>1 DEF Core, Own
  <2>2. CASE u = t
    BY <1>2, <1>h, <2>2
  <2>3. CASE u # t
    <3>1. isSender'[u] = isSender[u] /\ rtc'[u] = rtc[u] /\ sending'[u] = sending[u]
      BY <1>2, <2>3
    <3> QED BY <1>h, <2>1, <2>3, <3>1
  <2> QED BY <2>2, <2>3
<1>8. Opened'
  BY <1>1, <1>2 DEF Core, Opened
<1>9. Tight'
  <2> SUFFICES ASSUME NEW u \in Tab, u \notin leaky'
               PROVE  /\ dataChannel'[u] \in {NoPC, rtc'[u]}
                      /\ \A p \in PC : end'[p] \in {"connecting", "waiting", "open"} /\ TabOf(p) = u
                             => rtc'[u] = p
    BY <1>3 DEF Tight
  <2>1. CASE u = t
    BY <1>2, <2>1
  <2>2. CASE u # t
    <3>1. /\ dataChannel[u] \in {NoPC, rtc[u]}
          /\ \A p \in PC : end[p] \in {"connecting", "waiting", "open"} /\ TabOf(p) = u
                 => rtc[u] = p
      BY <1>1, <1>2, <2>2 DEF Core, Tight
    <3> QED BY <1>2, <2>2, <3>1
  <2> QED BY <2>1, <2>2
<1>10. Loops'
  BY <1>1, <1>2, <1>4 DEF Core, Loops
<1>11. Alive'
  <2> SUFFICES ASSUME NEW p \in clean
               PROVE  end'[p] \in {"closing", "closed"} \/ rtc'[TabOf(p)] = p
    BY <1>2, <1>3 DEF Alive
  <2>1. p \in PC /\ end[p] # "none" /\ TabOf(p) \in Tab
    <3>1. p \in PC /\ end[p] # "none"
      BY <1>1 DEF Core, Fresh, TypeOK
    <3> QED BY <3>1, KnownEnds
  <2>2. end[p] \in {"closing", "closed"} \/ rtc[TabOf(p)] = p
    BY <1>1 DEF Core, Alive
  <2> QED BY <1>2, <2>1, <2>2
<1>12. Alone'
  <2> SUFFICES ASSUME NEW u \in Tab, NEW p \in clean \cap Held(u)'
               PROVE  /\ p[1] = Now /\ rtc'[u] = p /\ dataChannel'[u] \in {NoPC, p}
                      /\ \A q \in PC : end'[q] \notin {"none", "closed"} /\ TabOf(q) = u => q = p
                      /\ hashing'[u] \subseteq {p} /\ (hashing'[u] # {} => isSender'[u])
                      /\ \A i \in 1..Len(timers'[u]) : timers'[u][i] = p
    BY <1>2, <1>3 DEF Alone
  <2>1. u # t /\ p \in clean \cap Held(u)
    BY <1>h
  <2>2. /\ p[1] = Now /\ rtc[u] = p /\ dataChannel[u] \in {NoPC, p}
        /\ \A q \in PC : end[q] \notin {"none", "closed"} /\ TabOf(q) = u => q = p
        /\ hashing[u] \subseteq {p} /\ (hashing[u] # {} => isSender[u])
        /\ \A i \in 1..Len(timers[u]) : timers[u][i] = p
    BY <1>1, <2>1 DEF Core, Alone
  <2> QED BY <1>2, <2>1, <2>2
<1>13. Files'
  <2>1. \A p \in PC : \A i \in 1..Len(wire'[p]) : wire'[p] = wire[p]
    <3> DEFINE none == <<>>
    <3>1. 1..Len(none) = {}
      OBVIOUS
    <3>2. wire' = [p \in PC |-> IF end[p] # "none" /\ TabOf(p) = t THEN none ELSE wire[p]]
      BY DEF Reload
    <3> HIDE DEF none
    <3> QED BY <3>1, <3>2
  <2> QED BY <1>1, <1>2, <2>1 DEF Core, Files, FilesOn
<1>14. IdleStartsClean'
  BY <1>1, <1>2 DEF Core, IdleStartsClean
<1> QED BY <1>5, <1>6, <1>7, <1>8, <1>9, <1>10, <1>11, <1>12, <1>13, <1>14 DEF Core

LEMMA ServerCore ==
    ASSUME Inv, TypeOK',
           \/ RoomJoined
           \/ \E lost \in SUBSET Tab : RoomEnds(lost)
           \/ \E t \in Tab : Meet(t) \/ Back(t) \/ (Now > 0 /\ Reload(t))
    PROVE  Core'
<1>1. TypeOK /\ Core
  BY DEF Inv
<1>2. /\ \A p \in PC : \A i \in 1..Len(wire[p]) : wire[p][i].type = "file" =>
             /\ remote[p] # NoPC
             /\ remote[p] \in clean => wire[p][i].pc = remote[p]
      /\ room <= Now /\ 0 <= Now
  BY <1>1, NowFacts DEF Core, Known, Files, FilesOn
<1>3. ASSUME UNCHANGED <<creator, managerVars, pcVars, historyVars, hashing, sending, timers>>,
             room' = room \/ room' = 0
      PROVE  Core'
  <2>1. UNCHANGED <<wire, remote, end, disturbed, leaky, clean>> /\ room' <= Now
    BY <1>2, <1>3 DEF pcVars, historyVars
  <2> QED BY <1>2, <1>3, <2>1, KeepStep
<1>4. CASE RoomJoined
  BY <1>3, <1>4 DEF RoomJoined, transferVars
<1>5. ASSUME NEW lost \in SUBSET Tab, RoomEnds(lost) PROVE Core'
  BY <1>3, <1>5 DEF RoomEnds, transferVars
<1>6. ASSUME NEW t \in Tab, Back(t) PROVE Core'
  BY <1>3, <1>6 DEF Back, serverVars
<1> QED BY <1>4, <1>5, <1>6, MeetCore, ReloadCore

LEMMA TransferCore ==
    ASSUME Inv, TypeOK', NEW t \in Tab,
           \/ CancelClick(t) \/ CloseTimer(t)
           \/ \E b \in hashing[t] : HashDone(t, b)
           \/ \E loop \in sending[t] : SendLoopEnds(t, loop)
    PROVE  Core'
<1>1. TypeOK /\ Core /\ Now \in Nat /\ room <= Now
  BY NowFacts DEF Inv, Core, Known
<1>2. /\ wire \in Wires /\ FilesOn(wire)
      /\ \A p \in PC : \A i \in 1..Len(wire[p]) : wire[p][i].type = "file" =>
             /\ remote[p] # NoPC
             /\ remote[p] \in clean => wire[p][i].pc = remote[p]
  BY KnownEnds DEF FilesOn
<1>3. \A q \in Held(t) : q \in PC /\ end[q] # "none" /\ TabOf(q) = t
  BY KnownEnds
<1>4. CASE CancelClick(t)
  <2> DEFINE m == Msg("transfer-cancelled", NoPC)
             on == Transmit(wire, dataChannel[t], <<m>>)
             held == Held(t)
  <2>1. m \in Message /\ m.type # "file" /\ dataChannel[t] \in PC \cup {NoPC}
    BY <1>1, LetterTypes DEF Msg, TypeOK
  <2>2. on \in Wires /\ FilesOn(on)
    <3> HIDE DEF m
    <3> QED BY <1>1, <1>2, <2>1, TransmitFiles
  <2>3. CancelTransfer(t, held, on)
    BY <1>4 DEF CancelClick
  <2>4. held \in SUBSET PC /\ \A q \in held : end[q] # "none" /\ TabOf(q) = t
    BY <1>3
  <2>5. clean \cap Held(t) \subseteq held
    OBVIOUS
  <2> HIDE DEF held, on
  <2>6. /\ Close(t, held, on) /\ room' <= Now
        /\ UNCHANGED <<creator, isSender, remote, leaky, clean, hashing, timers>>
        /\ \A u \in Tab : sending'[u] \subseteq sending[u]
    BY <1>1, <2>3 DEF CancelTransfer, TypeOK
  <2> QED BY <2>2, <2>4, <2>5, <2>6, ClosingStep
<1>5. CASE CloseTimer(t)
  <2> DEFINE causes == {Head(timers[t])} \cap Held(t)
  <2>1. /\ Close(t, causes, wire)
        /\ UNCHANGED <<creator, isSender, remote, leaky, clean, hashing, sending, room>>
        /\ timers' = [timers EXCEPT ![t] = Tail(@)] /\ timers[t] # <<>>
    BY <1>5 DEF CloseTimer, serverVars
  <2>2. causes \in SUBSET PC /\ \A q \in causes : end[q] # "none" /\ TabOf(q) = t
    BY <1>3
  <2>3. clean \cap Held(t) \subseteq causes
    <3> SUFFICES ASSUME NEW x \in clean \cap Held(t) PROVE x = Head(timers[t])
      OBVIOUS
    <3>1. \A i \in 1..Len(timers[t]) : timers[t][i] = x
      BY <1>1 DEF Core, Alone
    <3>2. timers[t] \in Seq(PC) /\ timers[t] # <<>>
      BY <1>1, <2>1 DEF TypeOK
    <3> QED BY <3>1, <3>2
  <2>4. \A u \in Tab \ {t} : timers'[u] = timers[u]
    BY <1>1, <2>1 DEF TypeOK
  <2> HIDE DEF causes
  <2> QED BY <1>1, <1>2, <2>1, <2>2, <2>3, <2>4, ClosingStep
<1>6. ASSUME NEW b \in hashing[t], HashDone(t, b) PROVE Core'
  <2> DEFINE ch == dataChannel[t]
             loop == <<b, ch>>
  <2>1. /\ UNCHANGED <<creator, managerVars, end, leaky, clean, room, remote, wire, disturbed, timers>>
        /\ hashing' = [hashing EXCEPT ![t] = @ \ {b}]
        /\ \/ UNCHANGED sending
           \/ ch # NoPC /\ sending' = [sending EXCEPT ![t] = @ \cup {loop}]
    BY <1>6 DEF HashDone, serverVars, pcVars, historyVars
  <2>2. loop[1] = b /\ loop[2] = ch
    OBVIOUS
  <2>3. ch # NoPC => ch \in Held(t) /\ (ch \in clean => b = ch)
    <3>1. ch # NoPC => ch \in Held(t)
      BY KnownEnds
    <3> QED BY <1>1, <3>1 DEF Core, Alone
  <2>4. /\ sending \in [Tab -> SUBSET (PC \X PC)] /\ hashing \in [Tab -> SUBSET PC]
    BY <1>1 DEF TypeOK
  <2> HIDE DEF ch, loop
  <2>5. \A u \in Tab : \A l \in sending'[u] \ sending[u] :
            l[2] \in Held(u) /\ (l[2] \in clean => l[1] = l[2])
    <3> SUFFICES ASSUME NEW u \in Tab, NEW l \in sending'[u] \ sending[u]
                 PROVE  l[2] \in Held(u) /\ (l[2] \in clean => l[1] = l[2])
      OBVIOUS
    <3>1. u = t /\ l = loop /\ ch # NoPC
      BY <2>1, <2>4
    <3> QED BY <2>2, <2>3, <3>1
  <2>6. \A u \in Tab : hashing'[u] \subseteq hashing[u]
    BY <2>1, <2>4
  <2> QED BY <1>1, <1>2, <2>1, <2>5, <2>6, KeepStep
<1>7. ASSUME NEW loop \in sending[t], SendLoopEnds(t, loop) PROVE Core'
  <2> DEFINE b == loop[1]
  <2>1. /\ UNCHANGED <<creator, managerVars, end, leaky, clean, room, remote, disturbed, hashing>>
        /\ sending' = [sending EXCEPT ![t] = @ \ {loop}]
        /\ \/ UNCHANGED timers
           \/ end[loop[2]] = "open" /\ timers' = [timers EXCEPT ![t] = Append(@, b)]
    BY <1>7 DEF SendLoopEnds, serverVars, historyVars
  <2>2. wire' \in Wires /\ FilesOn(wire') /\ loop \in PC \X PC
    BY <1>1, <1>7, LoopWires DEF Core
  <2>3. loop[1] \in PC /\ loop[2] \in PC
    BY <2>2
  <2>4. ASSUME end[loop[2]] = "open", NEW x \in clean \cap Held(t) PROVE b = x
    <3>1. TabOf(loop[2]) = t
      BY <1>1 DEF Core, Own
    <3>2. x = loop[2]
      BY <2>3, <2>4, <3>1, KnownEnds
    <3> QED BY <1>1, <3>2 DEF Core, Loops
  <2>5. \A u \in Tab : \/ timers'[u] = timers[u]
                       \/ \E d \in PC : /\ timers'[u] = Append(timers[u], d)
                                        /\ \A x \in clean \cap Held(u) : d = x
    <3> SUFFICES ASSUME NEW u \in Tab, timers'[u] # timers[u]
                 PROVE  \E d \in PC : /\ timers'[u] = Append(timers[u], d)
                                      /\ \A x \in clean \cap Held(u) : d = x
      OBVIOUS
    <3>1. timers \in [Tab -> Seq(PC)] /\ b \in PC
      BY <1>1, <2>3 DEF TypeOK
    <3>2. u = t /\ end[loop[2]] = "open" /\ timers'[u] = Append(timers[u], b)
      <4> HIDE DEF b
      <4> QED BY <2>1, <3>1
    <3> HIDE DEF b
    <3> QED BY <2>4, <3>1, <3>2
  <2>6. \A u \in Tab : sending'[u] \ sending[u] = {}
    BY <1>1, <2>1 DEF TypeOK
  <2>7. \A p \in PC : \A i \in 1..Len(wire'[p]) : wire'[p][i].type = "file" =>
            /\ remote'[p] # NoPC
            /\ remote'[p] \in clean => wire'[p][i].pc = remote'[p]
    BY <2>1, <2>2 DEF FilesOn
  <2> QED BY <1>1, <2>1, <2>5, <2>6, <2>7, KeepStep
<1> QED BY <1>4, <1>5, <1>6, <1>7

LEMMA OpenCore ==
    ASSUME Inv, NEW p \in PC, OnDataChannelOpen(p)
    PROVE  Core'
<1>1. TypeOK /\ Core
  BY DEF Inv
<1>0. TabOf(p) \in Tab
  BY KnownEnds DEF OnDataChannelOpen
<1>t. PICK t \in Tab : t = TabOf(p)
  BY <1>0
<1>2. /\ t \in Tab /\ end[p] \in {"connecting", "waiting"} /\ remote[p] # NoPC
      /\ end' = [end EXCEPT ![p] = "open"]
      /\ \/ dataChannel' = [dataChannel EXCEPT ![t] = p]
         \/ dataChannel' = dataChannel /\ end[p] = "connecting"
      /\ FilesOn(wire')
      /\ \/ UNCHANGED <<shown, transferSuccessful, hashing>>
         \/ /\ isSender[t]
            /\ transferSuccessful' = [transferSuccessful EXCEPT ![t] = FALSE]
            /\ shown' = [shown EXCEPT ![t] = "send"]
            /\ \E b \in {p, dataChannel'[t]} \ {NoPC} :
                  hashing' = [hashing EXCEPT ![t] = @ \cup {b}]
      /\ UNCHANGED <<serverVars, rtc, isSender, sending, fileSender, timers, remote, historyVars>>
  BY <1>1, <1>t, OpenFields DEF Core
<1>3. /\ UNCHANGED <<creator, room, rtc, isSender, sending, timers, remote, leaky, clean, disturbed>>
      /\ dataChannel'[t] \in {dataChannel[t], p}
      /\ \A u \in Tab \ {t} : dataChannel'[u] = dataChannel[u] /\ hashing'[u] = hashing[u]
      /\ \/ hashing'[t] = hashing[t]
         \/ isSender[t] /\ \E b \in {p, dataChannel'[t]} \ {NoPC} :
               hashing'[t] = hashing[t] \cup {b}
      /\ end'[p] = "open" /\ \A q \in PC \ {p} : end'[q] = end[q]
  <2>1. /\ dataChannel \in [Tab -> PC \cup {NoPC}] /\ hashing \in [Tab -> SUBSET PC]
        /\ end \in [PC -> {"none", "connecting", "waiting", "open", "closing", "closed"}]
    BY <1>1 DEF TypeOK
  <2> QED BY <1>2, <2>1 DEF serverVars, historyVars
<1>h. /\ Held(t)' \subseteq Held(t) \cup {p}
      /\ \A u \in Tab \ {t} : Held(u)' = Held(u)
  BY <1>3 DEF Held
<1>4. Now' = Now /\ \A q : TabOf(q)' = TabOf(q)
  BY <1>3, SameTab
<1>5. \A q \in PC : /\ end'[q] = "none" <=> end[q] = "none"
                    /\ end'[q] \in {"closing", "closed"} <=> end[q] \in {"closing", "closed"}
                    /\ end'[q] \in {"connecting", "waiting", "open"}
                         <=> end[q] \in {"connecting", "waiting", "open"}
                    /\ end'[q] \in {"none", "closed"} <=> end[q] \in {"none", "closed"}
  BY <1>2, <1>3
<1>6. p \in clean => p \in Held(t)
  <2>1. p \in clean => rtc[t] = p
    BY <1>1, <1>2, <1>t DEF Core, Alive
  <2> QED BY <2>1, PairFacts DEF Held
<1>7. Known'
  BY <1>1, <1>3, <1>4, <1>5 DEF Core, Known
<1>8. Fresh'
  <2> SUFFICES ASSUME NEW q \in PC, end[q] = "none"
               PROVE  /\ q \notin clean /\ q \notin disturbed /\ remote[q] = NoPC
                      /\ \A r \in PC : remote[r] # q
                      /\ \A u \in Tab : q \notin Held(u)' /\ \A loop \in sending[u] : loop[2] # q
    BY <1>3, <1>5 DEF Fresh
  <2>1. /\ q \notin clean /\ q \notin disturbed /\ remote[q] = NoPC
        /\ \A r \in PC : remote[r] # q
        /\ \A u \in Tab : q \notin Held(u) /\ \A loop \in sending[u] : loop[2] # q
    BY <1>1 DEF Core, Fresh
  <2>2. q # p
    BY <1>2
  <2> QED BY <1>h, <2>1, <2>2
<1>9. Own'
  <2> SUFFICES ASSUME NEW u \in Tab
               PROVE  /\ \A q \in Held(u)' : TabOf(q) = u
                      /\ \A loop \in sending[u] : TabOf(loop[2]) = u
                      /\ rtc[u] # NoPC => (isSender[u] <=> rtc[u][2] = "sender")
    BY <1>3, <1>4 DEF Own
  <2>1. /\ \A q \in Held(u) : TabOf(q) = u
        /\ \A loop \in sending[u] : TabOf(loop[2]) = u
        /\ rtc[u] # NoPC => (isSender[u] <=> rtc[u][2] = "sender")
    BY <1>1 DEF Core, Own
  <2>2. \A q \in Held(u)' : TabOf(q) = u
    BY <1>h, <1>t, <2>1
  <2> QED BY <2>1, <2>2
<1>10. Opened'
  BY <1>1, <1>2, <1>3 DEF Core, Opened
<1>11. Tight'
  <2> SUFFICES ASSUME NEW u \in Tab, u \notin leaky
               PROVE  /\ dataChannel'[u] \in {NoPC, rtc[u]}
                      /\ \A q \in PC : end[q] \in {"connecting", "waiting", "open"} /\ TabOf(q) = u
                             => rtc[u] = q
    BY <1>3, <1>4, <1>5 DEF Tight
  <2>1. /\ dataChannel[u] \in {NoPC, rtc[u]}
        /\ \A q \in PC : end[q] \in {"connecting", "waiting", "open"} /\ TabOf(q) = u
               => rtc[u] = q
    BY <1>1 DEF Core, Tight
  <2> QED BY <1>2, <1>3, <1>t, <2>1
<1>12. Loops'
  BY <1>1, <1>3 DEF Core, Loops
<1>13. Alive'
  <2> SUFFICES ASSUME NEW q \in clean
               PROVE  end'[q] \in {"closing", "closed"} \/ rtc[TabOf(q)] = q
    BY <1>3, <1>4 DEF Alive
  <2>1. q \in PC
    BY <1>1 DEF TypeOK
  <2> QED BY <1>1, <1>5, <2>1 DEF Core, Alive
<1>14. Alone'
  <2> SUFFICES ASSUME NEW u \in Tab, NEW q \in clean \cap Held(u)'
               PROVE  /\ q[1] = Now /\ rtc[u] = q /\ dataChannel'[u] \in {NoPC, q}
                      /\ \A r \in PC : end'[r] \notin {"none", "closed"} /\ TabOf(r) = u => r = q
                      /\ hashing'[u] \subseteq {q} /\ (hashing'[u] # {} => isSender[u])
                      /\ \A i \in 1..Len(timers[u]) : timers[u][i] = q
    BY <1>3, <1>4 DEF Alone
  <2>1. q \in clean \cap Held(u)
    BY <1>6, <1>h
  <2>2. /\ q[1] = Now /\ rtc[u] = q /\ dataChannel[u] \in {NoPC, q}
        /\ \A r \in PC : end[r] \notin {"none", "closed"} /\ TabOf(r) = u => r = q
        /\ hashing[u] \subseteq {q} /\ (hashing[u] # {} => isSender[u])
        /\ \A i \in 1..Len(timers[u]) : timers[u][i] = q
    BY <1>1, <2>1 DEF Core, Alone
  <2>3. u = t => p = q
    BY <1>2, <1>t, <2>2
  <2>4. dataChannel'[u] \in {NoPC, q}
    BY <1>3, <2>2, <2>3
  <2>5. hashing'[u] \subseteq {q} /\ (hashing'[u] # {} => isSender[u])
    <3>1. CASE u # t
      BY <1>3, <2>2, <3>1
    <3>2. CASE u = t
      BY <1>3, <2>2, <2>3, <2>4, <3>2
    <3> QED BY <3>1, <3>2
  <2> QED BY <1>5, <2>2, <2>4, <2>5
<1>15. Files'
  BY <1>2, <1>3 DEF Files, FilesOn
<1>16. IdleStartsClean'
  BY <1>1, <1>3 DEF Core, IdleStartsClean
<1> QED BY <1>7, <1>8, <1>9, <1>10, <1>11, <1>12, <1>13, <1>14, <1>15, <1>16 DEF Core

LEMMA CloseEventCore ==
    ASSUME Inv, TypeOK', NEW p \in PC, OnDataChannelClose(p)
    PROVE  Core'
<1>1. TypeOK /\ Core /\ Now \in Nat /\ room <= Now
  BY NowFacts DEF Inv, Core, Known
<1>2. end[p] \in {"open", "closing"} /\ end[p] # "none" /\ TabOf(p) \in Tab
  BY KnownEnds DEF OnDataChannelClose
<1>t. PICK t \in Tab : t = TabOf(p)
  BY <1>2
<1>3. CASE CancelTransfer(t, {p}, wire)
  <2>1. clean \cap Held(t) \subseteq {p}
    BY <1>2, <1>t, KnownEnds
  <2>2. wire \in Wires /\ FilesOn(wire)
    BY KnownEnds
  <2>3. /\ Close(t, {p}, wire) /\ room' <= Now
        /\ UNCHANGED <<creator, isSender, remote, leaky, clean, hashing, timers>>
        /\ \A u \in Tab : sending'[u] \subseteq sending[u]
    BY <1>1, <1>3 DEF CancelTransfer, TypeOK
  <2>4. {p} \in SUBSET PC /\ \A q \in {p} : end[q] # "none" /\ TabOf(q) = t
    BY <1>2, <1>t
  <2> DEFINE causes == {p}
  <2> HIDE DEF causes
  <2>5. /\ clean \cap Held(t) \subseteq causes /\ Close(t, causes, wire) /\ causes \in SUBSET PC
        /\ \A q \in causes : end[q] # "none" /\ TabOf(q) = t
    BY <2>1, <2>3, <2>4 DEF causes
  <2> QED BY <2>2, <2>3, <2>5, ClosingStep
<1>4. CASE /\ end' = [end EXCEPT ![p] = "closed"]
           /\ wire' = [wire EXCEPT ![p] = <<>>]
           /\ UNCHANGED <<serverVars, managerVars, transferVars, remote, historyVars>>
  <2>1. /\ UNCHANGED <<creator, room, rtc, dataChannel, isSender, hashing, sending, timers, remote,
                       leaky, clean, disturbed>>
        /\ end'[p] = "closed" /\ \A q \in PC \ {p} : end'[q] = end[q]
    BY <1>1, <1>4 DEF serverVars, managerVars, transferVars, historyVars, TypeOK
  <2>h. \A u \in Tab : Held(u)' = Held(u)
    BY <2>1 DEF Held
  <2>2. Now' = Now /\ \A q : TabOf(q)' = TabOf(q)
    BY <2>1, SameTab
  <2>3. \A q \in PC : /\ end'[q] = "none" <=> end[q] = "none"
                      /\ end[q] \in {"closing", "closed"} => end'[q] \in {"closing", "closed"}
                      /\ end'[q] \in {"connecting", "waiting", "open"} => end'[q] = end[q]
                      /\ end[q] \in {"none", "closed"} => end'[q] \in {"none", "closed"}
    BY <1>2, <2>1
  <2>4. Known'
    BY <1>1, <2>1, <2>2, <2>3 DEF Core, Known
  <2>5. Fresh'
    <3> SUFFICES ASSUME NEW q \in PC, end[q] = "none"
                 PROVE  /\ q \notin clean /\ q \notin disturbed /\ remote[q] = NoPC
                        /\ \A r \in PC : remote[r] # q
                        /\ \A u \in Tab : q \notin Held(u) /\ \A loop \in sending[u] : loop[2] # q
      BY <2>1, <2>3, <2>h DEF Fresh
    <3> QED BY <1>1 DEF Core, Fresh
  <2>6. Own'
    <3> SUFFICES ASSUME NEW u \in Tab
                 PROVE  /\ \A q \in Held(u) : TabOf(q) = u
                        /\ \A loop \in sending[u] : TabOf(loop[2]) = u
                        /\ rtc[u] # NoPC => (isSender[u] <=> rtc[u][2] = "sender")
      <4>1. \A u \in Tab : Held(u)' = Held(u)
        BY <2>h
      <4> QED BY <2>1, <2>2, <4>1 DEF Own
    <3> QED BY <1>1 DEF Core, Own
  <2>7. Opened'
    BY <1>1, <2>1, <2>3 DEF Core, Opened
  <2>8. Tight'
    BY <1>1, <2>1, <2>2, <2>3 DEF Core, Tight
  <2>9. Loops'
    BY <1>1, <2>1 DEF Core, Loops
  <2>10. Alive'
    <3> SUFFICES ASSUME NEW q \in clean
                 PROVE  end'[q] \in {"closing", "closed"} \/ rtc[TabOf(q)] = q
      BY <2>1, <2>2 DEF Alive
    <3>1. q \in PC
      BY <1>1 DEF TypeOK
    <3> QED BY <1>1, <2>3, <3>1 DEF Core, Alive
  <2>11. Alone'
    <3> SUFFICES ASSUME NEW u \in Tab, NEW q \in clean \cap Held(u)
                 PROVE  /\ q[1] = Now /\ rtc[u] = q /\ dataChannel[u] \in {NoPC, q}
                        /\ \A r \in PC : end'[r] \notin {"none", "closed"} /\ TabOf(r) = u => r = q
                        /\ hashing[u] \subseteq {q} /\ (hashing[u] # {} => isSender[u])
                        /\ \A i \in 1..Len(timers[u]) : timers[u][i] = q
      <4>1. \A u \in Tab : (clean \cap Held(u))' = clean \cap Held(u)
        BY <2>1, <2>h
      <4> QED BY <2>1, <2>2, <4>1 DEF Alone
    <3> QED BY <1>1, <2>3 DEF Core, Alone
  <2>12. Files'
    <3> DEFINE none == <<>>
    <3>1. 1..Len(none) = {} /\ wire' = [wire EXCEPT ![p] = none] /\ wire \in Wires
      BY <1>4, KnownEnds
    <3> HIDE DEF none
    <3>2. \A q \in PC : \A i \in 1..Len(wire'[q]) : wire'[q] = wire[q]
      BY <3>1 DEF Wires
    <3> QED BY <1>1, <2>1, <3>2 DEF Core, Files, FilesOn
  <2>13. IdleStartsClean'
    BY <1>1, <2>1 DEF Core, IdleStartsClean
  <2> QED BY <2>4, <2>5, <2>6, <2>7, <2>8, <2>9, <2>10, <2>11, <2>12, <2>13 DEF Core
<1> QED BY <1>t, <1>3, <1>4 DEF OnDataChannelClose

LEMMA MessagesCore ==
    ASSUME Inv, TypeOK', NEW p \in PC, Messages(p)
    PROVE  Core'
<1>1. TypeOK /\ Core /\ Files /\ Now \in Nat /\ room <= Now
  BY NowFacts DEF Inv, Core, Known
<1>2. end[p] = "open" /\ end[p] # "none" /\ end[p] \notin {"none", "closed"} /\ wire[p] # <<>>
  BY DEF Messages, HandleBatchStart, HandleFile, HandleBatchComplete, HandleTransferCancelled,
         Arrives
<1>t. PICK t \in Tab : t = TabOf(p)
  BY <1>2, KnownEnds
<1>3. /\ Rest(p) \in Wires /\ FilesOn(Rest(p)) /\ Head(wire[p]) \in Message
      /\ remote[p] \in PC
  <2>1. remote[p] \in PC
    BY <1>1, <1>2 DEF Core, Opened, TypeOK
  <2> QED BY <1>1, <1>2, <2>1, RestFiles
<1>4. \A q \in PC : \A i \in 1..Len(Rest(p)[q]) : Rest(p)[q][i].type = "file" =>
          /\ remote[q] # NoPC
          /\ remote[q] \in clean => Rest(p)[q][i].pc = remote[q]
  BY <1>3 DEF FilesOn
<1> DEFINE causes == {p} \cap Held(t)
<1>5. /\ clean \cap Held(t) \subseteq causes /\ causes \in SUBSET PC
      /\ \A q \in causes : end[q] # "none" /\ TabOf(q) = t
  BY <1>2, <1>t, KnownEnds
<1>6. CASE HandleBatchStart(p)
  <2>1. /\ UNCHANGED <<creator, managerVars, end, leaky, clean, room, remote, disturbed, hashing,
                       sending, timers>>
        /\ wire' = Rest(p)
    BY <1>6 DEF HandleBatchStart, serverVars, historyVars
  <2> QED BY <1>1, <1>4, <2>1, KeepStep
<1>7. CASE HandleFile(p)
  <2>1. /\ UNCHANGED <<creator, managerVars, end, leaky, clean, room, remote, hashing, sending,
                       timers>>
        /\ wire' = Rest(p)
        /\ disturbed' = IF Head(wire[p]).pc = remote[p] THEN disturbed
                        ELSE disturbed \cup {remote[p]}
        /\ Head(wire[p]).type = "file"
    BY <1>7 DEF HandleFile, Arrives, serverVars, transferVars
  <2>2. remote[p] \in clean => Head(wire[p]).pc = remote[p]
    <3>1. wire[p] \in Seq(Message)
      BY KnownEnds DEF Wires
    <3>2. 1 \in 1..Len(wire[p]) /\ Head(wire[p]) = wire[p][1]
      BY <1>2, <3>1
    <3> QED BY <1>1, <2>1, <3>2 DEF Files, FilesOn
  <2>3. end[remote[p]] # "none"
    BY <1>1, <1>3 DEF Core, Fresh
  <2>4. \A x \in disturbed' \ disturbed : end[x] # "none" /\ x \notin clean
    BY <2>1, <2>2, <2>3
  <2> QED BY <1>1, <1>4, <2>1, <2>4, KeepStep
<1>8. CASE HandleBatchComplete(p)
  <2>1. /\ Close(t, causes, Rest(p))
        /\ UNCHANGED <<creator, room, isSender, remote, leaky, clean, hashing, sending, timers>>
    BY <1>t, <1>8 DEF HandleBatchComplete, serverVars
  <2> HIDE DEF causes
  <2> QED BY <1>1, <1>3, <1>5, <2>1, ClosingStep
<1>9. CASE HandleTransferCancelled(p)
  <2>1. CancelTransfer(t, causes, Rest(p))
    BY <1>t, <1>9 DEF HandleTransferCancelled
  <2> HIDE DEF causes
  <2>2. /\ Close(t, causes, Rest(p)) /\ room' <= Now
        /\ UNCHANGED <<creator, isSender, remote, leaky, clean, hashing, timers>>
        /\ \A u \in Tab : sending'[u] \subseteq sending[u]
    BY <1>1, <2>1 DEF CancelTransfer, TypeOK
  <2> QED BY <1>3, <1>5, <2>2, ClosingStep
<1> QED BY <1>6, <1>7, <1>8, <1>9 DEF Messages

-----------------------------------------------------------------------------
LEMMA InitInv == Init => Inv
<1> SUFFICES ASSUME Init PROVE Inv
  OBVIOUS
<1> DEFINE none == <<>>
<1>1. none \in Seq(Tab) /\ none \in Seq(Letter) /\ none \in Seq(PC) /\ none \in Seq(Message)
      /\ Len(none) = 0 /\ 1..Len(none) = {}
  OBVIOUS
<1>2. /\ creator = none /\ inbox = [t \in Tab |-> none] /\ timers = [t \in Tab |-> none]
      /\ wire = [p \in PC |-> none]
  BY DEF Init
<1>3. /\ room = 0 /\ confirm = FALSE
      /\ rtc = [t \in Tab |-> NoPC]
      /\ dataChannel = [t \in Tab |-> NoPC]
      /\ isSender = [t \in Tab |-> FALSE]
      /\ shown = [t \in Tab |-> "none"]
      /\ transferSuccessful = [t \in Tab |-> FALSE]
      /\ hashing = [t \in Tab |-> {}]
      /\ sending = [t \in Tab |-> {}]
      /\ fileSender = [t \in Tab |-> NoLoop]
      /\ remote = [p \in PC |-> NoPC]
      /\ end = [p \in PC |-> "none"]
      /\ free = {} /\ leaky = {} /\ clean = {} /\ disturbed = {}
  BY DEF Init
<1>m. \A t \in Tab : inbox[t] = <<>>
  BY <1>2
<1> HIDE DEF none
<1>4. Typed
  <2>1. /\ creator \in Seq(Tab) /\ inbox \in [Tab -> Seq(Letter)] /\ timers \in [Tab -> Seq(PC)]
        /\ wire \in Wires
    BY <1>1, <1>2 DEF Wires
  <2>2. room \in 0..MaxRooms /\ confirm \in BOOLEAN
    <3>1. MaxRooms \in Nat /\ room = 0
      BY <1>3, PairFacts
    <3>2. room \in 0..MaxRooms
      BY <3>1
    <3>3. confirm \in BOOLEAN
      BY <1>3
    <3> QED BY <3>2, <3>3
  <2>3. /\ rtc \in [Tab -> PC \cup {NoPC}] /\ dataChannel \in [Tab -> PC \cup {NoPC}]
        /\ isSender \in [Tab -> BOOLEAN] /\ transferSuccessful \in [Tab -> BOOLEAN]
        /\ shown \in [Tab -> {"none", "send", "receive"}]
        /\ remote \in [PC -> PC \cup {NoPC}]
        /\ end \in [PC -> {"none", "connecting", "waiting", "open", "closing", "closed"}]
    BY <1>3
  <2>4. fileSender \in [Tab -> (PC \X PC) \cup {NoLoop}]
    BY <1>3
  <2>5. /\ hashing \in [Tab -> SUBSET PC] /\ sending \in [Tab -> SUBSET (PC \X PC)]
        /\ free \subseteq 1..MaxRooms /\ leaky \subseteq Tab
        /\ clean \subseteq PC /\ disturbed \subseteq PC
    BY <1>3
  <2> QED BY <2>1, <2>2, <2>3, <2>4, <2>5 DEF Typed
<1>5. Now = 0
  BY <1>1, <1>2 DEF Now
<1>6. Mail
  BY <1>3, <1>5, <1>m DEF Mail
<1>7. \A t \in Tab : Held(t) = {}
  BY <1>3 DEF Held
<1>8. Known /\ Fresh /\ Opened
  BY <1>3, <1>5, <1>7, PairFacts DEF Known, Fresh, Opened
<1>9. Own /\ Tight
  BY <1>3, <1>7 DEF Own, Tight
<1>10. Loops /\ Alive /\ Alone /\ IdleStartsClean
  BY <1>3 DEF Loops, Alive, Alone, IdleStartsClean
<1>11. Files
  BY <1>1, <1>2 DEF Files, FilesOn
<1> QED BY <1>4, <1>6, <1>8, <1>9, <1>10, <1>11, TypedIsTypeOK DEF Inv, Core

LEMMA NextInv == Inv /\ [Next]_vars => Inv'
<1> SUFFICES ASSUME Inv, [Next]_vars PROVE Inv'
  OBVIOUS
<1>1. TypeOK /\ Mail /\ Core /\ Known /\ Fresh
  BY DEF Inv, Core
<1>2. CASE \/ RoomJoined
           \/ \E lost \in SUBSET Tab : RoomEnds(lost)
           \/ \E t \in Tab : Meet(t) \/ Back(t) \/ (Now > 0 /\ Reload(t))
  BY <1>1, <1>2, ServerTypes, ServerMail, ServerCore DEF Inv
<1>3. ASSUME NEW t \in Tab, Signaling(t) PROVE Inv'
  BY <1>1, <1>3, SignalingTypes, SignalingMail, SignalingCore DEF Inv
<1>4. ASSUME NEW t \in Tab,
             \/ CancelClick(t) \/ CloseTimer(t)
             \/ \E b \in hashing[t] : HashDone(t, b)
             \/ \E loop \in sending[t] : SendLoopEnds(t, loop)
      PROVE  Inv'
  BY <1>4, TransferTypes, ConnectionMail, TransferCore DEF Inv
<1>5. ASSUME NEW p \in PC,
             \/ OnDataChannelOpen(p) \/ OnDataChannelClose(p) \/ Messages(p)
      PROVE  Inv'
  BY <1>5, ChannelTypes, ConnectionMail, OpenCore, CloseEventCore, MessagesCore DEF Inv
<1>6. CASE UNCHANGED vars
  <2>1. TypeOK'
    BY <1>1, <1>6 DEF TypeOK, vars, serverVars, managerVars, transferVars, pcVars, historyVars
  <2>2. UNCHANGED <<creator, confirm, inbox, end, managerVars, pcVars, historyVars, hashing, sending,
                    timers, room>>
    BY <1>6 DEF vars, serverVars, transferVars, pcVars
  <2>3. Mail'
    BY <1>1, <2>2, MailKept
  <2>4. Core'
    <3>1. /\ \A p \in PC : \A i \in 1..Len(wire[p]) : wire[p][i].type = "file" =>
                 /\ remote[p] # NoPC
                 /\ remote[p] \in clean => wire[p][i].pc = remote[p]
          /\ room <= Now
      BY <1>1 DEF Core, Known, Files, FilesOn
    <3>2. UNCHANGED <<wire, remote, end, disturbed, leaky, clean>>
      BY <2>2 DEF pcVars, historyVars
    <3> QED BY <2>1, <2>2, <3>1, <3>2, KeepStep
  <2> QED BY <2>1, <2>3, <2>4 DEF Inv
<1> QED BY <1>2, <1>3, <1>4, <1>5, <1>6 DEF Next, Users

(* The inductive invariant: the types, the mail a tab can have on its way, *)
(* and which ends, channels and continuations go back to which connection. *)
LEMMA InvIsInvariant == Spec => []Inv
BY InitInv, NextInv, PTL DEF Spec

-----------------------------------------------------------------------------
(* Every variable keeps its type in every behaviour.                       *)
THEOREM TypeCorrect == Spec => []TypeOK
<1>1. Inv => TypeOK
  BY DEF Inv
<1> QED BY <1>1, InvIsInvariant, PTL

(* However late the close events, closing timers, hashes and messages of   *)
(* earlier connections come, they never close or feed a connection that a  *)
(* tab made with nothing of them outstanding, in any number of rooms.      *)
THEOREM StartsClean == Spec => []IdleStartsClean
<1>1. Inv => IdleStartsClean
  BY DEF Inv, Core
<1> QED BY <1>1, InvIsInvariant, PTL

(* Such a connection sends from the tab that created the room: isSender is *)
(* set anew by every initialize, whatever role the tab had before, and a   *)
(* hash is awaited for it in the creator's tab alone.                      *)
THEOREM RolesKept == Spec => []SendersSend
<1>1. Inv => SendersSend
  <2> SUFFICES ASSUME Inv, NEW t \in Tab, dataChannel[t] \in clean, rtc[t] = dataChannel[t]
               PROVE  /\ isSender[t] <=> t = creator[dataChannel[t][1]]
                      /\ hashing[t] # {} => isSender[t]
    BY DEF SendersSend
  <2> DEFINE x == dataChannel[t]
  <2>1. TypeOK /\ Core
    BY DEF Inv
  <2>2. x \in PC /\ x # NoPC
    BY <2>1, PairFacts DEF TypeOK
  <2>3. x \in clean \cap Held(t) /\ rtc[t] # NoPC /\ x[1] <= Now
    <3>1. x \in Held(t) /\ end[x] # "none"
      BY <2>2, KnownEnds
    <3> QED BY <2>1, <2>2, <3>1 DEF Core, Known
  <2>4. TabOf(x) = t /\ (isSender[t] <=> x[2] = "sender") /\ (hashing[t] # {} => isSender[t])
    BY <2>1, <2>3 DEF Core, Own, Alone
  <2>5. creator[x[1]] \in Tab /\ Other(creator[x[1]]) # creator[x[1]]
    BY <2>1, <2>2, <2>3, OwnTab, TabFacts
  <2>6. x[2] = "sender" <=> t = creator[x[1]]
    BY <2>4, <2>5 DEF TabOf
  <2> QED BY <2>4, <2>6
<1> QED BY <1>1, InvIsInvariant, PTL
=============================================================================
