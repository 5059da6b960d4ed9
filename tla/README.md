# ShareDrop: TLA+ models, checks and proofs

ShareDrop pairs two browsers through a five-character room code and lets one
send files to the other over a WebRTC data channel. This directory holds the
formal models of that program, the TLC configurations that check them and the
TLAPS proofs about them. File and line references are to `src/`; `SignalingHandler`
and `RateLimiterService` are under
`backend/src/main/java/com/p2pshare/signaling/`, the scripts under `frontend/js/`.

## 1. The system

| Component | State | Operations | Talks to |
|---|---|---|---|
| Signaling server, `SignalingHandler.java` | `rooms`, `sessionToRoom` (ConcurrentHashMaps), mutable `Room` objects | create-room, join-room, relay of offer/answer/ice-candidate, close callback, expiry sweep every 5 min | sessions (WebSocket), limiter (call) |
| Rate limiter, `RateLimiterService.java` | `limiters`: key to `TokenBucket` | `isAllowed`, idle sweep every 10 min | called by the handler and by the HTTP interceptor |
| Interceptor, room controller, configuration | none | one limiter call per request; read-only status | limiter, handler |
| Signaling client, `signaling.js` | socket, room code, reconnect counter and timer | connect, reconnect with backoff, disconnect, dispatch of server messages | server; callbacks into `app.js`, `webrtc.js` |
| WebRTC manager, `webrtc.js` | peer connection, data channel | initialize, offer, answer, candidates, send, close | client (relay), peer tab, `app.js` |
| File handler, `fileHandler.js` | `FileSender` (offset, paused, cancelled), `FileReceiver` (chunks, bytes, stream) | send loop with flow control, reassembly in memory or to disk | data channel, `app.js` |
| Page, `app.js` | selected and received files, indices, visible sections, `transferSuccessful` | picking files, Back/logo/Cancel, send queue, receive handlers, closing | all of the above |

What is hard in it:

- **Server**: handlers of different sessions run on container threads at the same
  time, with per-operation atomicity only. Tests and assignments are apart
  (`size`/`put`, `receiver == null`/`receiver =`), the close callback and the
  sweep remove what other handlers are about to write, and `rooms.remove(code)`
  goes by key.
- **Limiter**: lookup, consumption and eviction interleave; the refill is lazy.
- **Transfer**: a send loop that pauses in the middle of a block and is woken by
  an event; callbacks and awaits that interleave with Cancel, Back and the close
  of either side; a timer that closes the connection.
- **Client and negotiation**: one `ws`, one `rtc`, one `dataChannel` and one set of
  handlers serve all sockets and connections a tab ever has. The events, timers and
  continuations of an old one act on its successor.
- **Page**: a dozen handlers of the user, of the server's answers and of the socket
  switch the same buttons and lists.
- **Disk mode**: chunks arrive while the stream is being opened, writes are chained and
  may fail, `finish` and `cancel` await the chain.

What makes each component correct: messages stay between the members of a room,
and a closed session leaves nothing behind (server); never more tokens than time
has paid for, and refusals free of charge (limiter); files arrive whole, in order,
once, and a batch ends in one way on both sides (transfer); no more sockets than
clicks, no reconnect that nobody wants, a lost connection that comes back (client); a
list that is what will be sent and no button that stays off (page); one channel per
room, which nothing of an earlier room disturbs (WebRTC manager); a file on the disk
that is a beginning of the file sent, and complete means whole (disk mode).

`PROJECT.json` lists every component, also those not modelled, every hazard with
its line, and for each definition of a model the lines it stands for.

## 2. The modules

| Module | What it is |
|---|---|
| `SignalingServer` | the server: one action per access to shared state that another thread can observe |
| `SignalingServer_proofs` | its theorems |
| `MCSignalingServer` | TLC instance (symmetry) |
| `TokenBuckets` | abstract: ideal buckets that rise by one unit per tick |
| `RateLimiter` | `RateLimiterService` for one key; implements `TokenBuckets` |
| `RateLimiter_proofs` | its theorems, the refinement among them |
| `MCRateLimiter` | TLC instance (symmetry) |
| `FileDelivery` | abstract: a batch is announced, delivered whole and in order, and ends once |
| `BatchTransfer` | one transfer over an open channel, both tabs; implements `FileDelivery` |
| `BatchTransfer_proofs` | its theorems, the refinement among them |
| `MCBatchTransfer` | TLC instances |
| `SharePage` | the page before a transfer: views, file list, code boxes, the two buttons |
| `SignalingClient` | `signaling.js` under that page (it extends `SharePage`), with the part of the server that answers |
| `SignalingClient_proofs` | theorems about the client and its page |
| `MCSignalingClient` | TLC instance |
| `PeerConnections` | `webrtc.js` and the handlers of `app.js` over several rooms in the same two tabs |
| `PeerConnections_proofs` | its theorems |
| `MCPeerConnections` | TLC instance |
| `StreamReceiver` | `FileReceiver` writing to a directory |
| `StreamReceiver_proofs` | its theorems |
| `MCStreamReceiver` | TLC instance |

How they fit together: `SignalingServer` is the room service at the granularity of
threads. `SignalingClient` and `PeerConnections` see of it only the messages it sends
and that a room can end. `PeerConnections` goes from a room to a channel and to the end
of a batch, with a file as one message; `BatchTransfer` is the inside of one such batch,
chunk by chunk. `StreamReceiver` takes the place of the receiver's memory there.

Definitions named `X_Something` with the comment "Mutant" are not part of a
specification. They are wrong versions of `X`, one for every property checked;
replacing `X` by them makes TLC report that property.

### SignalingServer

`rooms`, `sender`, `receiver`, `sessionToRoom` are the code's fields (`Room` objects
are identities, so that a room stored under a reused code is another room).
`call[s]` is the point and the locals of the handler the thread of session `s`
executes, `sweep` those of the scheduler's thread. `conn` is `isOpen()` plus the
close callback. `wire` is the message just sent from one session's call to
another session, `entered` a history of who was ever written into a room.

A handler is a sequence of actions, `HandleCreateRoom, GenerateRoomCode*,
CreatePut, CreateMap`, and so on. Where accesses are merged in one action this is
why no behaviour is lost:

- The handler's own mapping check at the start: only this session's thread ever
  writes a code to `sessionToRoom[s]`. Others only remove it, and a check that
  comes earlier than the removal is a refusal, which changes nothing.
- A send and the tests before it: a send changes no shared state and depends on
  nothing but `isOpen()`, which only turns false. `rooms.get`, `getOtherPeer` and
  the send of the relay are one action on that ground: testing earlier or later
  differs only in a message that is lost or not, and both occur. `peer-disconnected`
  and the removal of the peer's mapping, by contrast, are two actions.
- In `JoinMap` the mapping is put, then the two messages are sent. `room-joined`
  goes to the caller itself, and answers to the caller are not recorded.
- A run of the sweep is any number of visits in any order. `removeIf` of
  ConcurrentHashMap tests an entry, then removes the pair only if it is still the
  pair it tested: hence `CleanupDrop`'s comparison. The lambda's two removals are
  two actions.
- `receiver` is a plain field. The model reads it sequentially consistently; a
  stale read of null gives the same outcomes as the check-then-act race.

Refusals (room full, not found, already in a room, rate limit) answer the caller
and change nothing: they are disabled guards. A call refused by the server's size
limit has already paid its token; that is in `RateLimiter`, where any call may come
at any time. The WebSocket container runs the callbacks of one session one at a
time (`Dispatch`), with a pool of `MaxHandlers` threads.

### RateLimiter

One key (keys share nothing). `computeIfAbsent` and the `synchronized` methods of
the bucket are atomic; the action boundaries are between lookup and consumption
and between the sweep's test and its conditional removal. Doubles become units, one
refilled per tick, so that a token is `Cost` units and the arithmetic is exact.

### BatchTransfer

A tab is single-threaded: an action is what runs between two awaits or callbacks.
`SendNextFile` is the part of `sendNextFile` before the hash, `SendFile` the part
after it; `SendLoop` is one turn of `_sendLoop` after a block has been read,
with `fileSender.reads` the blocks being awaited (there should be one at most);
`ReadFails` is the turn in which the block could not be read, which ends the loop.
`out` is the channel's send buffer, `bufferedAmount` its length, `net` and `back`
what is in flight. `Drain` is the channel: it takes a message out of the buffer and,
when `bufferedAmount` falls across the threshold, runs the `bufferedamountlow`
handler. `webrtc.close()` empties the buffer and may lose any suffix of what is in
flight; the peer then sees the close after the rest. `Break` is a connection that
fails. `SenderBack` and `ReceiverBack` are Back, the logo and the "another" buttons:
they reset the page and leave the transfer running. A file is its place in the
batch, a chunk a range of it, so that a lost, doubled or misplaced piece shows in
the blob. The integrity check and progress display are left out. `left`, `aborted`
and `cut` are history: the sending user went back before the end, somebody
cancelled or the connection failed, the timer closed a channel not yet flushed.

### SharePage and SignalingClient

A browser tab again: one action per event handler. `SharePage` has the user's handlers
and what the signaling callbacks do to the page; `SignalingClient` extends it by the
sockets and defines what the two buttons do. Events of a socket are actions of that
socket (`OnOpen(s)`, `OnClose(s)`, `Lose(s)`, `HandleMessage(s)`) but assign the one
client's fields, as the code's closures over `this` do: `Ended` sets `ws` to null
whichever socket has ended. `awaits[s]` is the click whose promise that socket's
`connect()` returned. `strayTimers` are pending timers that `_reconnectTimer` no longer
refers to, so that `disconnect()` does not clear them. What follows an await of a
promise that resolves in the same turn (`createRoom` after `connect()`) is part of the
same action. The delays of the backoff are left out: a timer fires at some time after
it was set. An open file dialog (`picker`) blocks the page, not the socket. "Another..."
appears when a transfer is complete; here it can be pressed once a room was entered.

### PeerConnections

The n-th room gives rise to two connections, `<<n, "sender">>` of the tab that created
the room and `<<n, "receiver">>` of the one that joined. `rtc`, `dataChannel` and
`isSender` are the manager's fields; `end[p]` is the state of connection p's end of
the channel, so that a connection lives on when the manager has forgotten it. The
handlers of the channel take p, but read and write the fields of the tab. `hashing`,
`sending` and `timers` are the continuations that outlive a connection: hashes being
awaited, send loops, closing timers. A batch has one file, which is one message.
`HandleBatchStart` to `HandleTransferCancelled` are the cases of `onMessage`. `StartBatchSend`
runs whenever the tab is a sender, as `onDataChannelOpen` has it, over the channel the tab
holds.

Abstractions: creating an offer or an answer and sending it is one step with what
caused it; an offer for a leftover connection is accepted or refused as long as that
one is not established, and refused after that; ICE candidates are not modelled
(`addIceCandidate` refuses those of another connection, and a route is found unless the
room ends). `Meet` requires that no progress bar is visible and messages of an earlier
room have arrived: people take seconds to read a code and to type it.

### StreamReceiver

Actions lie between awaits: `initStream` after its awaits (`StreamReady`, `StreamFails`),
`pushChunk`, `finish` up to its first await (`Finish`), from there to the call of `close()`
(`FinishCloses`) and when that has come to an end (`CloseDone`, `CloseFails`), and
`cancel` before and after its await (`Cancel`, `Abort`). While the stream is `"closing"`
anything else may happen. `writePromise` is the sequence of blobs chained to
it so far, `written` how many of them are on the disk; each pending `finish` remembers
how long the chain was when it was called, as `await this.writePromise` does.

## 3. The runs

| Run | Instance | Result |
|---|---|---|
| `server` | 3 sessions, 2 codes, 2 rooms, MAX_ROOMS 1, 2 threads | holds: `TypeOK`, `WireWithinRoom`, `NoMappingAfterClose`, `NoticeIsKept` |
| `server_live` | 2 sessions, 1 code, 3 rooms, 2 threads, the sweep fair | holds: `RoomCountBound`, `ExpiredRoomsGo` |
| `server_orphan` | 2 sessions, 1 code, 1 room, 1 thread and the sweep | `MappingsExpire` violated |
| `server_full` | 3 sessions, 1 code, 1 room | `OneReceiverPerRoom` violated |
| `limiter` | 2 threads, 3 buckets, Burst 2, Cost 2, Idle 2, 7 ticks | holds: `TypeOK`, `BucketBudget`, `GenerationsApart`, `BucketsAreSteady` |
| `limiter_hour` | 1 thread, 2 buckets, a tick of 6 minutes: Burst 5, Cost 2, Idle 5, 9 ticks | `HourlyLimit` violated |
| `transfer` | files of 7 and 3 bytes, chunk 2, block 4, threshold 2 | holds: `TypeOK`, `BufferBounded`, `OneSendLoop`, `FilesArriveWhole`, `TransferEnds`, `SuccessIsShared` |
| `transfer_early` | files of 2 and 1 bytes | `CompleteMeansAll` violated |
| `transfer_flush` | files of 2 and 1 bytes | `DeliveredMeansReceived` violated |
| `client` | 2 files, 2 boxes, 2 sockets, 2 clicks, 2 reconnect attempts, fair | holds: `TypeOK`, `NoReconnectStorm`, `ListIsTrue`, `NoDeadButton`, `OnlyUsersReconnect`, `ComesBack`, `ClickIsAnswered` |
| `session` | 2 tabs, 2 rooms, fair | holds: `TypeOK`, `IdleStartsClean`, `SendersSend`, `Connects` |
| `stream` | 7 chunks of length 1 or 2, writes of 3 or more, fair | holds: `TypeOK`, `DiskIsPrefix`, `CompleteIsWhole`, `BufferStaysSmall`, `Completes`, `CancelReleases` |

What the violated ones show, each a statement of the code's own comments or
messages (quoted in `PROJECT.json`):

- `server_full`: two joins pass the `receiver == null` test together; the room has
  two receivers, and the displaced one still maps to it, so that its close drops
  the room of the other two.
- `server_orphan`: a join checks its room, the sweep removes the room and its
  mappings, the join writes its mapping. The session is "already in a room" as
  long as its browser stays open.
- `limiter_hour`: the numbers of create-room, 5 tokens and one back every 12 minutes, are
  2 units to a token and 1 unit to a tick of 6 minutes. Five rooms at once, and a sixth
  after 12 minutes; by the end of the hour it can be ten, and `BucketBudget` says no more.
- `transfer_early`: Back during a transfer empties the list that the queue runs on;
  after the current file the receiver is told the batch is complete.
- `transfer_flush`: the last megabyte may still be in the buffer when the sender
  reads "successfully delivered" and the one-second timer closes the channel.

What the conditions of these properties leave out is what the code does not
guarantee:

- `NoticeIsKept`: a notice that is owed to the peer of a closing session is lost when the
  peer closes as well, and in five other ways. Another join takes the receiver's place;
  the code is drawn again and put over the room; the sweep expires a room of the session;
  the close of a displaced member removes the session's mapping; or a third session,
  which maps to the same code from a room that is gone, closes and removes the room by
  that code (`rooms.remove(roomCode)`, line 136). The last needs three sessions.
- `TransferEnds`: a block that cannot be read (`fileHandler.js:65`) ends the send loop with
  an entry in the log (96-98), and both tabs keep their progress bars until a user
  gives up. `Completes`: a write or a close that fails is told to nobody either.
- `ComesBack`: a late close event sets `ws` to null over a newer socket, which then
  lives on unused; a client can use up its attempts and give up before that socket
  opens. `ClickIsAnswered`: a click that comes or waits while the connection is lost
  may say "Connecting..." until the user goes back, because `onerror` rejects the
  promise only outside a reconnection. `OnlyUsersReconnect`: `disconnect()` does not know
  of a timer that was overwritten.
- `IdleStartsClean`: a connection made while a hash, a closing timer, a close event or a
  connection dropped unclosed is outstanding can be closed by it, or be sent the old batch.
  `Idle` says when nothing is. The close event was missing from it until the proof was
  attempted: the counterexample needs three rooms, one more than the run has.
  `Connects`: a receiver that still holds a connection from an earlier room uses it for
  the new offer, which may fail.
- `CompleteIsWhole` and `Completes`, besides: chunks that come before the stream is ready are counted
  twice, and the file is closed too early; if the last one comes before, the write goes to a
  stream that is null. `CancelReleases`: a stream that is opened after the cancel stays open.

**Bounds.** Three sessions are what a second receiver or a displaced member
needs, two codes and two rooms what a reused or overwritten code needs; two
worker threads and the sweep give every pairwise race, and each property relates at
most two calls and the sweep. `MAX_ROOMS = 1` makes the size check bite, `MaxAttempts
= 1` covers both ends of the retry loop. With one code, in `server_live`, live rooms and admitted creates together reach their bound,
and the mutant of the size check exceeds it; that live rooms alone exceed `MAX_ROOMS` needs a
second code, and happens in `server`. `RoomCountBounded` holds for any number of codes. Room
objects are not reused (`RoomToSpare`), and a session lives once: a browser that reconnects is another
session. Three buckets allow two evictions of one key, seven ticks the idle time
twice. The files of `transfer` make the loop read two blocks, pause in the
middle of one, and be woken while it awaits the next; the second file shows mixing.
Two clicks are what it takes to have a socket replaced while it is still connecting or
closing, and a stray timer; two boxes and two files are enough for an incomplete
code, a duplicate and a list that shrinks under its indices. With two rooms every
connection has one predecessor of either role, left over in every way the code can leave one;
what several predecessors do together is covered by the proofs, which hold for any number
of rooms. The chunks of `stream` fill a write exactly, overshoot
it, and leave a rest for `finish`.

The runs with symmetry check invariants and, in `limiter`, a refinement without
fairness, all of which treat sessions, codes, rooms, threads and buckets alike;
runs with liveness properties use none.

**Fairness.** Server: `server_live` assumes that the scheduler runs (weak), and nothing of
handlers or browsers. `server_orphan` assumes more, so that its counterexample owes nothing
to a handler that is stuck: a thread in a handler goes on (weak), the close callback is
eventually dispatched although the pool is at times busy (strong: the pool queues
it), and time passes.
Transfer: event loops run, blocks and hashes are eventually read or fail to be, timers
fire, and a channel that is up drains (weak). Users and breakdowns have no fairness. Client: a socket
that connects or closes comes to an end of it, timers fire, messages on an open socket
arrive (weak); `ComesBack` further supposes that connections are one day no longer lost.
Session: signaling messages arrive, and peers with each other's description get a
channel (weak), which is what the STUN and TURN servers are for. Stream: the disk
answers each write and each close, though possibly with an error (weak). `transfer`, `client`, `session` and `stream`
switch deadlock checking off because a transfer ends, clicks and rooms are bounded;
so do the two violation runs of `transfer`.
The server has `AllQuiet` instead, which stutters only when all sessions are closed
and no expired room is left, so a blocked handler would be a deadlock.

## 4. The proofs

Every invariant, action property and refinement that a passing run checks is also proved,
by TLAPS, for all values of the constants that satisfy the assumptions in the modules:
`ServerAssumption`, `LimiterAssumption`, `PageAssumption`, `ClientAssumption`,
`TransferAssumption`, `StreamAssumption`, `ConnectionAssumption` and the two
`NullAssumption`s. They say that sets are finite, bounds are numbers, sizes that the code
divides or counts by are positive, a null is not a value, there are two tabs, and no fewer
sockets than clicks. Files are not empty and a batch has one: `addFiles` refuses empty
files, and the button that creates a room is off without a file.

`SignalingServer_proofs`
- `TypeCorrect`: `TypeOK` is inductive, one step per action. It includes which
  locals a handler has assigned at which point, which the other proofs need.
- `RoomCountBounded`: by `CountInv`, the bound on threads in handlers together with
  `RoomCountBound`. `RoomCountBound` counts the creates that have passed the check
  along with the live rooms: a call that passes the check is one more, beside fewer
  than MAX_ROOMS rooms and the admitted calls of at most MaxHandlers - 1 other
  threads, and a put only moves a call from one count to the other. Counting rooms
  alone would not be inductive.
- `MessagesStayWithinRoom`: by `RoomInv` (whoever is a sender or receiver has
  entered the room; whatever a map or a call refers to is allocated). The mapping
  table plays no part: the relay is safe because `getOtherPeer` asks the room, not
  the code.
- `ClosedIsForgotten`: by `CloseInv` (a closing session's thread writes no mapping,
  a closed session has no call).
- `NoticesAreKept`: an action property, by one lemma for each kind of step. A step of the
  closing session's own thread sends the notice or goes on to the next point of the close
  (`OwnStep`); a step of another thread that spoils it is one of those named (`OtherStep`),
  as is a step of the sweep (`SweepStep`). The invariants say that a session
  whose call is past its first test has no mapping until that call puts one (`MapInv`), and
  that the sweep removes only rooms that have expired (`SweepInv`).

`RateLimiter_proofs`
- `TypeCorrect`, with the level of a bucket within its capacity.
- `BudgetKept`: tokens held plus tokens spent never exceed the capacity plus the
  time since construction. A refill counts from `lastRefillTime`, so the inductive
  form (`BudgetInv`) states the budget up to that moment instead of up to now.
- `GenerationsKeptApart`: the inductive form (`GenerationInv`) says that the bucket
  the sweep has chosen, and every bucket the map has given up, was constructed
  more than the idle time before now, or before its successor's construction.
- `RefillIsSteady`: the refinement of `TokenBuckets`, initial states and steps.

`SignalingClient_proofs`: `Inv` is `TypeOK`, `ListIsTrue`, `NoReconnectStorm` and `Quiet`
together, kept by every step.
- `TypeCorrect`; it includes that `connect()` finds a closed socket to take, which needs the
  count of `NoStorm`: there are no more live sockets than clicks.
- `NoStorm`: live sockets and pending timers, counted together, stay within the clicks so
  far. A timer that fires gives way to a socket, a socket that is lost to a timer, and only a
  click adds one. A timer that is overwritten stays in the sum as a stray one.
- `ListTrue`: `listed` is what `updateFileListUI` last showed; each handler that changes
  `selectedFiles` calls it, or hides the list.
- `ButtonsAlive`: inductive together with `Inv`, which gives the button states their shape:
  a step that disables a button marks it as connecting or empties the list or boxes it
  stands for, and a step that takes the mark away enables the button or hides it.
- `UsersReconnect`: a step property. `Quiet` says that while `intentionalClose` holds the
  timer is cleared and `ws` is not a closed socket.

`BatchTransfer_proofs`
- `TypeCorrect`, with offsets within the file and indices within the batch.
- `FlowControl`: one turn of the loop sends the chunks of a block until the buffer is above
  the threshold. `ChunksUnderThreshold` counts them for any sizes, and the chunk that crosses
  the threshold is the last. The bound also needs that a next file is only prepared when
  there is room for its messages (`Flow`).
- `OneLoop`: `Sending`, that the loop awaits one block, at its offset, or awaits none:
  it is paused, or dead after a block that could not be read.
- `Implements`: the refinement of `FileDelivery`. A batch has a script: the announcement, then
  for each file its start, its pieces and its end, then the end of the batch; `Leads` says
  which message goes from which `Place` to which. `InTransit` is the invariant: what is in
  flight leads from the place where the receiving tab is (`ReceiverAt`) to some place, and
  the send buffer leads from there to the place where the sending tab is (`SenderAt`). Losing a
  suffix of what is in flight keeps the first half, and the second is claimed only while the
  connection lives. That a file is whole when its end arrives follows from `PiecesTo`.

`StreamReceiver_proofs`
- The buffered size and the loop of `initStream` are recursive functions, whose equations are
  proved first, by induction on the number of chunks. The library's induction theorem takes a
  predicate, which the provers cannot instantiate; the lemma `Induction` states induction for
  sets of numbers instead, from the well-foundedness of their order.
- The invariant (`Gathered`) says that there are places in the file at which the writes begin
  and end: each write of the chain is what lies between two of them, what is buffered goes on
  from the last, and the disk holds what lies before the place of the last write done.
- `PrefixOnDisk` and `WholeWhenComplete` follow from it: a `finish` that waits for the whole
  chain waits for a chain whose last place is the end of the file (`HoldsAt`), unless chunks
  came early and were counted twice.
- `SmallBuffer`: `PushReady` bounds the buffer after each chunk pushed on a ready stream.
- `TypeCorrect`: received bytes are those of the chunks arrived, and at most the file once
  more, since `initStream` empties the buffer before it pushes its chunks again.

`PeerConnections_proofs`
- `StartsClean` (`IdleStartsClean`) is the theorem the invariant is built for. `Alone`: a clean
  connection that a tab holds is the connection of the present room, both the tab's
  references are to it, no other end of the tab is open or about to close, and every hash and
  timer of the tab is its own. Hence whatever closes it is on its account (`ClosingStep`, one
  lemma for the five callers of `close()`). `Alive`: a clean connection is held until its own
  end closes, so that no second one is made beside it. `Loops` and `Files` follow the batch: a
  send loop over a clean channel, and a file on its way to its peer, are of its own batch.
- What that needs of the rest: nothing refers to a connection not made yet (`Fresh`), tabs hold
  and send over their own ends (`Own`), a tab that dropped no connection holds all it has not
  closed (`Tight`), and the relay carries the messages of the present room only, each once
  (`Mail`), with the offer and `room-joined` in either order.
- `RolesKept` (`SendersSend`): from `Own` and `Alone`; `TypeCorrect`.

Only model-checked: the liveness properties (`ExpiredRoomsGo`, `TransferEnds`, `SuccessIsShared`, `ComesBack`, `ClickIsAnswered`, `Connects`, `Completes`,
`CancelReleases`). They rest on fairness and on which actions are enabled, which the provers
do not handle. The counterexamples of the runs that expect a violation are TLC's too.

## 5. What is not modelled

- The content of messages, JSON, logging, layout, progress, toasts, the reconnect
  banner, downloads, and SHA-256. Files above 50 MB are not hashed, yet counted as
  verified when both sides skipped. The badge of a batch may be overwritten by the
  verification of an earlier one (`app.js:963`).
- `RateLimitInterceptor`, `RoomController`, `config.js` and the server's configuration:
  stateless, constant or read-only. Doubles that cannot be exact (5 tokens in 3600 s)
  are exact units in `RateLimiter`.
- That a client re-joins its room after a reconnection, as `signaling.js:61` has it:
  no code does. Its session is without a room, and the page goes on showing the code.
- What several batches at a time in one tab do to each other chunk by chunk, including
  files picked again while an old transfer runs on unseen: `PeerConnections` says which
  connection a batch goes over, `BatchTransfer` covers one batch.
- ICE candidates, and the delays of timers.
- A wall clock that is set back (it makes the limiter refill nothing for a while).

## 6. Plan

Done, in this order: `SignalingServer`, `RateLimiter`, `BatchTransfer`, proofs of the
first two, `SharePage` and `SignalingClient`, `PeerConnections`, `StreamReceiver`, proofs of
these and of `BatchTransfer`. Next:

1. The safety part of the liveness properties, proved: that what a `~>` waits for is not
   undone by the steps in between (a room that has expired is not filled again, an end of a
   batch is not taken back).
2. An abstract relay of pairs for `SignalingServer`, with the messages on the wire as its only
   observable, and the refinement of it.
3. The composition of `BatchTransfer` with `StreamReceiver` in the receiver's place.
