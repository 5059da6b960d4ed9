--------------------------- MODULE BatchTransfer ---------------------------
(***************************************************************************)
(* One transfer of a batch of files over an open data channel: the send    *)
(* queue of app.js with its FileSender, the channel between the tabs, and  *)
(* the receiving tab with its FileReceiver (in memory, the only mode       *)
(* app.js uses).                                                           *)
(*                                                                         *)
(* A tab is single-threaded: a callback runs to its next await, and every  *)
(* such stretch is one action.  Lengths are in bytes of the model; a file  *)
(* is identified by its place in the batch the user has picked.            *)
(***************************************************************************)
EXTENDS Naturals, Sequences, FiniteSets

CONSTANTS
    FileSize,           \* sizes of the picked files, a sequence
    CHUNK_SIZE,
    READ_BLOCK_SIZE,
    BUFFER_THRESHOLD,
    MetaSize,           \* length of a JSON message
    NoFile, NoBatch     \* null

Files == 1..Len(FileSize)

ASSUME TransferAssumption ==
    /\ FileSize \in Seq(Nat \ {0})      \* addFiles refuses empty files
    /\ FileSize # <<>>                  \* no room is created without files
    /\ CHUNK_SIZE \in Nat \ {0}
    /\ READ_BLOCK_SIZE \in Nat \ {0}
    /\ BUFFER_THRESHOLD \in Nat
    /\ MetaSize \in Nat
    /\ NoFile \notin Files

Batch == [i \in Files |-> i]

ASSUME NullAssumption == NoBatch \notin {Batch, <<>>}

VARIABLES
    \* the sending tab
    selectedFiles,        \* files picked and not reset
    started,              \* the channel's open event has been handled
    sendFileIndex,
    hashing,              \* the file sendNextFile awaits the hash of
    fileSender,           \* the FileSender in use, NoSender when null
    timer,                \* the timer that closes the connection is running
    \* the receiving tab
    batchMetadata,        \* files of the batch-start message
    receivedFiles,        \* sequence of files with the pieces in their blob
    fileReceiver,         \* the FileReceiver in use, NoReceiver when null
    \* both tabs
    shown,                \* which of the tab's sections is visible
    transferSuccessful,
    \* the connection
    channel,              \* whether the tab's data channel is open
    link,                 \* whether the connection carries anything
    bufferedAmount,       \* of the sending tab's data channel
    out,                  \* its send buffer
    net,                  \* in flight to the receiving tab
    back,                 \* in flight to the sending tab
    \* history
    outcome,              \* what a tab's user was last told of the transfer
    left,                 \* the sending user went back before the end
    aborted,              \* somebody cancelled, or the connection broke
    cut                   \* the timer closed a channel not flushed

sendVars == <<selectedFiles, started, sendFileIndex, hashing, fileSender, timer>>
receiveVars == <<batchMetadata, receivedFiles, fileReceiver>>
tabVars == <<shown, transferSuccessful, outcome>>
linkVars == <<channel, link, bufferedAmount, out, net, back>>
historyVars == <<left, aborted, cut>>

vars == <<sendVars, receiveVars, tabVars, linkVars, historyVars>>

-----------------------------------------------------------------------------
Least(a, b) == IF a <= b THEN a ELSE b

NoSender == [file |-> NoFile, offset |-> 0, paused |-> FALSE, reads |-> <<>>]

NoReceiver == [file |-> NoFile, receivedBytes |-> 0, chunks |-> <<>>]

Data(f, from, len) == [type |-> "data", file |-> f, from |-> from, len |-> len]

Meta(type, f) == [type |-> type, file |-> f, from |-> 0, len |-> MetaSize]

BatchStart == [type |-> "batch-start", files |-> selectedFiles, len |-> MetaSize]

Closed == [type |-> "closed"]

Prefixes(q) == {SubSeq(q, 1, n) : n \in 0..Len(q)}

Set(f, tab, v) == [f EXCEPT ![tab] = v]

-----------------------------------------------------------------------------
(* The connection.                                                         *)

(* dataChannel.send of several messages, "size" bytes in all; sendMetadata *)
(* leaves a channel alone that is not open.                                *)
Transmit(msgs, size) ==
    IF channel["sender"] = "open"
    THEN out' = out \o msgs /\ bufferedAmount' = bufferedAmount + size
    ELSE UNCHANGED <<out, bufferedAmount>>

(* webrtc.close(): the channel and the peer connection are closed at once. *)
(* What has not arrived is lost from some point on; then the peer notices. *)
CloseSender(pending) ==
    /\ channel' = Set(channel, "sender", "closed")
    /\ link' = "down"
    /\ out' = <<>> /\ bufferedAmount' = 0
    /\ IF link = "up" /\ channel["sender"] = "open"
       THEN \E p \in Prefixes(net \o out \o pending) : net' = Append(p, Closed)
       ELSE UNCHANGED net
    /\ UNCHANGED back

CloseReceiver(pending) ==
    /\ channel' = Set(channel, "receiver", "closed")
    /\ link' = "down"
    /\ net' = <<>>
    /\ IF link = "up" /\ channel["receiver"] = "open"
       THEN \E p \in Prefixes(back \o pending) : back' = Append(p, Closed)
       ELSE UNCHANGED back
    /\ UNCHANGED <<out, bufferedAmount>>

(* The connection breaks by itself.                                        *)
Break ==
    /\ link = "up"
    /\ link' = "down"
    /\ \E p \in Prefixes(net) : net' = Append(p, Closed)
    /\ \E p \in Prefixes(back) : back' = Append(p, Closed)
    /\ aborted' = TRUE
    /\ UNCHANGED <<sendVars, receiveVars, tabVars, channel, out, bufferedAmount,
                   left, cut>>

-----------------------------------------------------------------------------
(* The sending tab.                                                        *)

(* Mutant: the end of the batch is shown and not sent.                     *)
SendNextFile_NotTold(i, msgs, size) ==
    /\ sendFileIndex' = i
    /\ Transmit(msgs, size)
    /\ IF i >= Len(selectedFiles)
       THEN /\ hashing' = NoFile
            /\ timer' = TRUE
            /\ shown' = Set(shown, "sender", "complete")
            /\ transferSuccessful' = Set(transferSuccessful, "sender", TRUE)
            /\ outcome' = Set(outcome, "sender", "complete")
       ELSE hashing' = selectedFiles[i + 1] /\ UNCHANGED <<timer, tabVars>>

(* sendNextFile up to its await, called with index i after "msgs" were     *)
(* handed to the channel.  At the end of the list the batch is complete    *)
(* and the timer that closes the connection is started.                    *)
SendNextFile(i, msgs, size) ==
    /\ sendFileIndex' = i
    /\ IF i >= Len(selectedFiles)
       THEN /\ Transmit(Append(msgs, Meta("batch-complete", NoFile)),
                        size + MetaSize)
            /\ hashing' = NoFile
            /\ timer' = TRUE
            /\ shown' = Set(shown, "sender", "complete")
            /\ transferSuccessful' = Set(transferSuccessful, "sender", TRUE)
            /\ outcome' = Set(outcome, "sender", "complete")
       ELSE /\ Transmit(msgs, size)
            /\ hashing' = selectedFiles[i + 1]
            /\ UNCHANGED <<timer, tabVars>>

(* onDataChannelOpen: startBatchSend.                                      *)
StartBatchSend ==
    /\ ~started /\ channel["sender"] = "open"
    /\ started' = TRUE
    /\ sendFileIndex' = 0
    /\ IF selectedFiles = <<>>
       THEN /\ Transmit(<<BatchStart, Meta("batch-complete", NoFile)>>,
                        2 * MetaSize)
            /\ hashing' = NoFile
            /\ timer' = TRUE
            /\ shown' = Set(shown, "sender", "complete")
            /\ transferSuccessful' = Set(transferSuccessful, "sender", TRUE)
            /\ outcome' = Set(outcome, "sender", "complete")
       ELSE /\ Transmit(<<BatchStart>>, MetaSize)
            /\ hashing' = selectedFiles[1]
            /\ shown' = Set(shown, "sender", "transfer")
            /\ UNCHANGED <<timer, transferSuccessful, outcome>>
    /\ UNCHANGED <<selectedFiles, fileSender, receiveVars, channel, link, net,
                   back, historyVars>>

(* sendNextFile after the await: the file is announced and a FileSender    *)
(* started, whose send loop awaits its first block.  On a channel that is  *)
(* closed by now the constructor or the first send throws, and that is all. *)
SendFile ==
    /\ hashing # NoFile
    /\ hashing' = NoFile
    /\ Transmit(<<Meta("file-start", hashing)>>, MetaSize)
    /\ fileSender' = IF channel["sender"] = "open"
                     THEN [file |-> hashing, offset |-> 0, paused |-> FALSE,
                           reads |-> <<0>>]
                     ELSE fileSender
    /\ UNCHANGED <<selectedFiles, started, sendFileIndex, timer, receiveVars,
                   tabVars, channel, link, net, back, historyVars>>

(* _sendLoop after its await, "reads" being the places of the blocks that  *)
(* are awaited.  The block is sent in chunks until the buffer is above the *)
(* threshold; then the loop pauses.  Otherwise it goes on to the next      *)
(* block or completes the file.                                            *)
BlockLength_NotClipped == READ_BLOCK_SIZE    \* mutant: slice past the end

BlockLength ==
    Least(READ_BLOCK_SIZE, FileSize[fileSender.file] - Head(fileSender.reads))

BlockChunks == (BlockLength + CHUNK_SIZE - 1) \div CHUNK_SIZE

ChunksToSend_NoFlowControl == BlockChunks    \* mutant: never pauses

ChunksToSend_PauseAtThreshold ==             \* mutant: pauses one byte early
    Cardinality({k \in 0..(BlockChunks - 1) :
                    bufferedAmount + k * CHUNK_SIZE < BUFFER_THRESHOLD})

(* How many chunks of the block find the buffer not above the threshold.   *)
ChunksToSend ==
    Cardinality({k \in 0..(BlockChunks - 1) :
                    bufferedAmount + k * CHUNK_SIZE <= BUFFER_THRESHOLD})

Chunk(k) ==
    Data(fileSender.file, Head(fileSender.reads) + (k - 1) * CHUNK_SIZE,
         Least(CHUNK_SIZE, BlockLength - (k - 1) * CHUNK_SIZE))

SendLoop ==
    /\ fileSender.reads # <<>>
    /\ LET n == ChunksToSend
           chunks == [k \in 1..n |-> Chunk(k)]
           sent == Least(n * CHUNK_SIZE, BlockLength)
           offset == fileSender.offset + sent
           reads == Tail(fileSender.reads)
       IN  IF channel["sender"] # "open"
           THEN \* send throws and the loop ends
                /\ fileSender' = [fileSender EXCEPT !.reads = reads]
                /\ UNCHANGED <<sendFileIndex, hashing, timer, tabVars, out,
                               bufferedAmount>>
           ELSE IF n < BlockChunks
           THEN /\ fileSender' = [fileSender EXCEPT !.offset = offset,
                                     !.paused = TRUE, !.reads = reads]
                /\ Transmit(chunks, sent)
                /\ UNCHANGED <<sendFileIndex, hashing, timer, tabVars>>
           ELSE IF offset < FileSize[fileSender.file]
           THEN /\ fileSender' = [fileSender EXCEPT !.offset = offset,
                                     !.reads = Append(reads, offset)]
                /\ Transmit(chunks, sent)
                /\ UNCHANGED <<sendFileIndex, hashing, timer, tabVars>>
           ELSE \* cleanup() and onComplete
                /\ fileSender' = NoSender
                /\ SendNextFile(sendFileIndex + 1,
                       Append(chunks, Meta("file-end", NoFile)), sent + MetaSize)
    /\ UNCHANGED <<selectedFiles, started, receiveVars, channel, link, net, back,
                   historyVars>>

(* The block cannot be read (the file was moved, changed or made private   *)
(* since it was picked): the loop logs the error and ends.  It is not      *)
(* paused, so no event wakes it, and neither tab is told.                  *)
ReadFails ==
    /\ fileSender.reads # <<>>
    /\ fileSender' = [fileSender EXCEPT !.reads = Tail(@)]
    /\ UNCHANGED <<selectedFiles, started, sendFileIndex, hashing, timer,
                   receiveVars, tabVars, linkVars, historyVars>>

(* _onBufferLow: the event wakes a FileSender that is paused.              *)
OnBufferLow_NotPaused ==     \* mutant: wakes one that awaits a block, too
    fileSender' = IF fileSender # NoSender
                  THEN [fileSender EXCEPT !.paused = FALSE,
                            !.reads = Append(@, fileSender.offset)]
                  ELSE fileSender

OnBufferLow ==
    fileSender' = IF fileSender.paused
                  THEN [fileSender EXCEPT !.paused = FALSE,
                            !.reads = Append(@, fileSender.offset)]
                  ELSE fileSender

(* The channel hands a message to the network.  When bufferedAmount falls  *)
(* to the threshold, bufferedamountlow is fired.                           *)
Drain ==
    /\ channel["sender"] = "open" /\ link = "up" /\ out # <<>>
    /\ out' = Tail(out)
    /\ net' = Append(net, Head(out))
    /\ bufferedAmount' = bufferedAmount - Head(out).len
    /\ IF bufferedAmount > BUFFER_THRESHOLD /\ bufferedAmount' <= BUFFER_THRESHOLD
       THEN OnBufferLow
       ELSE UNCHANGED fileSender
    /\ UNCHANGED <<selectedFiles, started, sendFileIndex, hashing, timer,
                   receiveVars, tabVars, channel, link, back, historyVars>>

(* The timer, a second after the last message was handed to the channel,   *)
(* which may or may not be flushed by now.                                 *)
CloseTimer ==
    /\ timer
    /\ timer' = FALSE
    /\ cut' = (link = "up" /\ out \o net # <<>>)
    /\ CloseSender(<<>>)
    /\ UNCHANGED <<selectedFiles, started, sendFileIndex, hashing, fileSender,
                   receiveVars, tabVars, left, aborted>>

(* cancelTransfer on the sending tab.                                      *)
CancelSending(pending) ==
    /\ fileSender' = NoSender
    /\ CloseSender(pending)
    /\ selectedFiles' = <<>>
    /\ shown' = Set(shown, "sender", "none")
    /\ outcome' = Set(outcome, "sender", "cancelled")
    /\ UNCHANGED <<started, sendFileIndex, hashing, timer, receiveVars,
                   transferSuccessful, left, cut>>

CancelSendClick ==
    /\ shown["sender"] = "transfer"
    /\ CancelSending(<<Meta("transfer-cancelled", NoFile)>>)
    /\ aborted' = TRUE

(* A message or the end of the channel reaches the sending tab.            *)
SenderOnMessage ==
    /\ channel["sender"] = "open" /\ back # <<>>
    /\ Head(back).type = "transfer-cancelled"
    /\ CancelSending(<<>>)
    /\ UNCHANGED aborted

SenderOnClose ==
    /\ channel["sender"] = "open" /\ back # <<>>
    /\ Head(back).type = "closed"
    /\ IF shown["sender"] = "transfer" /\ ~transferSuccessful["sender"]
       THEN CancelSending(<<>>)
       ELSE /\ channel' = Set(channel, "sender", "closed")
            /\ UNCHANGED <<sendVars, receiveVars, tabVars, link, bufferedAmount,
                           out, net, back, left, cut>>
    /\ UNCHANGED aborted

(* Back or the logo: resetSendView.  The transfer goes on behind it.       *)
SenderBack ==
    /\ selectedFiles # <<>> \/ shown["sender"] # "none"
    /\ selectedFiles' = <<>>
    /\ shown' = Set(shown, "sender", "none")
    /\ left' = (left \/ outcome["sender"] # "complete")
    /\ UNCHANGED <<started, sendFileIndex, hashing, fileSender, timer,
                   receiveVars, transferSuccessful, outcome, linkVars, aborted,
                   cut>>

-----------------------------------------------------------------------------
(* The receiving tab.                                                      *)

(* cancelTransfer on the receiving tab.                                    *)
CancelReceiving(pending) ==
    /\ fileReceiver' = NoReceiver
    /\ CloseReceiver(pending)
    /\ shown' = Set(shown, "receiver", "none")
    /\ outcome' = Set(outcome, "receiver", "cancelled")
    /\ UNCHANGED <<sendVars, batchMetadata, receivedFiles, transferSuccessful,
                   left, cut>>

CancelReceiveClick ==
    /\ shown["receiver"] = "transfer"
    /\ CancelReceiving(<<Meta("transfer-cancelled", NoFile)>>)
    /\ aborted' = TRUE

(* Receives(type): the next thing to reach the tab is of that type.        *)
Receives(type) ==
    /\ channel["receiver"] = "open" /\ net # <<>>
    /\ Head(net).type = type

Consume ==
    /\ net' = Tail(net)
    /\ UNCHANGED <<channel, link, bufferedAmount, out, back>>

HandleBatchStart ==
    /\ Receives("batch-start")
    /\ batchMetadata' = Head(net).files
    /\ receivedFiles' = <<>>
    /\ transferSuccessful' = Set(transferSuccessful, "receiver", FALSE)
    /\ shown' = Set(shown, "receiver", "transfer")
    /\ Consume
    /\ UNCHANGED <<sendVars, fileReceiver, outcome, historyVars>>

HandleFileStart_KeepChunks ==    \* mutant: the FileReceiver is used again
    /\ Receives("file-start")
    /\ fileReceiver' = [fileReceiver EXCEPT !.file = Head(net).file]
    /\ Consume
    /\ UNCHANGED <<sendVars, batchMetadata, receivedFiles, tabVars, historyVars>>

HandleFileStart ==
    /\ Receives("file-start")
    /\ fileReceiver' = [file |-> Head(net).file, receivedBytes |-> 0,
                        chunks |-> <<>>]
    /\ Consume
    /\ UNCHANGED <<sendVars, batchMetadata, receivedFiles, tabVars, historyVars>>

(* pushChunk, and finish() once the bytes of the file are there.           *)
OnBinaryMessage ==
    /\ Receives("data")
    /\ LET chunks == Append(fileReceiver.chunks, Head(net))
           bytes == fileReceiver.receivedBytes + Head(net).len
       IN  IF fileReceiver.file = NoFile
           THEN UNCHANGED <<fileReceiver, receivedFiles>>
           ELSE IF bytes >= FileSize[fileReceiver.file]
           THEN /\ fileReceiver' = [fileReceiver EXCEPT !.chunks = <<>>,
                                       !.receivedBytes = bytes]
                /\ receivedFiles' = Append(receivedFiles,
                       [name |-> fileReceiver.file, blob |-> chunks])
           ELSE /\ fileReceiver' = [fileReceiver EXCEPT !.chunks = chunks,
                                       !.receivedBytes = bytes]
                /\ UNCHANGED receivedFiles
    /\ Consume
    /\ UNCHANGED <<sendVars, batchMetadata, tabVars, historyVars>>

HandleFileEnd ==
    /\ Receives("file-end")
    /\ Consume
    /\ UNCHANGED <<sendVars, receiveVars, tabVars, historyVars>>

HandleBatchComplete ==
    /\ Receives("batch-complete")
    /\ transferSuccessful' = Set(transferSuccessful, "receiver", TRUE)
    /\ shown' = Set(shown, "receiver", "complete")
    /\ outcome' = Set(outcome, "receiver", "complete")
    /\ CloseReceiver(<<>>)
    /\ UNCHANGED <<sendVars, receiveVars, historyVars>>

HandleTransferCancelled ==
    /\ Receives("transfer-cancelled")
    /\ CancelReceiving(<<>>)
    /\ UNCHANGED aborted

ReceiverOnClose ==
    /\ Receives("closed")
    /\ IF shown["receiver"] = "transfer" /\ ~transferSuccessful["receiver"]
       THEN CancelReceiving(<<>>)
       ELSE /\ channel' = Set(channel, "receiver", "closed")
            /\ UNCHANGED <<sendVars, receiveVars, tabVars, link, bufferedAmount,
                           out, net, back, left, cut>>
    /\ UNCHANGED aborted

(* Back or the logo: resetReceiveView.                                     *)
ReceiverBack ==
    /\ shown["receiver"] # "none"
    /\ shown' = Set(shown, "receiver", "none")
    /\ UNCHANGED <<sendVars, receiveVars, transferSuccessful, outcome, linkVars,
                   historyVars>>

-----------------------------------------------------------------------------
Tabs == {"sender", "receiver"}

Init ==
    /\ selectedFiles = Batch
    /\ started = FALSE
    /\ sendFileIndex = 0
    /\ hashing = NoFile
    /\ fileSender = NoSender
    /\ timer = FALSE
    /\ batchMetadata = NoBatch
    /\ receivedFiles = <<>>
    /\ fileReceiver = NoReceiver
    /\ shown = [t \in Tabs |-> "none"]
    /\ transferSuccessful = [t \in Tabs |-> FALSE]
    /\ channel = [t \in Tabs |-> "open"]
    /\ link = "up"
    /\ bufferedAmount = 0
    /\ out = <<>> /\ net = <<>> /\ back = <<>>
    /\ outcome = [t \in Tabs |-> "none"]
    /\ left = FALSE /\ aborted = FALSE /\ cut = FALSE

SenderTab == StartBatchSend \/ SendFile \/ SendLoop \/ ReadFails \/ CloseTimer
             \/ SenderOnMessage \/ SenderOnClose

ReceiverTab == HandleBatchStart \/ HandleFileStart \/ OnBinaryMessage
               \/ HandleFileEnd \/ HandleBatchComplete
               \/ HandleTransferCancelled \/ ReceiverOnClose

Users == CancelSendClick \/ CancelReceiveClick \/ SenderBack \/ ReceiverBack

Next == SenderTab \/ ReceiverTab \/ Users \/ Drain \/ Break

Spec == Init /\ [][Next]_vars

(* The event loops of both tabs run, a read that is awaited succeeds or    *)
(* fails, and a connection that is up carries what it is given.  Users and *)
(* breakdowns are not obliged to happen.                                   *)
Fairness ==
    /\ WF_vars(StartBatchSend) /\ WF_vars(SendFile)
    /\ WF_vars(SendLoop \/ ReadFails)
    /\ WF_vars(SenderOnMessage \/ SenderOnClose) /\ WF_vars(ReceiverTab)
    /\ WF_vars(Drain) /\ WF_vars(CloseTimer)

FairSpec == Spec /\ Fairness

-----------------------------------------------------------------------------
Pieces == UNION {{Data(f, a, n) : a \in 0..FileSize[f], n \in 0..FileSize[f]} :
                    f \in Files}

(* Offsets and byte counts stay within the file, indices within the batch, *)
(* and a blob is made of pieces of files.                                  *)
TypeOK ==
    /\ selectedFiles \in {Batch, <<>>}
    /\ started \in BOOLEAN /\ timer \in BOOLEAN
    /\ left \in BOOLEAN /\ aborted \in BOOLEAN /\ cut \in BOOLEAN
    /\ sendFileIndex \in 0..Len(FileSize)
    /\ hashing \in Files \cup {NoFile}
    /\ \/ fileSender = NoSender
       \/ /\ fileSender.file \in Files
          /\ fileSender.offset \in 0..FileSize[fileSender.file]
          /\ fileSender.paused \in BOOLEAN
          /\ fileSender.reads \in Seq(0..FileSize[fileSender.file])
    /\ batchMetadata \in {NoBatch, Batch, <<>>}
    /\ receivedFiles \in Seq([name : Files, blob : Seq(Pieces)])
    /\ \/ fileReceiver = NoReceiver
       \/ /\ fileReceiver.file \in Files
          /\ fileReceiver.receivedBytes \in 0..FileSize[fileReceiver.file]
          /\ fileReceiver.chunks \in Seq(Pieces)
    /\ shown \in [Tabs -> {"none", "transfer", "complete"}]
    /\ transferSuccessful \in [Tabs -> BOOLEAN]
    /\ channel \in [Tabs -> {"open", "closed"}]
    /\ link \in {"up", "down"}
    /\ bufferedAmount \in Nat
    /\ outcome \in [Tabs -> {"none", "complete", "cancelled"}]

(* Flow control: however large the files, the send buffer never holds more *)
(* than the threshold, one chunk and the two messages between files.       *)
BufferBounded == bufferedAmount <= BUFFER_THRESHOLD + CHUNK_SIZE + 2 * MetaSize

(* A file is sent by one loop: a wake-up never starts a second one beside  *)
(* a loop that awaits a block, and no next file is prepared meanwhile.     *)
OneSendLoop ==
    /\ Len(fileSender.reads) <= 1
    /\ fileSender.paused => fileSender.reads = <<>>
    /\ hashing # NoFile => fileSender = NoSender

(* A blob is whole when its pieces, put end to end, are the file.          *)
Whole(name, blob) ==
    LET end(i) == blob[i].from + blob[i].len
    IN  /\ blob # <<>>
        /\ \A i \in 1..Len(blob) : blob[i].file = name
        /\ blob[1].from = 0
        /\ \A i \in 1..(Len(blob) - 1) : blob[i + 1].from = end(i)
        /\ end(Len(blob)) = FileSize[name]

Delivered ==
    [i \in 1..Len(receivedFiles) |->
        IF Whole(receivedFiles[i].name, receivedFiles[i].blob)
        THEN receivedFiles[i].name ELSE NoFile]

Delivery == INSTANCE FileDelivery WITH
    announced <- batchMetadata,
    delivered <- Delivered,
    outcome   <- outcome["receiver"],
    abandoned <- left

(* Whatever is cancelled, cut or closed in between, the receiving tab gets *)
(* the announced files whole and in order, each once, and is told at most  *)
(* once how the batch ended; "complete" only after the last file, unless   *)
(* the sending user went back to the home page.                            *)
FilesArriveWhole == Delivery!Spec

(* What app.js tells the sending user when its queue is empty ("... files  *)
(* successfully delivered."): the receiving user is not told, nobody       *)
(* having cancelled or left and the connection having held, that the       *)
(* transfer was cancelled.                                                 *)
DeliveredMeansReceived ==
    outcome["sender"] = "complete" /\ ~aborted /\ ~left
        => outcome["receiver"] # "cancelled"

(* The comment over handleBatchComplete, "All files have been received.":  *)
(* a batch the receiving user is told is complete has arrived as announced. *)
CompleteMeansAll ==
    outcome["receiver"] = "complete" => Delivered = batchMetadata

(* The send loop of the file has ended before the end of the file, on an   *)
(* open channel, and is not to be woken: a block could not be read.        *)
SendLoopIsDead ==
    /\ channel["sender"] = "open" /\ fileSender # NoSender
    /\ fileSender.reads = <<>> /\ ~fileSender.paused

(* A tab that shows its progress bar stops showing it: no wake-up of the   *)
(* send loop is lost and no end of the channel is overlooked.  There is    *)
(* one way for it to hang, in both tabs at once and until a user gives up: *)
(* a block that cannot be read.                                            *)
TransferEnds ==
    \A t \in Tabs :
        shown[t] = "transfer" ~> (shown[t] # "transfer" \/ []SendLoopIsDead)

(* A batch the sending tab calls complete is completed by the receiving    *)
(* tab, unless somebody cancels, the connection breaks, or the timer cuts  *)
(* it off before the last message has arrived.                             *)
SuccessIsShared ==
    outcome["sender"] = "complete"
        ~> outcome["receiver"] = "complete" \/ aborted \/ cut
=============================================================================
