--------------------------- MODULE StreamReceiver ---------------------------
(***************************************************************************)
(* FileReceiver with a directory handle (fileHandler.js): the chunks of a  *)
(* file arrive while its stream on the disk is being opened, are gathered  *)
(* into larger writes, and the writes chained behind one another.          *)
(*                                                                         *)
(* Every stretch of code between two awaits is one action.  A chunk is     *)
(* known by its place in the file.                                         *)
(***************************************************************************)
EXTENDS Naturals, Sequences

CONSTANTS
    ChunkSize,              \* lengths of the chunks of the file, a sequence
    WRITE_BUFFER_SIZE

ASSUME StreamAssumption ==
    /\ ChunkSize \in Seq(Nat \ {0})
    /\ WRITE_BUFFER_SIZE \in Nat \ {0}

Chunk == 1..Len(ChunkSize)

Bytes(cs) ==
    LET sum[n \in 0..Len(cs)] == IF n = 0 THEN 0 ELSE sum[n - 1] + ChunkSize[cs[n]]
    IN  sum[Len(cs)]

FileSize == Bytes([i \in Chunk |-> i])

VARIABLES
    arrived,            \* how many chunks the sender has delivered
    stream,             \* "opening", "ready" or "failed" (fallback to memory)
    recv,               \* what pushChunk works on:
                        \*   chunks, receivedBytes
                        \*   writePromise: all blobs chained to it so far
                        \*   finishes: for each call of finish that awaits
                        \*     writePromise, how many blobs that covers
                        \*   blobs: what onComplete was called with in memory
                        \*   rejected: writePromise has been rejected
    disk,               \* chunks written
    written,            \* blobs written
    file,               \* "none", "open", "closing" while close() is awaited,
                        \*   "closed", "broken" when close() failed, "aborted"
    completed,          \* calls of onComplete
    cancelled,
    aborting,           \* cancel awaits writePromise
    early               \* history: a chunk came before the stream was ready

vars == <<arrived, stream, recv, disk, written, file, completed, cancelled,
          aborting, early>>

-----------------------------------------------------------------------------
Chain_Swapped(r) ==     \* mutant: the buffer is emptied before it is used
    [r EXCEPT !.chunks = <<>>, !.writePromise = Append(@, <<>>)]

(* The buffered chunks become one write behind those before it.            *)
Chain(r) == [r EXCEPT !.chunks = <<>>, !.writePromise = Append(@, r.chunks)]

Finish_NoFlush(r, state) ==     \* mutant: what is buffered stays there
    IF state = "failed"
    THEN [r EXCEPT !.chunks = <<>>, !.blobs = Append(@, r.chunks)]
    ELSE [r EXCEPT !.finishes = Append(@, Len(r.writePromise))]

(* finish, up to its await.  Without a stream the write throws.            *)
Finish(r, state) ==
    IF state = "failed"
    THEN [r EXCEPT !.chunks = <<>>, !.blobs = Append(@, r.chunks)]
    ELSE LET flushed == IF r.chunks = <<>> THEN r ELSE Chain(r)
         IN  [flushed EXCEPT
                 !.rejected = @ \/ (state = "opening" /\ r.chunks # <<>>),
                 !.finishes = Append(@, Len(flushed.writePromise))]

PushChunk_OffByOne(r, c, state) ==      \* mutant: > for >=
    LET pushed == [r EXCEPT !.chunks = Append(@, c),
                            !.receivedBytes = @ + ChunkSize[c]]
        buffered == IF state = "ready"
                       /\ Bytes(pushed.chunks) >= WRITE_BUFFER_SIZE
                    THEN Chain(pushed) ELSE pushed
    IN  IF buffered.receivedBytes > FileSize THEN Finish(buffered, state)
        ELSE buffered

PushChunk_CountChunks(r, c, state) ==   \* mutant: the buffer is never full
    LET pushed == [r EXCEPT !.chunks = Append(@, c),
                            !.receivedBytes = @ + ChunkSize[c]]
    IN  IF pushed.receivedBytes >= FileSize THEN Finish(pushed, state) ELSE pushed

(* pushChunk.                                                              *)
PushChunk(r, c, state) ==
    LET pushed == [r EXCEPT !.chunks = Append(@, c),
                            !.receivedBytes = @ + ChunkSize[c]]
        buffered == IF state = "ready"
                       /\ Bytes(pushed.chunks) >= WRITE_BUFFER_SIZE
                    THEN Chain(pushed) ELSE pushed
    IN  IF buffered.receivedBytes >= FileSize THEN Finish(buffered, state)
        ELSE buffered

(* onBinaryMessage.                                                        *)
OnBinaryMessage ==
    /\ ~cancelled /\ arrived < Len(ChunkSize)
    /\ arrived' = arrived + 1
    /\ recv' = PushChunk(recv, arrived', stream)
    /\ completed' = completed + Len(recv'.blobs) - Len(recv.blobs)
    /\ early' = (early \/ stream = "opening")
    /\ UNCHANGED <<stream, disk, written, file, cancelled, aborting>>

(* pushChunk for each of the chunks "cs".                                  *)
PushAll(r, cs) ==
    LET pushed[n \in 0..Len(cs)] ==
            IF n = 0 THEN r ELSE PushChunk(pushed[n - 1], cs[n], "ready")
    IN  pushed[Len(cs)]

(* initStream after its awaits: what has gathered is pushed once more, and *)
(* counted once more; or the file cannot be opened.                        *)
StreamReady ==
    /\ stream = "opening"
    /\ stream' = "ready" /\ file' = "open"
    /\ recv' = PushAll([recv EXCEPT !.chunks = <<>>], recv.chunks)
    /\ UNCHANGED <<arrived, disk, written, completed, cancelled, aborting, early>>

StreamFails ==
    /\ stream = "opening"
    /\ stream' = "failed"
    /\ UNCHANGED <<arrived, recv, disk, written, file, completed, cancelled,
                   aborting, early>>

-----------------------------------------------------------------------------
(* The next write of the chain is done, or fails and takes the rest of the *)
(* chain with it.                                                          *)
Pending == stream = "ready" /\ ~recv.rejected /\ written < Len(recv.writePromise)

WriteDone ==
    /\ Pending /\ file = "open"
    /\ disk' = disk \o recv.writePromise[written + 1]
    /\ written' = written + 1
    /\ UNCHANGED <<arrived, stream, recv, file, completed, cancelled, aborting,
                   early>>

WriteFails_Ignored ==       \* mutant: the chain goes on after a failure
    /\ Pending
    /\ written' = written + 1
    /\ UNCHANGED <<arrived, stream, recv, disk, file, completed, cancelled,
                   aborting, early>>

WriteFails ==
    /\ Pending
    /\ recv' = [recv EXCEPT !.rejected = TRUE]
    /\ UNCHANGED <<arrived, stream, disk, written, file, completed, cancelled,
                   aborting, early>>

(* finish after its first await: close() is called, and refused if the     *)
(* file is not open.  What it flushes and checks takes time ...            *)
FinishCloses ==
    /\ recv.finishes # <<>> /\ Head(recv.finishes) <= written
    /\ recv' = [recv EXCEPT !.finishes = Tail(@)]
    /\ file' = IF file = "open" THEN "closing" ELSE file
    /\ UNCHANGED <<arrived, stream, disk, written, completed, cancelled, aborting,
                   early>>

(* ... and after the second await onComplete is called ...                 *)
CloseDone ==
    /\ file = "closing"
    /\ file' = "closed" /\ completed' = completed + 1
    /\ UNCHANGED <<arrived, stream, recv, disk, written, cancelled, aborting,
                   early>>

(* ... or close() rejects, finish throws, and nobody is told.              *)
CloseFails ==
    /\ file = "closing"
    /\ file' = "broken"
    /\ UNCHANGED <<arrived, stream, recv, disk, written, completed, cancelled,
                   aborting, early>>

Cancel_IfBuffered ==        \* mutant: nothing buffered, nothing to abort
    /\ ~cancelled
    /\ cancelled' = TRUE
    /\ recv' = [recv EXCEPT !.chunks = <<>>]
    /\ aborting' = (stream = "ready" /\ recv.chunks # <<>>)
    /\ UNCHANGED <<arrived, stream, disk, written, file, completed, early>>

(* cancel, up to its await and after it.  A close that is under way is not *)
(* taken back by abort(), which waits for it.                              *)
Cancel ==
    /\ ~cancelled
    /\ cancelled' = TRUE
    /\ recv' = [recv EXCEPT !.chunks = <<>>]
    /\ aborting' = (stream = "ready")
    /\ UNCHANGED <<arrived, stream, disk, written, file, completed, early>>

Abort ==
    /\ aborting /\ written = Len(recv.writePromise)
    /\ aborting' = FALSE
    /\ file' = IF file = "open" THEN "aborted" ELSE file
    /\ UNCHANGED <<arrived, stream, recv, disk, written, completed, cancelled,
                   early>>

-----------------------------------------------------------------------------
Init ==
    /\ arrived = 0
    /\ stream = "opening" /\ file = "none"
    /\ recv = [chunks |-> <<>>, receivedBytes |-> 0, writePromise |-> <<>>,
               finishes |-> <<>>, blobs |-> <<>>, rejected |-> FALSE]
    /\ disk = <<>> /\ written = 0
    /\ completed = 0
    /\ cancelled = FALSE /\ aborting = FALSE /\ early = FALSE

Next == OnBinaryMessage \/ StreamReady \/ StreamFails \/ WriteDone \/ WriteFails
        \/ FinishCloses \/ CloseDone \/ CloseFails \/ Cancel \/ Abort

Spec == Init /\ [][Next]_vars

(* The disk answers, if only with a failure, and what awaits it goes on.   *)
Fairness ==
    /\ WF_vars(WriteDone \/ WriteFails) /\ WF_vars(CloseDone \/ CloseFails)
    /\ WF_vars(FinishCloses) /\ WF_vars(Abort)

FairSpec == Spec /\ Fairness

-----------------------------------------------------------------------------
TypeOK ==
    /\ arrived \in 0..Len(ChunkSize)
    /\ stream \in {"opening", "ready", "failed"}
    /\ recv.chunks \in Seq(Chunk) /\ recv.receivedBytes \in 0..(2 * FileSize)
    /\ recv.writePromise \in Seq(Seq(Chunk) \ {<<>>})
    /\ recv.finishes \in Seq(0..Len(recv.writePromise))
    /\ recv.blobs \in Seq(Seq(Chunk)) /\ recv.rejected \in BOOLEAN
    /\ disk \in Seq(Chunk) /\ written \in 0..Len(recv.writePromise)
    /\ file \in {"none", "open", "closing", "closed", "broken", "aborted"}
    /\ completed \in Nat /\ cancelled \in BOOLEAN
    /\ aborting \in BOOLEAN /\ early \in BOOLEAN

FirstChunks(n) == [i \in 1..n |-> i]

(* However chunks, writes, failures and cancels interleave, the disk holds  *)
(* a beginning of the file: nothing is written twice, out of order, or     *)
(* after a hole.                                                           *)
DiskIsPrefix == disk = FirstChunks(Len(disk))

Whole == FirstChunks(Len(ChunkSize))

(* onComplete is called once at the most, and means that the file is whole *)
(* in memory or on the disk and its stream closed.  The exception is the   *)
(* code's own: chunks that come before the stream is ready are counted     *)
(* twice, and the file is closed too early.                                *)
CompleteIsWhole ==
    /\ completed <= 1
    /\ completed = 1 /\ (~early \/ stream = "failed")
           => recv.blobs = <<Whole>> \/ (disk = Whole /\ file = "closed")

(* The buffer of a stream that is ready stays below the size of one write, *)
(* as soon as pushChunk has returned, whatever had gathered before.        *)
BufferStaysSmall ==
    stream = "ready" => Bytes(recv.chunks) < WRITE_BUFFER_SIZE

(* A file whose chunks have all come over a stream that was ready is       *)
(* completed, unless the disk refuses a write or the close that ends it    *)
(* (in either case the code tells nobody), or the transfer is cancelled.   *)
Completes ==
    arrived = Len(ChunkSize) /\ stream = "ready" /\ ~early
        ~> completed = 1 \/ recv.rejected \/ file = "broken" \/ cancelled

(* Once the stream has been opened, a cancel that comes at whatever moment *)
(* after that, be it while the stream is being closed, does not leave it   *)
(* open, unless a write has failed.                                        *)
CancelReleases ==
    [](file = "open" /\ ~cancelled
        => [](cancelled => <>(file \notin {"open", "closing"} \/ recv.rejected)))
=============================================================================
