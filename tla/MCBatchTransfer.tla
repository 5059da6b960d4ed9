-------------------------- MODULE MCBatchTransfer --------------------------
(* Two files, the first of two blocks and four chunks, the second of two   *)
(* chunks, and a buffer that pauses the send loop in mid-block.            *)
EXTENDS BatchTransfer

MCFileSize == <<7, 3>>

(* For the runs that end in a counterexample.                              *)
TinyFileSize == <<2, 1>>
=============================================================================
