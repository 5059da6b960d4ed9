-------------------------- MODULE MCStreamReceiver --------------------------
(* TLC instance of StreamReceiver.                                         *)
EXTENDS StreamReceiver

Sizes == <<2, 1, 2, 1, 1, 2, 1>>
=============================================================================
