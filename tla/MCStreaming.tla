----------------------------- MODULE MCStreaming -----------------------------
(* An instance of Streaming: a window between the first and the last, with two *)
(* trades in it, so that it can have a part of its trades.                     *)
EXTENDS Streaming

OneTwoOne == <<0, 1, 1, 2>>
=============================================================================
