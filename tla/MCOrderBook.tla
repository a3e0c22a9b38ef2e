---------------------------- MODULE MCOrderBook ----------------------------
(* OrderBook for TLC; the bounds are in the .cfg files. *)
EXTENDS OrderBook
=============================================================================
