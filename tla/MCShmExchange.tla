---------------------------- MODULE MCShmExchange ----------------------------
(* ShmExchange for TLC: two runs of the writer and three starts of the reader. *)
EXTENDS ShmExchange

CONSTANTS w1, w2
=============================================================================
