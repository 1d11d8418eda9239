----------------------------- MODULE MCSalofFifo -----------------------------
(* SalofFifo for TLC: a buffer of four bytes whose counters wrap at eight.  *)
EXTENDS SalofFifo

CONSTANTS w1, w2
=============================================================================
