----------------------------- MODULE LatestFrame -----------------------------
(***************************************************************************)
(* What a frame buffer between a camera and a screen promises: a reader    *)
(* that asks is given the newest published frame, or keeps the one it has; *)
(* it is never given part of a frame, nor an older one than before.        *)
(***************************************************************************)
EXTENDS Naturals

VARIABLES latest,   \* number of the newest published frame, 0 before the first
          shown     \* number of the frame the reader has

vars == <<latest, shown>>

Init == latest = 0 /\ shown = 0

Publish == latest' = latest + 1 /\ UNCHANGED shown

Take == shown' = latest /\ UNCHANGED latest

Next == Publish \/ Take

Spec == Init /\ [][Next]_vars
=============================================================================
