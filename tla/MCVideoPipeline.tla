--------------------------- MODULE MCVideoPipeline ---------------------------
(* VideoPipeline and its double buffer for TLC: a handful of frames is      *)
(* enough for a frame to be skipped, shown twice and overtaken.             *)
EXTENDS VideoPipeline
=============================================================================
