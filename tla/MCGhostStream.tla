--------------------------- MODULE MCGhostStream ---------------------------
(* GhostStream for TLC. *)
EXTENDS GhostStream
CONSTANTS c1, c2, b1, b2
=============================================================================
