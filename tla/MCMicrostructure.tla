--------------------------- MODULE MCMicrostructure ---------------------------
(* A small instance of Microstructure for TLC. *)
EXTENDS Microstructure
=============================================================================
