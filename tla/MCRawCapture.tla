---------------------------- MODULE MCRawCapture ----------------------------
(* RawCapture for TLC. *)
EXTENDS RawCapture
=============================================================================
