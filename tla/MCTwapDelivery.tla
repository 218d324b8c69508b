---------------------------- MODULE MCTwapDelivery ----------------------------
(* A small instance of TwapDelivery for TLC. *)
EXTENDS TwapDelivery, TLC

CONSTANTS c1, c2
=============================================================================
