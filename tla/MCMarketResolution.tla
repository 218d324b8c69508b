------------------------- MODULE MCMarketResolution -------------------------
(* A small instance of MarketResolution for TLC. *)
EXTENDS MarketResolution, TLC

CONSTANTS up, down

MCOfficial == [m \in Markets |-> up]
=============================================================================
