------------------------- MODULE MCChainlinkDelivery -------------------------
(* Small instances of ChainlinkDelivery. *)
EXTENDS ChainlinkDelivery
=============================================================================
