---------------------------- MODULE MCGhostAudit ----------------------------
(* A small instance of GhostAudit for TLC. *)
EXTENDS GhostAudit, TLC

CONSTANTS d1, d2, h1, h2, v1, v2

MCAim == [d \in Decisions |-> [h \in Horizons |-> IF h = h1 THEN 1 ELSE 2]]
MCPriced == {Horizons}
MCSymmetry == Permutations(Decisions) \cup Permutations(Values)
=============================================================================
