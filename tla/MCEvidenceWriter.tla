--------------------------- MODULE MCEvidenceWriter ---------------------------
(* A small instance of EvidenceWriter for TLC. *)
EXTENDS EvidenceWriter, TLC

MCOffers == [c \in Conns |-> IF c = 1 THEN {"q1"} ELSE {"tick", "gap"}]
=============================================================================
