----------------------- MODULE MCProbabilityCollector -----------------------
(* Small instances of ProbabilityCollector for TLC. *)
EXTENDS ProbabilityCollector
=============================================================================
