---------------------------- MODULE AuditLedger ----------------------------
(***************************************************************************)
(* What the ghost audit promises to whoever reads it later: per decision   *)
(* one record that only moves forward, and a wire on which nothing appears *)
(* that the ledger has not announced or has denied.  How the record is     *)
(* kept, in an outbox file, in PostgreSQL or in both, is not said here.    *)
(***************************************************************************)
EXTENDS AuditRecord

CONSTANT Decisions

VARIABLES ledger,   \* the newest durable record of each decision
          wire      \* decisions whose message Redis has applied

Announced == {"intent", "attempting"} \cup WireStatus

\* An acknowledgement is evidence of the wire; a denial is final.
Truthful(d, r) == /\ r.st = "acknowledged" => d \in wire
                  /\ r.st \notin Announced => d \notin wire

Advance(d) ==
  /\ ledger'[d] # None /\ Truthful(d, ledger'[d])
  /\ ledger[d] # None => ledger'[d].ver > ledger[d].ver /\ Legal(ledger[d], ledger'[d])

\* Several records may be annotated in one transaction.
Annotate ==
  /\ ledger' # ledger /\ wire' = wire
  /\ \A d \in Decisions : ledger'[d] = ledger[d] \/ Advance(d)

Appear(d) ==
  /\ d \notin wire /\ ledger[d] # None /\ ledger[d].st \in Announced
  /\ wire' = wire \cup {d} /\ ledger' = ledger

Init == ledger = [d \in Decisions |-> None] /\ wire = {}
Next == Annotate \/ \E d \in Decisions : Appear(d)
Spec == Init /\ [][Next]_<<ledger, wire>>
=============================================================================
