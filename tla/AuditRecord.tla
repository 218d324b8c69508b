---------------------------- MODULE AuditRecord ----------------------------
(***************************************************************************)
(* The audit record of one ghost forecast decision: the value that travels *)
(* from the runtime's memory to the fsynced outbox and to PostgreSQL.      *)
(* Prices, clocks and JSON are abstracted to what the audit rules compare: *)
(* a version, the publication outcome, the horizons named on the wire and, *)
(* per horizon, the fate of the official target value.                     *)
(***************************************************************************)
EXTENDS Naturals

CONSTANTS
  Horizons,   \* forecast horizons of a decision (1, 2, 3, 5, 10, 30 s in the code)
  Stamps,     \* official TWAP source timestamps a horizon can aim at
  Values,     \* official TWAP prices
  None        \* absence of a record, of a price or of a decision

\* Publication outcomes, in the order ghost_twap_runtime.py writes them.
OpenStatus    == {"reserved", "intent", "attempting"}
DeniedStatus  == {"coalesced_before_publication", "expired_or_target_received",
                  "no_eligible_horizons", "spool_unavailable",
                  "preempted_after_spool", "expired_before_attempt"}
WireStatus    == {"acknowledged", "uncertain"}
PubStatus     == OpenStatus \cup DeniedStatus \cup WireStatus

\* The statuses written after PublishSpooled has recorded its attempt clocks.
AttemptStatus == {"attempting", "expired_before_attempt"} \cup WireStatus

TargetStatus  == {"not_forecast", "pending", "matched", "missing", "restart_unmatched"}

Target == [st : TargetStatus, first : Values \cup {None},
           conf : BOOLEAN, late : BOOLEAN, lead : BOOLEAN]

Record == [ver : Nat, aim : [Horizons -> Stamps], st : PubStatus, sel : SUBSET Horizons,
           tgt : [Horizons -> Target], term : BOOLEAN, inv : BOOLEAN]

Slot == Record \cup {None}

ASSUME NoneIsApart == /\ None \notin Record
                      /\ None \notin Values
----------------------------------------------------------------------------
(* What the code does to a record. *)

\* PendingDecision as issue() creates it: avail are the horizons with a price.
NewRecord(aim, avail) ==
  [ver |-> 1, aim |-> aim, st |-> "reserved", sel |-> {},
   tgt |-> [h \in Horizons |->
              [st |-> IF h \in avail THEN "pending" ELSE "not_forecast",
               first |-> None, conf |-> FALSE, late |-> FALSE, lead |-> FALSE]],
   term |-> FALSE, inv |-> FALSE]

\* _changed(): every change of a live row is a new version.
Bump(r) == [r EXCEPT !.ver = @ + 1]

SetStatus(r, s) == [Bump(r) EXCEPT !.st = s]

\* Horizons whose forecast has a price.
Available(r) == {h \in Horizons : r.tgt[h].st # "not_forecast"}

\* _select_publication: horizons whose official value has not been received.
Eligible(r) == {h \in Horizons : r.tgt[h].st = "pending" /\ r.tgt[h].first = None
                                 /\ ~r.tgt[h].conf}

\* A batch that lost its last priced horizon is withheld; an all-null one is not.
Selected(r) == Eligible(r) # {} \/ Available(r) = {}

\* Mutant: an attempt is enough.
EarnsLeadUnconfirmed(r, h) == r.st \in AttemptStatus /\ h \in r.sel /\ ~r.inv

\* _score_lead at the receipt of a target: the acknowledgement is already recorded,
\* so it precedes the receipt on the process's monotonic clock. (At acknowledgement
\* a target already received precedes it and earns no lead.)
EarnsLead(r, h) == r.st = "acknowledged" /\ h \in r.sel /\ ~r.inv

\* observe_target for one target of a live row; due: its 120 s window has elapsed.
ObservedTarget(r, h, v, due) ==
  LET t == r.tgt[h] IN
  IF t.first # None
    THEN IF v # t.first /\ ~t.conf THEN [t EXCEPT !.conf = TRUE, !.lead = FALSE] ELSE t
  ELSE IF t.st = "pending" /\ ~due
    THEN [t EXCEPT !.st = "matched", !.first = v, !.lead = EarnsLead(r, h)]
  ELSE IF t.st \in {"pending", "missing"}
    THEN [t EXCEPT !.st = "missing", !.late = TRUE]
  ELSE t

Observed(r, s, v, due) ==
  LET new == [h \in Horizons |-> IF r.aim[h] = s THEN ObservedTarget(r, h, v, due) ELSE r.tgt[h]]
  IN  IF new = r.tgt THEN r ELSE [Bump(r) EXCEPT !.tgt = new]

\* Pending targets closed with a verdict, the row made terminal.
Closed(r, verdict) ==
  [Bump(r) EXCEPT !.term = TRUE,
                  !.tgt = [h \in Horizons |-> IF r.tgt[h].st = "pending"
                                              THEN [r.tgt[h] EXCEPT !.st = verdict]
                                              ELSE r.tgt[h]]]

\* stop() with a clock or ordering fault withdraws every lead, once.
Invalidated(r) ==
  IF r.inv THEN r
  ELSE [Bump(r) EXCEPT !.inv = TRUE,
                       !.tgt = [h \in Horizons |-> [r.tgt[h] EXCEPT !.lead = FALSE]]]

\* note_late_target on a stored terminal row.
NotedTarget(t, v) ==
  IF t.st = "matched" /\ t.first # v /\ ~t.conf THEN [t EXCEPT !.conf = TRUE, !.lead = FALSE]
  ELSE IF t.st \in {"missing", "restart_unmatched"} THEN [t EXCEPT !.late = TRUE]
  ELSE t

Noted(r, s, v) ==
  LET new == [h \in Horizons |-> IF r.aim[h] = s THEN NotedTarget(r.tgt[h], v) ELSE r.tgt[h]]
  IN  IF ~r.term \/ new = r.tgt THEN r ELSE [Bump(r) EXCEPT !.tgt = new]
----------------------------------------------------------------------------
(* _transition: what the store accepts as the next state of a record. *)

TargetKept(old, new) ==
  /\ old.first # None => new.first = old.first /\ new.st = old.st
  /\ old.st # "pending" => new.st = old.st
  /\ old.late => new.late
  /\ old.conf => new.conf

Legal(old, new) ==
  /\ new.aim = old.aim
  /\ old.term => new.term
  /\ old.st \notin OpenStatus => new.st = old.st
  /\ old.st \in AttemptStatus => new.st \in AttemptStatus /\ new.sel = old.sel
  /\ \A h \in Horizons : TargetKept(old.tgt[h], new.tgt[h])

\* persist() raises nothing: an insert, a stale or identical retry, or a legal update.
Accepts(old, new) ==
  old # None =>
    /\ new.aim = old.aim
    /\ new.ver = old.ver => new = old
    /\ new.ver > old.ver => Legal(old, new)

Stored(old, new) == IF old = None THEN new ELSE IF new.ver > old.ver THEN new ELSE old

\* GhostSpool.write: the outbox keeps the newest version; a different record of the
\* same version is a conflict.
SpoolAccepts(old, new) ==
  old # None => new.aim = old.aim /\ (new.ver = old.ver => new = old)
=============================================================================
