-------------------------- MODULE HistoryRetention --------------------------
(***************************************************************************)
(* expire_history: the one-shot pass that a timer starts again and again   *)
(* to delete history older than ten days, in batches, children before      *)
(* parents, while collectors go on writing.                                *)
(*                                                                         *)
(* A row belongs to the parents whose key it carries.  One batch is one    *)
(* READ COMMITTED transaction: its statement reads a snapshot, then locks  *)
(* and deletes, and what a collector commits in between is seen only by    *)
(* the foreign keys.                                                       *)
(***************************************************************************)
EXTENDS Integers, Sequences, FiniteSets

CONSTANTS
  Retired,     \* the optional tables that exist
  History,     \* rows at the beginning: [table, key, of, old]
  Arrivals,    \* transactions of the collectors: sets of rows
  BatchSize,   \* batch_size
  MaxErrors    \* bound: timeouts, locked rows and deadlines

\* Identity of a row for those that carry its key.
Id(r) == <<r.table, r.key>>

AllRows == History \cup UNION Arrivals

\* A retired table has a place in the plan while it exists.
Optional(t) == IF t \in Retired THEN <<t>> ELSE <<>>

MarketTables ==
  Optional("flip_cutoffs") \o Optional("flip_events") \o Optional("flip_archive") \o
  Optional("shadow_predictions") \o
  <<"price_samples", "probability_samples", "futures_snapshots", "flow_1s", "book_1s",
    "microstructure_1s", "oi_summaries", "twap_events", "quote_observations",
    "market_observations">> \o
  Optional("flip_evaluations") \o <<"resolutions", "markets", "market_windows">>

\* expiry_plan.
Plan == MarketTables \o <<"twap_gaps", "twap_sessions", "evidence_payloads", "price_traces",
                          "chainlink_events", "feed_sessions">>

Tables  == {Plan[i] : i \in 1..Len(Plan)}
Parents == {"flip_evaluations", "markets", "market_windows", "twap_sessions", "evidence_payloads",
            "feed_sessions"}
Leaves  == Tables \ Parents

\* Mutant: the resolutions of a market and the events of a raw session are forgotten.
UnreferencedByFewer(t) ==
  CASE t = "flip_evaluations"  -> {"flip_events", "flip_cutoffs"}
    [] t = "markets"           -> {"flip_evaluations"}
    [] t = "market_windows"    -> {MarketTables[i] : i \in 1..Len(MarketTables)} \ {t}
    [] t = "twap_sessions"     -> {"twap_events", "twap_gaps"}
    [] t = "evidence_payloads" -> {"market_observations"}
    [] OTHER                   -> {}

\* The tables whose rows keep a parent: _unreferenced in its predicate.
UnreferencedBy(t) ==
  CASE t = "flip_evaluations"  -> {"flip_events", "flip_cutoffs"}
    [] t = "markets"           -> {"resolutions", "flip_evaluations"}
    [] t = "market_windows"    -> {MarketTables[i] : i \in 1..Len(MarketTables)} \ {t}
    [] t = "twap_sessions"     -> {"twap_events", "twap_gaps"}
    [] t = "evidence_payloads" -> {"market_observations"}
    [] t = "feed_sessions"     -> {"price_traces", "chainlink_events"}
    [] OTHER                   -> {}

\* The foreign keys of schema.sql (and of the retired tables).
Constrains(t) ==
  CASE t = "flip_evaluations"  -> {"flip_events", "flip_cutoffs"}
    [] t = "markets"           -> {"resolutions", "flip_evaluations"}
    [] t = "market_windows"    -> {MarketTables[i] : i \in 1..Len(MarketTables)}
                                    \ {t, "resolutions", "flip_evaluations", "flip_events", "flip_cutoffs"}
    [] t = "twap_sessions"     -> {"twap_events", "twap_gaps"}
    [] t = "evidence_payloads" -> {"market_observations"}
    [] OTHER                   -> {}

\* The tables whose rows carry the key of a row of t: columns market_id, connection_id, payload_hash.
Carriers(t) ==
  CASE t = "market_windows"    -> {MarketTables[i] : i \in 1..Len(MarketTables)} \ {t}
    [] t = "markets"           -> {"resolutions", "flip_evaluations"}
    [] t = "flip_evaluations"  -> {"flip_events", "flip_cutoffs"}
    [] t = "twap_sessions"     -> {"twap_events", "twap_gaps"}
    [] t = "evidence_payloads" -> {"market_observations"}
    [] t = "feed_sessions"     -> {"price_traces", "chainlink_events"}
    [] OTHER                   -> {}

ASSUME RetentionBounds == BatchSize \in Nat \ {0} /\ MaxErrors \in Nat /\ IsFiniteSet(AllRows)

ASSUME HistoryIsComplete ==
  \A r \in History : r.table \in Tables /\ \A id \in r.of : \E p \in History : Id(p) = id

\* A transaction inserts the parents of its rows with them.
ASSUME ArrivalsBringParents ==
  \A new \in Arrivals : \A r \in new :
    r.table \in Tables /\ \A id \in r.of : \E p \in new : Id(p) = id

\* What a row is part of follows from its key.
ASSUME RowsFollowTheSchema ==
  /\ \A c \in AllRows : \A id \in c.of : c.table \in Carriers(id[1])
  /\ \A c, d \in AllRows : Id(c) = Id(d) => c.of = d.of

\* What arrives is held by a foreign key: its own, or that of a row between it and the parent, as
\* the market is between a resolution and the window.  Raw events have none; they
\* arrive for sessions that are not old.
ASSUME ArrivalsAreConstrained ==
  \A new \in Arrivals : \A c \in new : \A id \in c.of :
    \/ \E d \in new : id \in d.of /\ d.table \in Constrains(id[1])
    \/ id[1] = "feed_sessions" /\ \A r \in AllRows : Id(r) = id => ~r.old

VARIABLES
  rows,        \* the database
  arrivals,    \* transactions to come
  phase,       \* of the pass: over, between two batches, in a batch, cut by its deadline
  at,          \* position in the plan
  batch,       \* the rows that the statement's snapshot selected
  progressed,
  pending,     \* pending_leaves
  completed,   \* completed_leaves
  errors,      \* tables with an error in this pass
  excused,     \* rows that were locked, or arrived, during this pass
  faults

lap    == <<at, progressed>>
leaves == <<pending, completed>>
retentionVars   == <<rows, arrivals, phase, lap, batch, leaves, errors, excused, faults>>

RetentionTypeOK ==
  /\ rows \subseteq AllRows /\ arrivals \subseteq Arrivals /\ excused \subseteq AllRows
  /\ phase \in {"complete", "lap", "batch", "cut"} /\ at \in 1..Len(Plan) + 1
  /\ batch \subseteq AllRows /\ Cardinality(batch) <= BatchSize
  /\ progressed \in BOOLEAN
  /\ pending \subseteq Leaves /\ completed = Leaves \ pending
  /\ errors \subseteq Tables /\ faults \in 0..MaxErrors

RetentionInit ==
  /\ rows = History /\ arrivals = Arrivals
  /\ phase = "cut" /\ at = 1 /\ batch = {} /\ progressed = FALSE
  /\ pending = Leaves /\ completed = {} /\ errors = {} /\ excused = {} /\ faults = 0

Fault == faults < MaxErrors /\ faults' = faults + 1
----------------------------------------------------------------------------
(* The collectors. *)

\* One transaction: parents are inserted ON CONFLICT DO NOTHING, then their children; a
\* parent that is deleted meanwhile makes it fail, and its owner runs it again.
Insert(new) ==
  /\ new \in arrivals /\ arrivals' = arrivals \ {new}
  /\ rows' = rows \cup {r \in new : \A p \in rows : Id(p) # Id(r)}
  /\ excused' = excused \cup new
  /\ UNCHANGED <<phase, lap, batch, leaves, errors, faults>>
----------------------------------------------------------------------------
(* The pass. *)

Table == Plan[at]

References(c, r) == Id(r) \in c.of

\* Rows that a table's predicate selects.
Expired(t) ==
  {r \in rows : /\ r.table = t /\ r.old
                /\ \A c \in rows : c.table \in UnreferencedBy(t) => ~References(c, r)}

Begin ==
  /\ phase \in {"complete", "cut"} /\ phase' = "lap" /\ at' = 1 /\ progressed' = FALSE
  /\ pending' = Leaves /\ completed' = {} /\ errors' = {} /\ excused' = {}
  /\ UNCHANGED <<rows, arrivals, batch, faults>>

\* A failed table waits for the next pass; parents wait for every leaf.
PassedOver == Table \in errors \cup completed \/ (Table \in Parents /\ pending # {})

Skip ==
  /\ phase = "lap" /\ at <= Len(Plan) /\ PassedOver /\ at' = at + 1
  /\ UNCHANGED <<rows, arrivals, phase, progressed, batch, leaves, errors, excused, faults>>

\* The statement's snapshot, but for the rows that are locked.
Select ==
  /\ phase = "lap" /\ at <= Len(Plan) /\ ~PassedOver /\ phase' = "batch"
  /\ \E locked \in SUBSET Expired(Table) :
       /\ IF locked = {} THEN UNCHANGED faults ELSE Fault
       /\ excused' = excused \cup locked
       /\ batch' \in {v \in SUBSET (Expired(Table) \ locked) :
            \/ Cardinality(v) = BatchSize
            \/ Cardinality(v) < BatchSize /\ v = Expired(Table) \ locked}
  /\ UNCHANGED <<rows, arrivals, lap, leaves, errors>>

Violates == \E r \in batch, c \in rows : c.table \in Constrains(Table) /\ References(c, r)

Ends == phase' = "lap" /\ at' = at + 1 /\ batch' = {}

\* Mutant: a leaf that ran dry is not progress.
CommitQuietly ==
  /\ phase = "batch" /\ ~Violates /\ Ends
  /\ rows' = rows \ batch
  /\ LET dry == Table \in pending /\ Cardinality(batch) < BatchSize IN
       /\ progressed' = (progressed \/ batch # {})
       /\ pending' = IF dry THEN pending \ {Table} ELSE pending
       /\ completed' = IF dry THEN completed \cup {Table} ELSE completed
  /\ UNCHANGED <<arrivals, errors, excused, faults>>

\* Mutant: a parent that ran dry counts as a complete leaf.
CommitAnyTable ==
  /\ phase = "batch" /\ ~Violates /\ Ends
  /\ rows' = rows \ batch
  /\ LET dry == Cardinality(batch) < BatchSize IN
       /\ progressed' = (progressed \/ batch # {} \/ dry)
       /\ pending' = IF dry THEN pending \ {Table} ELSE pending
       /\ completed' = IF dry THEN completed \cup {Table} ELSE completed
  /\ UNCHANGED <<arrivals, errors, excused, faults>>

\* A batch is deleted; a leaf that has no full batch left is complete.
Commit ==
  /\ phase = "batch" /\ ~Violates /\ Ends
  /\ rows' = rows \ batch
  /\ LET dry == Table \in pending /\ Cardinality(batch) < BatchSize IN
       /\ progressed' = (progressed \/ batch # {} \/ dry)
       /\ pending' = IF dry THEN pending \ {Table} ELSE pending
       /\ completed' = IF dry THEN completed \cup {Table} ELSE completed
  /\ UNCHANGED <<arrivals, errors, excused, faults>>

\* A foreign key, a lock timeout or a statement timeout rolls the batch back.
Fails ==
  /\ phase = "batch" /\ Ends /\ errors' = errors \cup {Table}
  /\ IF Violates THEN UNCHANGED faults ELSE Fault
  /\ UNCHANGED <<rows, arrivals, progressed, leaves, excused>>

LapEnds ==
  /\ phase = "lap" /\ at > Len(Plan)
  /\ IF progressed THEN at' = 1 /\ progressed' = FALSE /\ UNCHANGED phase
                   ELSE phase' = "complete" /\ UNCHANGED lap
  /\ UNCHANGED <<rows, arrivals, batch, leaves, errors, excused, faults>>

\* max_seconds are over.
Deadline ==
  /\ phase = "lap" /\ Fault /\ phase' = "cut"
  /\ UNCHANGED <<rows, arrivals, lap, batch, leaves, errors, excused>>
----------------------------------------------------------------------------
Pass == Begin \/ Skip \/ Select \/ Commit \/ Fails \/ LapEnds

RetentionNext == Pass \/ Deadline \/ \E new \in Arrivals : Insert(new)

RetentionSpec == RetentionInit /\ [][RetentionNext]_retentionVars

\* The timer starts the service again; statements end, by their timeout if need be.
RetentionFairness == WF_retentionVars(Pass)

RetentionFairSpec == RetentionSpec /\ RetentionFairness
----------------------------------------------------------------------------
(* What must hold. *)

\* Metadata, sessions and shared payloads stay as long as a row that carries their key does.
NeededStays == \A c \in rows : \A id \in c.of : \E p \in rows : Id(p) = id

\* Rows that the predicates select and nobody has locked or only just written.
Left(t) == Expired(t) \ excused

\* A pass that ends before its deadline, without an error, has left nothing to delete.
CleanWhenDone == phase = "complete" /\ errors = {} => \A t \in Tables : Left(t) = {}

\* Expiry takes all of what it may, and nothing that is still needed.
ExpiryIsExact == RetentionTypeOK /\ NeededStays /\ CleanWhenDone

\* Once errors, locks and deadlines cease, the passes delete all that has expired.
ExpiresInTheEnd == <>[](\A t \in Tables : Expired(t) = {})

\* Refuted.  expire_history's docstring: "One error cannot starve others."  A pass that ends before its
\* deadline has left nothing to delete in the tables that had no error.
OneErrorStarvesNoOther == phase = "complete" => \A t \in Tables \ errors : Left(t) = {}
=============================================================================
